------------------------- MODULE SweBenchRuns_proofs -------------------------
(***************************************************************************)
(* Machine-checked proofs about SweBenchRuns, for every set of runs and    *)
(* every limit of the service.                                             *)
(*                                                                         *)
(* What is known of one run does not mention the others, so the invariant  *)
(* is a predicate Fit of one run's part of the state, for every run, and a *)
(* few facts about counts, the prune task and the shutdown.                *)
(***************************************************************************)
EXTENDS SweBenchRuns, FiniteSetTheorems, SequenceTheorems, TLAPS

Status == {"none", "queued", "gone"} \cup {"running"} \cup Terminal
Record == [st : Status, disk : Status, lost : BOOLEAN, readers : Nat]
TaskPc == {"none", "semaphore", "starting", "running", "finalizing", "ending", "done"}
Thread == [pc : {"none", "check", "attach", "wait", "clean", "ended"},
           stage : {"agent", "eval"}, proc : {"none", "alive", "zero", "nonzero", "killed"},
           held : BOOLEAN, res : {"none", "ok", "error", "cancelled"}]
CancelPc == {"none", "begin", "mark", "write", "done", "raised"}
Write == [st : Status, by : {"execute"} \cup Callers]
ScorerPc == {"idle", "submitting", "polling", "incomplete", "artifacts", "reading", "scored"}

Shape ==
  /\ run \in [Runs -> Record] /\ token \in [Runs -> BOOLEAN] /\ task \in [Runs -> TaskPc]
  /\ job \in [Runs -> Thread] /\ cancels \in [Runs -> [Callers -> CancelPc]]
  /\ writes \in [Runs -> Seq(Write)] /\ scorer \in [Runs -> ScorerPc]
  /\ prune \in [pc : {"idle", "scan", "sweep"}, left : SUBSET Runs, removing : SUBSET Runs]
  /\ server \in {"up", "cancelling", "waiting", "down", "raised"} /\ doomed \subseteq Runs

(* The predicates below are of one run: u its record, k its token, t its    *)
(* task, j its thread, c its cancel() calls, w its queued writes and s its  *)
(* scorer.                                                                  *)

\* The caller by waits for a write.
Writer(t, c, by) ==
  IF by = "execute" THEN t \in {"starting", "ending"} ELSE c[by] = "write"

\* So do those of the queued writes, but for by.
Waits(w, by, t, c) ==
  \A i \in 1..Len(w) : w[i].by # by => Writer(t, c, w[i].by)

Queued(w, by) == \E i \in 1..Len(w) : w[i].by = by

\* A queued write is of a caller that waits for it and for no other, and the
\* last one is of the present status.
Queue(u, t, c, w) ==
  /\ \A i \in 1..Len(w) : Writer(t, c, w[i].by)
  /\ \A i, j \in 1..Len(w) : w[i].by = w[j].by => i = j
  /\ w # <<>> => u.st \in {"none", "gone"} \/ w[Len(w)].st = u.st

\* Where the runner's thread is while the task is at t.
Watched(t, j) ==
  /\ t \in {"none", "semaphore", "starting"} => j.pc = "none"
  /\ t = "running" => j.pc # "none"
  /\ t = "finalizing" => j.pc = "ended" /\ j.res = "ok"
  /\ t \in {"ending", "done"} => j.pc \in {"none", "ended"}
  /\ j.proc = "alive" => j.pc \in {"attach", "wait"}

\* What the status says of the task and its result.
Truthful(u, k, t, j, w, s) ==
  /\ u.st \in {"succeeded", "failed"} =>
       t \in {"ending", "done"} /\ j.pc = "ended" /\ j.res \in {"ok", "error"}
  /\ u.st = "succeeded" \/ s \in {"artifacts", "reading", "scored"} =>
       j.pc = "ended" /\ j.res = "ok"
  /\ u.st = "cancelled" \/ j.res = "cancelled" => k
  /\ u.st \notin {"none", "gone"} /\ ~u.lost /\ w = <<>> /\ t # "semaphore" /\ s # "submitting"
       => u.disk = u.st

\* A cancel() that goes on has set the token, unless the runner had ended; a
\* run that was not submitted is unknown to everyone.
Cancelled(u, k, t, j, c, s) ==
  /\ \A x \in Callers : c[x] \in {"mark", "write"} => k
  /\ \A x \in Callers : c[x] = "done" => k \/ j.pc = "ended"
  /\ k => \E x \in Callers : c[x] # "none"
  /\ s = "idle" => u.st = "none" /\ \A x \in Callers : c[x] = "none"
  /\ s \in {"idle", "submitting"} => t = "none"
  /\ c["scorer"] # "none" => s = "incomplete"

Fit(u, k, t, j, c, w, s) ==
  /\ Queue(u, t, c, w) /\ Watched(t, j)
  /\ Truthful(u, k, t, j, w, s) /\ Cancelled(u, k, t, j, c, s)

AllFit ==
  \A r \in Runs : Fit(run[r], token[r], task[r], job[r], cancels[r], writes[r], scorer[r])

Holding == {r \in Runs : Holds(r)}
With(S) == {r \in Runs : run[r].st \in S}

\* The service's limits.
Limits == Cardinality(With(Active)) <= MaxConcurrentRuns /\ Cardinality(Holding) <= MaxConcurrentRuns

\* The prune task's victims are over or discarded; without a shutdown it
\* discards no more than are too many.
Pruning ==
  /\ \A r \in prune.left : run[r].st \in Terminal \cup {"gone"}
  /\ \A r \in prune.removing : run[r].st = "gone"
  /\ prune.pc = "sweep" /\ server = "up" =>
       /\ prune.left \subseteq With(Terminal)
       /\ Cardinality(prune.left) + MaxStoredRuns <= Cardinality(With(Terminal))

\* The shutdown waits for its cancel() calls first, then for the tasks there
\* are; a task it does not wait for has not started its runner and will not.
Shutdown ==
  /\ server = "up" => \A r \in Runs : cancels[r]["shutdown"] = "none"
  /\ server = "cancelling" => \A r \in Runs : cancels[r]["shutdown"] # "none" => r \in doomed
  /\ server \in {"waiting", "down"} =>
       \A r \in Runs : cancels[r]["shutdown"] # "none" =>
         /\ cancels[r]["shutdown"] = "done"
         /\ task[r] \in {"starting", "running"} => server = "waiting" /\ r \in doomed

\* The inductive invariant.
ServiceInv == Shape /\ AllFit /\ Limits /\ Pruning /\ Shutdown

-----------------------------------------------------------------------------
(* The queue of status writes.                                             *)

\* A queued write is of the task or of a cancel().
LEMMA WritersNamed ==
  ASSUME NEW w \in Seq(Write)
  PROVE  \A i \in 1..Len(w) : w[i].by \in {"execute"} \cup Callers
<1> SUFFICES ASSUME NEW i \in 1..Len(w) PROVE w[i].by \in {"execute"} \cup Callers
  OBVIOUS
<1>1. w[i] \in Write
  BY ElementOfSeq
<1> QED
  BY <1>1 DEF Write

\* A caller that has no write queued queues one of the status it sets.
LEMMA QueueGrows ==
  ASSUME NEW u, NEW t, NEW c, NEW w \in Seq(Write), NEW e \in Write,
         NEW u2, NEW t2, NEW c2, Queue(u, t, c, w), ~Queued(w, e.by),
         Waits(w, e.by, t2, c2), Writer(t2, c2, e.by), u2.st = e.st
  PROVE  /\ Queue(u2, t2, c2, Append(w, e))
         /\ Append(w, e) \in Seq(Write) /\ Append(w, e) # <<>>
<1> DEFINE a == Append(w, e)
<1>1. /\ a \in Seq(Write) /\ Len(a) = Len(w) + 1 /\ a[Len(a)] = e /\ Len(w) \in Nat
      /\ \A i \in 1..Len(w) : a[i] = w[i]
      /\ a # <<>>
  BY AppendProperties, EmptySeq
<1> HIDE DEF a
<1>2. \A i \in 1..Len(a) : i = Len(a) \/ i \in 1..Len(w)
  BY <1>1
<1>3. Queue(u2, t2, c2, a)
  BY <1>1, <1>2 DEF Queue, Queued, Waits
<1> QED
  BY <1>1, <1>3 DEF a

\* The write at the head ends; the callers of the others still wait.
LEMMA QueueShrinks ==
  ASSUME NEW u, NEW t, NEW c, NEW w \in Seq(Write), w # <<>>, NEW u2, NEW t2, NEW c2,
         Queue(u, t, c, w), u2.st = u.st, Waits(w, Head(w).by, t2, c2)
  PROVE  /\ Queue(u2, t2, c2, Tail(w)) /\ Tail(w) \in Seq(Write)
         /\ Tail(w) = <<>> /\ u.st \notin {"none", "gone"} => Head(w).st = u.st
<1> DEFINE a == Tail(w)
<1>1. /\ a \in Seq(Write) /\ Len(a) = Len(w) - 1 /\ Len(w) \in Nat \ {0}
      /\ \A i \in 1..Len(a) : a[i] = w[i + 1]
      /\ Head(w) = w[1]
  OBVIOUS
<1>2. a = <<>> <=> Len(a) = 0
  BY <1>1, EmptySeq
<1> HIDE DEF a
<1>3. \A i \in 1..Len(a) : i + 1 \in 1..Len(w) /\ i + 1 # 1
  BY <1>1
<1>4. \A i \in 1..Len(a) : w[i + 1].by # w[1].by
  BY <1>1, <1>3 DEF Queue
<1>5. \A i, j \in 1..Len(a) : a[i].by = a[j].by => i = j
  <2> SUFFICES ASSUME NEW i \in 1..Len(a), NEW j \in 1..Len(a), a[i].by = a[j].by PROVE i = j
    OBVIOUS
  <2>1. i + 1 = j + 1
    BY <1>1, <1>3 DEF Queue
  <2> QED
    BY <2>1
<1>6. a # <<>> => u2.st \in {"none", "gone"} \/ a[Len(a)].st = u2.st
  <2> SUFFICES ASSUME a # <<>> PROVE u2.st \in {"none", "gone"} \/ a[Len(a)].st = u2.st
    OBVIOUS
  <2>1. Len(a) \in 1..Len(a) /\ Len(a) + 1 = Len(w)
    BY <1>1, <1>2
  <2>2. a[Len(a)] = w[Len(w)]
    BY <1>1, <2>1
  <2> QED
    BY <2>2 DEF Queue
<1>7. Queue(u2, t2, c2, a)
  BY <1>1, <1>3, <1>4, <1>5, <1>6 DEF Queue, Waits
<1>8. a = <<>> /\ u.st \notin {"none", "gone"} => Head(w).st = u.st
  <2>1. a = <<>> => Len(w) = 1
    BY <1>1, <1>2
  <2>2. u.st \notin {"none", "gone"} => w[Len(w)].st = u.st
    BY DEF Queue
  <2> QED
    BY <1>1, <2>1, <2>2
<1> QED
  BY <1>1, <1>7, <1>8 DEF a

\* Nobody's write is lost when nothing of the queue or its callers changes.
LEMMA QueueStays ==
  ASSUME NEW u, NEW t, NEW c, NEW w \in Seq(Write), NEW u2, NEW t2, NEW c2, Queue(u, t, c, w),
         u2.st \in {"none", "gone", u.st} \/ w = <<>>, t \in {"starting", "ending"} => t2 = t,
         w # <<>> => \A x \in Callers : c[x] = "write" => c2[x] = "write"
  PROVE  Queue(u2, t2, c2, w)
<1>1. CASE w = <<>>
  BY <1>1 DEF Queue
<1>2. CASE w # <<>>
  BY <1>2, WritersNamed DEF Queue, Writer
<1> QED
  BY <1>1, <1>2

-----------------------------------------------------------------------------
(* Counting.                                                               *)

\* Sets of runs are finite; a part counts no more than the whole.
LEMMA SetsCounted ==
  \A S \in SUBSET Runs :
    /\ IsFiniteSet(S) /\ Cardinality(S) \in Nat
    /\ \A T \in SUBSET S : Cardinality(T) <= Cardinality(S)
<1> SUFFICES ASSUME NEW S \in SUBSET Runs
             PROVE  /\ IsFiniteSet(S) /\ Cardinality(S) \in Nat
                    /\ \A T \in SUBSET S : Cardinality(T) <= Cardinality(S)
  OBVIOUS
<1>1. IsFiniteSet(S)
  BY SweBenchAssumption, FS_Subset
<1> QED
  BY <1>1, FS_CardinalityType, FS_Subset

\* Runs that are not active, and tasks that do not hold the semaphore, stay so.
LEMMA LimitsKept ==
  ASSUME Limits, NEW r \in Runs,
         \A q \in Runs \ {r} : run'[q] = run[q] /\ task'[q] = task[q],
         run'[r].st \in Active => run[r].st \in Active, Holds(r)' => Holds(r)
  PROVE  Limits'
<1>1. With(Active)' \subseteq With(Active) /\ Holding' \subseteq Holding
  BY DEF With, Holding, Holds
<1>2. With(Active) \in SUBSET Runs /\ Holding \in SUBSET Runs
  BY DEF With, Holding
<1>3. /\ Cardinality(With(Active)') <= Cardinality(With(Active))
      /\ Cardinality(Holding') <= Cardinality(Holding)
      /\ Cardinality(With(Active)) \in Nat /\ Cardinality(Holding) \in Nat
      /\ Cardinality(With(Active)') \in Nat /\ Cardinality(Holding') \in Nat
  BY <1>1, <1>2, SetsCounted
<1>4. MaxConcurrentRuns \in Nat
  BY SweBenchAssumption
<1> QED
  BY <1>3, <1>4 DEF Limits

-----------------------------------------------------------------------------
(* A step that is about one run.                                           *)

Local(r) ==
  /\ \A q \in Runs \ {r} :
       /\ run'[q] = run[q] /\ token'[q] = token[q] /\ task'[q] = task[q] /\ job'[q] = job[q]
       /\ cancels'[q] = cancels[q] /\ writes'[q] = writes[q] /\ scorer'[q] = scorer[q]
  /\ server' = server /\ doomed' = doomed
  /\ prune'.left = prune.left /\ prune'.removing = prune.removing
  /\ prune'.pc = "sweep" => prune.pc = "sweep"

\* The run does not come back, and does not leave the runs the prune task
\* counted; the shutdown's cancel() of it begins only at the shutdown, and after
\* its end no runner starts.
Onward(r) ==
  /\ run[r].st = "gone" => run'[r].st = "gone"
  /\ run[r].st \in Terminal =>
       run'[r].st \in IF server = "up" THEN Terminal ELSE Terminal \cup {"gone"}
  /\ cancels'[r]["shutdown"] = "none" <=> cancels[r]["shutdown"] = "none"
  /\ cancels[r]["shutdown"] = "done" =>
       /\ cancels'[r]["shutdown"] = "done"
       /\ task'[r] \in {"starting", "running"} => task[r] \in {"starting", "running"}

\* A step of one run that fits its new state keeps the invariant.
LEMMA LocalKeeps ==
  ASSUME ServiceInv, NEW r \in Runs, Shape', Local(r), Onward(r), Limits',
         Fit(run'[r], token'[r], task'[r], job'[r], cancels'[r], writes'[r], scorer'[r])
  PROVE  ServiceInv'
<1>1. AllFit'
  <2> SUFFICES ASSUME NEW q \in Runs
               PROVE  Fit(run'[q], token'[q], task'[q], job'[q], cancels'[q], writes'[q], scorer'[q])
    BY DEF AllFit
  <2>1. CASE q = r
    BY <2>1
  <2>2. CASE q # r
    BY <2>2 DEF ServiceInv, AllFit, Local
  <2> QED
    BY <2>1, <2>2
<1>2. Pruning'
  <2>1. prune.left \subseteq Runs /\ prune.removing \subseteq Runs
    BY DEF ServiceInv, Shape
  <2>2. \A q \in prune.left : run'[q].st \in Terminal \cup {"gone"}
    BY <2>1 DEF ServiceInv, Pruning, Local, Onward
  <2>3. \A q \in prune.removing : run'[q].st = "gone"
    BY <2>1 DEF ServiceInv, Pruning, Local, Onward
  <2>4. ASSUME prune'.pc = "sweep", server' = "up"
        PROVE  /\ prune'.left \subseteq With(Terminal)'
               /\ Cardinality(prune'.left) + MaxStoredRuns <= Cardinality(With(Terminal)')
    <3>1. /\ prune.left \subseteq With(Terminal) /\ prune'.left = prune.left /\ server = "up"
          /\ Cardinality(prune.left) + MaxStoredRuns <= Cardinality(With(Terminal))
      BY <2>4 DEF ServiceInv, Pruning, Local
    <3>2. With(Terminal) \subseteq With(Terminal)'
      BY <3>1 DEF With, Local, Onward
    <3>3. /\ Cardinality(With(Terminal)) <= Cardinality(With(Terminal)')
          /\ Cardinality(With(Terminal)) \in Nat /\ Cardinality(With(Terminal)') \in Nat
          /\ Cardinality(prune.left) \in Nat
      <4>1. With(Terminal)' \in SUBSET Runs /\ With(Terminal) \in SUBSET Runs
        BY DEF With
      <4> QED
        BY <2>1, <3>2, <4>1, SetsCounted
    <3>4. MaxStoredRuns \in Nat
      BY SweBenchAssumption
    <3> QED
      BY <3>1, <3>2, <3>3, <3>4
  <2> QED
    BY <2>2, <2>3, <2>4 DEF Pruning, Local
<1>3. Shutdown'
  <2>1. server' = server /\ doomed' = doomed
    BY DEF Local
  <2>2. \A q \in Runs : cancels'[q]["shutdown"] = "none" <=> cancels[q]["shutdown"] = "none"
    BY DEF Local, Onward
  <2>3. \A q \in Runs : cancels[q]["shutdown"] = "done" =>
          /\ cancels'[q]["shutdown"] = "done"
          /\ task'[q] \in {"starting", "running"} => task[q] \in {"starting", "running"}
    BY DEF Local, Onward
  <2> QED
    BY <2>1, <2>2, <2>3 DEF ServiceInv, Shutdown
<1> QED
  BY <1>1, <1>2, <1>3 DEF ServiceInv

-----------------------------------------------------------------------------
(* What is known of a run, and what a step has to show of it.              *)

Typed(u, k, t, j, c, w, s) ==
  /\ u \in Record /\ k \in BOOLEAN /\ t \in TaskPc /\ j \in Thread
  /\ c \in [Callers -> CancelPc] /\ w \in Seq(Write) /\ s \in ScorerPc

\* g is f but for r, which has x.
Put(f, g, r, x) ==
  \/ g = f /\ f[r] = x
  \/ g = [f EXCEPT ![r] = x]

\* The step gives run r these and leaves the other runs alone.
Becomes(r, u, k, t, j, c, w, s) ==
  /\ Put(run, run', r, u) /\ Put(token, token', r, k) /\ Put(task, task', r, t)
  /\ Put(job, job', r, j) /\ Put(cancels, cancels', r, c) /\ Put(writes, writes', r, w)
  /\ Put(scorer, scorer', r, s)
  /\ server' = server /\ doomed' = doomed
  /\ \/ prune' = prune
     \/ prune.pc = "idle" /\ prune' = [prune EXCEPT !.pc = "scan"]

\* Onward, of the run's new parts.
Goes(r, u, t, c) ==
  /\ run[r].st = "gone" => u.st = "gone"
  /\ run[r].st \in Terminal =>
       u.st \in IF server = "up" THEN Terminal ELSE Terminal \cup {"gone"}
  /\ c["shutdown"] = "none" <=> cancels[r]["shutdown"] = "none"
  /\ cancels[r]["shutdown"] = "done" =>
       /\ c["shutdown"] = "done"
       /\ t \in {"starting", "running"} => task[r] \in {"starting", "running"}

\* It does not become active, nor take the semaphore.
Frees(r, u, t) ==
  /\ u.st \in Active => run[r].st \in Active
  /\ t \in {"starting", "running", "finalizing", "ending"} => Holds(r)

\* The part of the invariant that is about one run.
LEMMA Slice ==
  ASSUME ServiceInv, NEW r \in Runs
  PROVE  /\ Typed(run[r], token[r], task[r], job[r], cancels[r], writes[r], scorer[r])
         /\ Fit(run[r], token[r], task[r], job[r], cancels[r], writes[r], scorer[r])
<1>1. Shape
  BY DEF ServiceInv
<1>2. Fit(run[r], token[r], task[r], job[r], cancels[r], writes[r], scorer[r])
  BY DEF ServiceInv, AllFit
<1>3. Typed(run[r], token[r], task[r], job[r], cancels[r], writes[r], scorer[r])
  BY <1>1 DEF Shape, Typed
<1> QED
  BY <1>2, <1>3

\* The state after a step of one run.
LEMMA After ==
  ASSUME ServiceInv, NEW r \in Runs, NEW u, NEW k, NEW t, NEW j, NEW c, NEW w, NEW s,
         Typed(u, k, t, j, c, w, s), Becomes(r, u, k, t, j, c, w, s)
  PROVE  /\ Shape' /\ Local(r)
         /\ run'[r] = u /\ token'[r] = k /\ task'[r] = t /\ job'[r] = j
         /\ cancels'[r] = c /\ writes'[r] = w /\ scorer'[r] = s
<1>1. Shape
  BY DEF ServiceInv
<1>2. /\ prune' \in [pc : {"idle", "scan", "sweep"}, left : SUBSET Runs, removing : SUBSET Runs]
      /\ prune'.left = prune.left /\ prune'.removing = prune.removing
      /\ prune'.pc = "sweep" => prune.pc = "sweep"
  <2>1. prune \in [pc : {"idle", "scan", "sweep"}, left : SUBSET Runs, removing : SUBSET Runs]
    BY <1>1 DEF Shape
  <2>2. prune' = prune \/ prune' = [prune EXCEPT !.pc = "scan"]
    BY DEF Becomes
  <2> QED
    BY <2>1, <2>2
<1>3. run' \in [Runs -> Record] /\ run'[r] = u /\ \A q \in Runs \ {r} : run'[q] = run[q]
  <2>1. run \in [Runs -> Record] /\ u \in Record /\ Put(run, run', r, u)
    BY <1>1 DEF Shape, Typed, Becomes
  <2> QED
    BY <2>1 DEF Put
<1>4. token' \in [Runs -> BOOLEAN] /\ token'[r] = k /\ \A q \in Runs \ {r} : token'[q] = token[q]
  <2>1. token \in [Runs -> BOOLEAN] /\ k \in BOOLEAN /\ Put(token, token', r, k)
    BY <1>1 DEF Shape, Typed, Becomes
  <2> QED
    BY <2>1 DEF Put
<1>5. task' \in [Runs -> TaskPc] /\ task'[r] = t /\ \A q \in Runs \ {r} : task'[q] = task[q]
  <2>1. task \in [Runs -> TaskPc] /\ t \in TaskPc /\ Put(task, task', r, t)
    BY <1>1 DEF Shape, Typed, Becomes
  <2> QED
    BY <2>1 DEF Put
<1>6. job' \in [Runs -> Thread] /\ job'[r] = j /\ \A q \in Runs \ {r} : job'[q] = job[q]
  <2>1. job \in [Runs -> Thread] /\ j \in Thread /\ Put(job, job', r, j)
    BY <1>1 DEF Shape, Typed, Becomes
  <2> QED
    BY <2>1 DEF Put
<1>7. cancels' \in [Runs -> [Callers -> CancelPc]] /\ cancels'[r] = c /\ \A q \in Runs \ {r} : cancels'[q] = cancels[q]
  <2>1. cancels \in [Runs -> [Callers -> CancelPc]] /\ c \in [Callers -> CancelPc] /\ Put(cancels, cancels', r, c)
    BY <1>1 DEF Shape, Typed, Becomes
  <2> QED
    BY <2>1 DEF Put
<1>8. writes' \in [Runs -> Seq(Write)] /\ writes'[r] = w /\ \A q \in Runs \ {r} : writes'[q] = writes[q]
  <2>1. writes \in [Runs -> Seq(Write)] /\ w \in Seq(Write) /\ Put(writes, writes', r, w)
    BY <1>1 DEF Shape, Typed, Becomes
  <2> QED
    BY <2>1 DEF Put
<1>9. scorer' \in [Runs -> ScorerPc] /\ scorer'[r] = s /\ \A q \in Runs \ {r} : scorer'[q] = scorer[q]
  <2>1. scorer \in [Runs -> ScorerPc] /\ s \in ScorerPc /\ Put(scorer, scorer', r, s)
    BY <1>1 DEF Shape, Typed, Becomes
  <2> QED
    BY <2>1 DEF Put
<1>10. Shape'
  BY <1>1, <1>2, <1>3, <1>4, <1>5, <1>6, <1>7, <1>8, <1>9 DEF Shape, Becomes
<1>11. Local(r)
  BY <1>2, <1>3, <1>4, <1>5, <1>6, <1>7, <1>8, <1>9 DEF Becomes, Local
<1> QED
  BY <1>3, <1>4, <1>5, <1>6, <1>7, <1>8, <1>9, <1>10, <1>11

\* The same, from the parts the step gives the run.
LEMMA RunSteps ==
  ASSUME ServiceInv, NEW r \in Runs, NEW u, NEW k, NEW t, NEW j, NEW c, NEW w, NEW s,
         Typed(u, k, t, j, c, w, s), Becomes(r, u, k, t, j, c, w, s),
         Fit(u, k, t, j, c, w, s), Goes(r, u, t, c), Frees(r, u, t) \/ Limits'
  PROVE  ServiceInv'
<1>1. /\ Shape' /\ Local(r)
      /\ run'[r] = u /\ token'[r] = k /\ task'[r] = t /\ job'[r] = j
      /\ cancels'[r] = c /\ writes'[r] = w /\ scorer'[r] = s
  BY After
<1>2. Onward(r)
  BY <1>1 DEF Goes, Onward
<1>3. Limits'
  <2>1. CASE Frees(r, u, t)
    <3>1. \A q \in Runs \ {r} : run'[q] = run[q] /\ task'[q] = task[q]
      BY <1>1 DEF Local
    <3>2. run'[r].st \in Active => run[r].st \in Active
      BY <1>1, <2>1 DEF Frees
    <3>3. Holds(r)' => Holds(r)
      BY <1>1, <2>1 DEF Frees, Holds
    <3>4. Limits
      BY DEF ServiceInv
    <3> QED
      BY <3>1, <3>2, <3>3, <3>4, LimitsKept
  <2> QED
    BY <2>1
<1> QED
  BY <1>1, <1>2, <1>3, LocalKeeps

\* A run that stays as it is goes on and frees what it has.
LEMMA Idles ==
  ASSUME ServiceInv, NEW r \in Runs
  PROVE  Goes(r, run[r], task[r], cancels[r]) /\ Frees(r, run[r], task[r])
  BY DEF Goes, Frees, Holds, Terminal

-----------------------------------------------------------------------------
(* The scorer.                                                             *)

\* The scorer moves on, after the submission has been answered.
LEMMA ScorerMoves ==
  ASSUME ServiceInv, NEW r \in Runs, NEW s \in ScorerPc,
         Becomes(r, run[r], token[r], task[r], job[r], cancels[r], writes[r], s),
         scorer[r] \notin {"submitting", "incomplete"}, s \notin {"idle", "submitting"},
         s \in {"artifacts", "reading", "scored"} => job[r].pc = "ended" /\ job[r].res = "ok"
  PROVE  ServiceInv'
<1>1. Typed(run[r], token[r], task[r], job[r], cancels[r], writes[r], s)
  BY Slice DEF Typed
<1>2. Fit(run[r], token[r], task[r], job[r], cancels[r], writes[r], s)
  BY Slice DEF Fit, Truthful, Cancelled, Callers
<1> QED
  BY <1>1, <1>2, Idles, RunSteps

\* The scorer that got a 429 is done.
LEMMA RejectedKeeps == ASSUME ServiceInv, NEW r \in Runs, Rejected(r) PROVE ServiceInv'
<1>1. Becomes(r, run[r], token[r], task[r], job[r], cancels[r], writes[r], "incomplete")
  BY DEF Rejected, Scorer, Put, Becomes, execVars
<1> QED
  BY <1>1, ScorerMoves DEF Rejected, ScorerPc

\* Only a succeeded run leads to its artifacts.
LEMMA PollKeeps == ASSUME ServiceInv, NEW r \in Runs, Poll(r) PROVE ServiceInv'
<1>1. PICK s \in {"artifacts", "incomplete"} :
        Scorer(r, s) /\ (s = "artifacts" => run[r].st = "succeeded")
  BY DEF Poll
<1>2. Becomes(r, run[r], token[r], task[r], job[r], cancels[r], writes[r], s)
  BY <1>1 DEF Poll, Scorer, Put, Becomes, execVars
<1>3. s = "artifacts" => job[r].pc = "ended" /\ job[r].res = "ok"
  BY <1>1, Slice DEF Fit, Truthful
<1> QED
  BY <1>1, <1>2, <1>3, ScorerMoves DEF Poll, ScorerPc

\* The score of a succeeded run.
LEMMA ScoresKeeps == ASSUME ServiceInv, NEW r \in Runs, Scores(r) PROVE ServiceInv'
<1>1. PICK s \in {"scored", "incomplete"} : Scorer(r, s)
  BY DEF Scores
<1>2. Becomes(r, run[r], token[r], task[r], job[r], cancels[r], writes[r], s)
  BY <1>1 DEF Scores, Scorer, Put, Becomes, execVars
<1>3. job[r].pc = "ended" /\ job[r].res = "ok"
  BY Slice DEF Scores, Fit, Truthful
<1> QED
  BY <1>1, <1>2, <1>3, ScorerMoves DEF Scores, ScorerPc

\* Reading an artifact changes the count of readers, which no fact is about.
LEMMA ReadKeeps ==
  ASSUME ServiceInv, NEW r \in Runs, ReadsArtifact(r) \/ ArtifactRead(r)
  PROVE  ServiceInv'
<1>0. run[r].readers \in Nat /\ run[r] \in Record
  BY Slice DEF Typed, Record
<1>1. PICK n \in Nat, s \in {"artifacts", "reading"} :
        run' = [run EXCEPT ![r].readers = n] /\ Scorer(r, s)
  <2>1. CASE ReadsArtifact(r)
    <3>1. run[r].readers + 1 \in Nat
      BY <1>0
    <3> QED
      BY <2>1, <3>1 DEF ReadsArtifact
  <2>2. CASE ArtifactRead(r)
    <3>1. (IF run[r].readers <= 1 THEN 0 ELSE run[r].readers - 1) \in Nat
      BY <1>0
    <3> QED
      BY <2>2, <3>1 DEF ArtifactRead
  <2> QED
    BY <2>1, <2>2
<1> DEFINE u == [run[r] EXCEPT !.readers = n]
<1>2. Becomes(r, u, token[r], task[r], job[r], cancels[r], writes[r], s)
  BY <1>1 DEF ReadsArtifact, ArtifactRead, Scorer, Put, Becomes, execVars
<1>3. u \in Record /\ u.st = run[r].st /\ u.disk = run[r].disk /\ u.lost = run[r].lost
  BY <1>0 DEF Record
<1> HIDE DEF u
<1>4. scorer[r] \in {"artifacts", "reading"}
  BY DEF ReadsArtifact, ArtifactRead
<1>5. Typed(u, token[r], task[r], job[r], cancels[r], writes[r], s)
  BY <1>3, Slice DEF Typed, ScorerPc
<1>6. Fit(u, token[r], task[r], job[r], cancels[r], writes[r], s)
  <2>1. Fit(run[r], token[r], task[r], job[r], cancels[r], writes[r], scorer[r])
    BY Slice
  <2>2. Queue(u, task[r], cancels[r], writes[r])
    BY <1>3, <2>1 DEF Fit, Queue
  <2>3. Truthful(u, token[r], task[r], job[r], writes[r], s)
    BY <1>3, <1>4, <2>1 DEF Fit, Truthful
  <2>4. Cancelled(u, token[r], task[r], job[r], cancels[r], s)
    BY <1>3, <1>4, <2>1 DEF Fit, Cancelled, Callers
  <2> QED
    BY <2>1, <2>2, <2>3, <2>4 DEF Fit
<1>7. Goes(r, u, task[r], cancels[r]) /\ Frees(r, u, task[r])
  BY <1>3, Idles DEF Goes, Frees
<1> QED
  BY <1>2, <1>5, <1>6, <1>7, RunSteps

\* A scorer that gives up, or finds its run gone, sends a cancel().
LEMMA GivesUpKeeps ==
  ASSUME ServiceInv, NEW r \in Runs, GivesUp(r) \/ PollFails(r)
  PROVE  ServiceInv'
<1> DEFINE c == [cancels[r] EXCEPT !["scorer"] = "begin"]
<1>1. Becomes(r, run[r], token[r], task[r], job[r], c, writes[r], "incomplete")
  BY DEF GivesUp, PollFails, Scorer, Cancels, Trouble, Put, Becomes, execVars
<1>2. scorer[r] = "polling"
  BY DEF GivesUp, PollFails
<1>3. /\ c \in [Callers -> CancelPc] /\ c["scorer"] = "begin"
      /\ \A x \in Callers : x # "scorer" => c[x] = cancels[r][x]
  BY Slice DEF Typed, CancelPc, Callers
<1> HIDE DEF c
<1>4. Typed(run[r], token[r], task[r], job[r], c, writes[r], "incomplete")
  BY <1>3, Slice DEF Typed, ScorerPc
<1>5. cancels[r]["scorer"] = "none"
  BY <1>2, Slice DEF Fit, Cancelled
<1>6. Queue(run[r], task[r], c, writes[r])
  <2>1. writes[r] \in Seq(Write)
    BY Slice DEF Typed
  <2> QED
    BY <1>3, <1>5, <2>1, Slice, QueueStays DEF Fit
<1>7. Fit(run[r], token[r], task[r], job[r], c, writes[r], "incomplete")
  BY <1>2, <1>3, <1>5, <1>6, Slice DEF Fit, Truthful, Cancelled, Callers
<1>8. Goes(r, run[r], task[r], c) /\ Frees(r, run[r], task[r])
  BY <1>3, Idles DEF Goes, Callers
<1> QED
  BY <1>1, <1>4, <1>7, <1>8, RunSteps

-----------------------------------------------------------------------------
(* Submission.                                                             *)

\* The capacity check and the reservation are one step.
LEMMA SubmitKeeps == ASSUME ServiceInv, NEW r \in Runs, Submit(r) PROVE ServiceInv'
<1> DEFINE u == [run[r] EXCEPT !.st = "queued"]
<1>1. Becomes(r, u, token[r], task[r], job[r], cancels[r], writes[r], "submitting")
  BY DEF Submit, Scorer, Put, Becomes, execVars
<1>2. scorer[r] = "idle" /\ Count(Active) < MaxConcurrentRuns
  BY DEF Submit
<1>3. run[r] \in Record
  BY Slice DEF Typed
<1>4. u \in Record /\ u.st = "queued" /\ u.disk = run[r].disk /\ u.lost = run[r].lost
  BY <1>3 DEF Record, Status
<1> HIDE DEF u
<1>5. /\ run[r].st = "none" /\ task[r] = "none" /\ cancels[r]["scorer"] = "none"
      /\ job[r].pc = "none"
  BY <1>2, Slice DEF Fit, Cancelled, Watched
<1>6. Typed(u, token[r], task[r], job[r], cancels[r], writes[r], "submitting")
  BY <1>4, Slice DEF Typed, ScorerPc
<1>7. writes[r] = <<>>
  <2> SUFFICES ASSUME writes[r] # <<>> PROVE FALSE
    OBVIOUS
  <2>1. writes[r] \in Seq(Write) /\ 1 \in 1..Len(writes[r])
    BY Slice, EmptySeq DEF Typed
  <2>2. writes[r][1].by \in {"execute"} \cup Callers
    BY <2>1, WritersNamed
  <2> QED
    BY <1>2, <1>5, <2>1, <2>2, Slice DEF Fit, Queue, Writer, Cancelled
<1>8. Fit(u, token[r], task[r], job[r], cancels[r], writes[r], "submitting")
  BY <1>2, <1>4, <1>5, <1>7, Slice DEF Fit, Queue, Watched, Truthful, Cancelled, Callers
<1>9. Goes(r, u, task[r], cancels[r])
  BY <1>4, <1>5, Idles DEF Goes, Terminal
<1>10. Limits'
  <2>1. /\ Shape' /\ Local(r) /\ run'[r] = u /\ task'[r] = task[r]
    BY <1>1, <1>6, After
  <2>2. With(Active)' = With(Active) \cup {r} /\ r \notin With(Active)
    BY <1>4, <1>5, <2>1 DEF With, Local, Active
  <2>3. Holding' = Holding
    BY <2>1 DEF Holding, Holds, Local
  <2>4. IsFiniteSet(With(Active)) /\ Cardinality(With(Active)) \in Nat
    <3>1. With(Active) \in SUBSET Runs
      BY DEF With
    <3> QED
      BY <3>1, SetsCounted
  <2>5. Cardinality(With(Active)') = Cardinality(With(Active)) + 1
    BY <2>2, <2>4, FS_AddElement
  <2>6. Cardinality(With(Active)) < MaxConcurrentRuns /\ MaxConcurrentRuns \in Nat
    BY <1>2, SweBenchAssumption DEF Count, With
  <2> QED
    BY <2>3, <2>4, <2>5, <2>6 DEF ServiceInv, Limits
<1> QED
  BY <1>1, <1>6, <1>8, <1>9, <1>10, RunSteps

\* The run is on disk; its task waits for the semaphore.
LEMMA PersistedKeeps == ASSUME ServiceInv, NEW r \in Runs, Persisted(r) PROVE ServiceInv'
<1> DEFINE u == [run[r] EXCEPT !.disk = "queued"]
<1>1. Becomes(r, u, token[r], "semaphore", job[r], cancels[r], writes[r], "polling")
  BY DEF Persisted, Scorer, Put, Becomes
<1>2. scorer[r] = "submitting"
  BY DEF Persisted
<1>3. run[r] \in Record
  BY Slice DEF Typed
<1>4. u \in Record /\ u.st = run[r].st
  BY <1>3 DEF Record, Status
<1> HIDE DEF u
<1>5. /\ task[r] = "none" /\ cancels[r]["scorer"] = "none" /\ job[r].pc = "none"
      /\ job[r].proc # "alive"
  BY <1>2, Slice DEF Fit, Cancelled, Watched
<1>6. Typed(u, token[r], "semaphore", job[r], cancels[r], writes[r], "polling")
  BY <1>4, Slice DEF Typed, ScorerPc, TaskPc
<1>7. writes[r] \in Seq(Write)
  BY Slice DEF Typed
<1>8. Queue(u, "semaphore", cancels[r], writes[r])
  BY <1>4, <1>5, <1>7, Slice, QueueStays DEF Fit
<1>9. Fit(u, token[r], "semaphore", job[r], cancels[r], writes[r], "polling")
  BY <1>2, <1>4, <1>5, <1>8, Slice DEF Fit, Watched, Truthful, Cancelled, Callers
<1>10. Goes(r, u, "semaphore", cancels[r]) /\ Frees(r, u, "semaphore")
  BY <1>4, Idles DEF Goes, Frees
<1> QED
  BY <1>1, <1>6, <1>9, <1>10, RunSteps

\* A discarded run is unknown; before the shutdown it was queued.
LEMMA PersistFailsKeeps == ASSUME ServiceInv, NEW r \in Runs, PersistFails(r) PROVE ServiceInv'
<1> DEFINE u == [run[r] EXCEPT !.st = "gone", !.readers = 0]
<1>1. Becomes(r, u, token[r], task[r], job[r], cancels[r], writes[r], "incomplete")
  BY DEF PersistFails, Discarded, Scorer, Put, Becomes, execVars
<1>2. scorer[r] = "submitting"
  BY DEF PersistFails
<1>3. run[r] \in Record
  BY Slice DEF Typed
<1>4. u \in Record /\ u.st = "gone"
  BY <1>3 DEF Record, Status
<1> HIDE DEF u
<1>5. Typed(u, token[r], task[r], job[r], cancels[r], writes[r], "incomplete")
  BY <1>4, Slice DEF Typed, ScorerPc
<1>6. writes[r] \in Seq(Write)
  BY Slice DEF Typed
<1>7. Queue(u, task[r], cancels[r], writes[r])
  BY <1>4, <1>6, Slice, QueueStays DEF Fit
<1>8. Fit(u, token[r], task[r], job[r], cancels[r], writes[r], "incomplete")
  BY <1>2, <1>4, <1>7, Slice DEF Fit, Truthful, Cancelled
<1>9. server = "up" => run[r].st \notin Terminal
  <2> SUFFICES ASSUME server = "up" PROVE run[r].st \notin Terminal
    OBVIOUS
  <2>1. cancels[r]["shutdown"] = "none" /\ cancels[r]["scorer"] = "none" /\ task[r] = "none"
    BY <1>2, Slice DEF ServiceInv, Shutdown, Fit, Cancelled
  <2>2. ~token[r]
    BY <2>1, Slice DEF Fit, Cancelled, Callers
  <2> QED
    BY <2>1, <2>2, Slice DEF Fit, Truthful, Terminal
<1>10. Goes(r, u, task[r], cancels[r]) /\ Frees(r, u, task[r])
  BY <1>4, <1>9, Idles DEF Goes, Frees, Active
<1> QED
  BY <1>1, <1>5, <1>8, <1>10, RunSteps

-----------------------------------------------------------------------------
(* Status changes and their writes.                                        *)

\* A task that takes the semaphore when it is free.
LEMMA SemaphoreTaken ==
  ASSUME Limits, NEW r \in Runs, SemaphoreFree,
         \A q \in Runs \ {r} : run'[q] = run[q] /\ task'[q] = task[q],
         run'[r].st \in Active => run[r].st \in Active
  PROVE  Limits'
<1>1. With(Active)' \subseteq With(Active) /\ Holding' \subseteq Holding \cup {r}
  BY DEF With, Holding, Holds
<1>2. With(Active) \in SUBSET Runs /\ Holding \in SUBSET Runs /\ Holding \cup {r} \in SUBSET Runs
  BY DEF With, Holding
<1>3. /\ Cardinality(With(Active)') <= Cardinality(With(Active))
      /\ Cardinality(With(Active)) \in Nat /\ Cardinality(With(Active)') \in Nat
      /\ Cardinality(Holding') <= Cardinality(Holding \cup {r})
      /\ Cardinality(Holding) \in Nat /\ Cardinality(Holding') \in Nat
      /\ Cardinality(Holding \cup {r}) \in Nat /\ IsFiniteSet(Holding)
  BY <1>1, <1>2, SetsCounted
<1>4. Cardinality(Holding \cup {r}) <= Cardinality(Holding) + 1
  <2>1. CASE r \in Holding
    <3>1. Holding \cup {r} = Holding
      BY <2>1
    <3> QED
      BY <1>3, <3>1
  <2>2. CASE r \notin Holding
    <3>1. Cardinality(Holding \cup {r}) = Cardinality(Holding) + 1
      BY <1>3, <2>2, FS_AddElement
    <3> QED
      BY <1>3, <3>1
  <2> QED
    BY <2>1, <2>2
<1>5. Cardinality(Holding) < MaxConcurrentRuns /\ MaxConcurrentRuns \in Nat
  BY SweBenchAssumption DEF SemaphoreFree, Holding
<1> QED
  BY <1>3, <1>4, <1>5 DEF Limits

\* What _execute may say of its run, and where it goes then.
Says(r, st, pc) ==
  \/ st = "running" /\ pc = "starting" /\ task[r] = "semaphore" /\ ~token[r]
  \/ /\ st \in Terminal /\ pc = "ending" /\ job[r].pc \in {"none", "ended"}
     /\ st = "cancelled" => token[r]
     /\ st = "failed" => job[r].pc = "ended" /\ job[r].res \in {"ok", "error"}
     /\ st = "succeeded" => job[r].pc = "ended" /\ job[r].res = "ok"

\* A transition of _execute queues a write unless the run was discarded.
LEMMA LeaveKeeps ==
  ASSUME ServiceInv, NEW r \in Runs, NEW st, NEW pc, Leave(r, st, pc), Says(r, st, pc),
         token' = token, job' = job, cancels' = cancels, server' = server, doomed' = doomed,
         scorer' = scorer, task[r] \in {"semaphore", "running", "finalizing"},
         Holds(r) \/ SemaphoreFree
  PROVE  ServiceInv'
<1>1. /\ job[r].pc = "none" \/ job[r].pc = "ended"
      /\ job[r].proc # "alive"
  BY Slice DEF Says, Fit, Watched
<1>2. CASE ~Known(r)
  <2>1. Becomes(r, run[r], token[r], "done", job[r], cancels[r], writes[r], scorer[r])
    BY <1>2 DEF Leave, Finished, Put, Becomes
  <2>2. Typed(run[r], token[r], "done", job[r], cancels[r], writes[r], scorer[r])
    BY Slice DEF Typed, TaskPc
  <2>3. Queue(run[r], "done", cancels[r], writes[r])
    <3>1. writes[r] \in Seq(Write)
      BY Slice DEF Typed
    <3> QED
      BY <3>1, Slice, QueueStays DEF Fit
  <2>4. Fit(run[r], token[r], "done", job[r], cancels[r], writes[r], scorer[r])
    BY <1>1, <1>2, <2>3, Slice DEF Known, Fit, Watched, Truthful, Cancelled
  <2>5. Goes(r, run[r], "done", cancels[r]) /\ Frees(r, run[r], "done")
    BY Idles DEF Goes, Frees
  <2> QED
    BY <2>1, <2>2, <2>4, <2>5, RunSteps
<1>3. CASE Known(r)
  <2> DEFINE u == [run[r] EXCEPT !.st = st]
  <2> DEFINE e == [st |-> st, by |-> "execute"]
  <2> DEFINE w == Append(writes[r], e)
  <2>1. Becomes(r, u, token[r], pc, job[r], cancels[r], w, scorer[r])
    BY <1>3 DEF Leave, Transition, Put, Becomes
  <2>2. st \in Status /\ pc \in TaskPc /\ st \notin {"none", "gone"}
    BY DEF Says, Status, Terminal, TaskPc
  <2>3. run[r] \in Record /\ writes[r] \in Seq(Write)
    BY Slice DEF Typed
  <2>4. u \in Record /\ u.st = st /\ u.lost = run[r].lost /\ u.disk = run[r].disk
    BY <2>2, <2>3 DEF Record
  <2>5. e \in Write /\ e.by = "execute" /\ e.st = st
    BY <2>2 DEF Write
  <2> HIDE DEF u, e
  <2>6. ~Queued(writes[r], "execute") /\ Waits(writes[r], "execute", pc, cancels[r])
    BY Slice DEF Fit, Queue, Queued, Waits, Writer
  <2>7. Queue(u, pc, cancels[r], w) /\ w \in Seq(Write) /\ w # <<>>
    <3>1. pc \in {"starting", "ending"}
      BY DEF Says
    <3>2. Queue(run[r], task[r], cancels[r], writes[r])
      BY Slice DEF Fit
    <3>3. Writer(pc, cancels[r], "execute")
      BY <3>1 DEF Writer
    <3>4. u.st = e.st
      BY <2>4, <2>5
    <3> QED
      BY <2>3, <2>5, <2>6, <3>2, <3>3, <3>4, QueueGrows
  <2> HIDE DEF w
  <2>8. Typed(u, token[r], pc, job[r], cancels[r], w, scorer[r])
    BY <2>2, <2>4, <2>7, Slice DEF Typed
  <2>9. Watched(pc, job[r])
    BY <1>1, Slice DEF Says, Fit, Watched
  <2>10. Truthful(u, token[r], pc, job[r], w, scorer[r])
    BY <2>4, <2>7, Slice DEF Says, Fit, Truthful, Terminal
  <2>11. Cancelled(u, token[r], pc, job[r], cancels[r], scorer[r])
    BY Slice DEF Fit, Cancelled
  <2>12. Fit(u, token[r], pc, job[r], cancels[r], w, scorer[r])
    BY <2>7, <2>9, <2>10, <2>11 DEF Fit
  <2>13. run[r].st \in Terminal => st \in Terminal
    BY Slice DEF Says, Fit, Truthful, Terminal
  <2>14. cancels[r]["shutdown"] = "done" =>
           (pc \in {"starting", "running"} => task[r] \in {"starting", "running"})
    BY Slice DEF Says, Fit, Cancelled, Watched, Callers
  <2>15. Goes(r, u, pc, cancels[r])
    BY <1>3, <2>4, <2>13, <2>14 DEF Known, Goes
  <2>16. st \in Active => run[r].st \in Active
    <3>1. run[r].st \in Status
      BY <2>3 DEF Record
    <3> QED
      BY <1>3, <3>1, Slice DEF Says, Known, Fit, Truthful, Status, Active, Terminal
  <2>17. Frees(r, u, pc) \/ Limits'
    <3>1. CASE Holds(r)
      BY <2>4, <2>16, <3>1 DEF Frees
    <3>2. CASE SemaphoreFree
      <4>1. Local(r) /\ run'[r] = u
        BY <2>1, <2>8, After
      <4>2. \A q \in Runs \ {r} : run'[q] = run[q] /\ task'[q] = task[q]
        BY <4>1 DEF Local
      <4>3. Limits /\ (run'[r].st \in Active => run[r].st \in Active)
        BY <2>4, <2>16, <4>1 DEF ServiceInv
      <4> QED
        BY <3>2, <4>2, <4>3, SemaphoreTaken
    <3> QED
      BY <3>1, <3>2
  <2> QED
    BY <2>1, <2>8, <2>12, <2>15, <2>17, RunSteps
<1> QED
  BY <1>2, <1>3

\* The three places where _execute changes a status.
LEMMA ExecuteKeeps ==
  ASSUME ServiceInv, NEW r \in Runs, ExecuteStep(r)
  PROVE  ServiceInv'
<1>1. CASE ExecuteStarts(r)
  <2>1. PICK st, pc : Leave(r, st, pc) /\ (IF token[r] THEN st = "cancelled" /\ pc = "ending"
                                           ELSE st = "running" /\ pc = "starting")
    BY <1>1 DEF ExecuteStarts
  <2>2. Says(r, st, pc)
    BY <1>1, <2>1, Slice DEF ExecuteStarts, Says, Terminal, Fit, Watched
  <2> QED
    BY <1>1, <2>1, <2>2, LeaveKeeps DEF ExecuteStarts
<1>2. CASE RunnerReturned(r)
  <2>1. task[r] = "running" /\ job[r].pc = "ended" /\ Holds(r)
    BY <1>2 DEF RunnerReturned, Holds
  <2>2. CASE \E st \in Terminal : Leave(r, st, "ending") /\ Says(r, st, "ending")
    BY <1>2, <2>1, <2>2, LeaveKeeps DEF RunnerReturned
  <2>3. CASE /\ job[r].res = "ok" /\ task' = [task EXCEPT ![r] = "finalizing"]
             /\ UNCHANGED <<run, writes, prune>>
    <3>1. Becomes(r, run[r], token[r], "finalizing", job[r], cancels[r], writes[r], scorer[r])
      BY <1>2, <2>3 DEF RunnerReturned, Put, Becomes
    <3>2. Typed(run[r], token[r], "finalizing", job[r], cancels[r], writes[r], scorer[r])
      BY Slice DEF Typed, TaskPc
    <3>3. Queue(run[r], "finalizing", cancels[r], writes[r])
      <4>1. writes[r] \in Seq(Write)
        BY Slice DEF Typed
      <4> QED
        BY <2>1, <4>1, Slice, QueueStays DEF Fit
    <3>4. Fit(run[r], token[r], "finalizing", job[r], cancels[r], writes[r], scorer[r])
      BY <2>1, <2>3, <3>3, Slice DEF Fit, Watched, Truthful, Cancelled
    <3>5. Goes(r, run[r], "finalizing", cancels[r]) /\ Frees(r, run[r], "finalizing")
      BY <2>1, Idles DEF Goes, Frees
    <3> QED
      BY <3>1, <3>2, <3>4, <3>5, RunSteps
  <2>4. token[r] \/ job[r].res # "cancelled"
    BY Slice DEF Fit, Truthful
  <2>5. \A st \in Terminal : (st = "cancelled" /\ token[r]) \/ (st = "failed" /\ job[r].res = "error")
          => Says(r, st, "ending")
    BY <2>1 DEF Says
  <2> QED
    BY <1>2, <2>2, <2>3, <2>4, <2>5 DEF RunnerReturned, Terminal
<1>3. CASE Finalized(r)
  <2>1. task[r] = "finalizing" /\ job[r].pc = "ended" /\ job[r].res = "ok" /\ Holds(r)
    BY <1>3, Slice DEF Finalized, Holds, Fit, Watched
  <2>2. PICK st \in {"succeeded", "failed"} : Leave(r, st, "ending")
    BY <1>3 DEF Finalized
  <2>3. Says(r, st, "ending")
    BY <2>1 DEF Says, Terminal
  <2> QED
    BY <1>3, <2>1, <2>2, <2>3, LeaveKeeps DEF Finalized
<1> QED
  BY <1>1, <1>2, <1>3 DEF ExecuteStep

\* A write ends: its caller goes on, and the disk has the last status when no
\* other write is queued.
LEMMA WriteKeeps == ASSUME ServiceInv, NEW r \in Runs, WriteStatus(r) PROVE ServiceInv'
<1> DEFINE h == Head(writes[r])
<1>1. writes[r] # <<>> /\ writes[r] \in Seq(Write) /\ run[r] \in Record
  BY Slice DEF WriteStatus, Typed
<1>2. /\ h \in Write /\ h = writes[r][1] /\ 1 \in 1..Len(writes[r])
      /\ h.by \in {"execute"} \cup Callers
  <2>1. 1 \in 1..Len(writes[r]) /\ h = writes[r][1]
    BY <1>1, EmptySeq
  <2> QED
    BY <1>1, <2>1, ElementOfSeq, WritersNamed
<1>3. PICK u \in Record :
        /\ run' = [run EXCEPT ![r] = u] /\ u.st = run[r].st
        /\ \/ u.disk = h.st /\ u.lost = run[r].lost
           \/ u.lost = TRUE
  <2> DEFINE a == [run[r] EXCEPT !.disk = h.st]
  <2> DEFINE b == [run[r] EXCEPT !.lost = TRUE]
  <2>1. run' = [run EXCEPT ![r] = a] \/ run' = [run EXCEPT ![r] = b]
    BY DEF WriteStatus
  <2>2. /\ a \in Record /\ a.st = run[r].st /\ a.disk = h.st /\ a.lost = run[r].lost
        /\ b \in Record /\ b.st = run[r].st /\ b.lost = TRUE
    <3>1. h.st \in Status
      BY <1>2 DEF Write
    <3> QED
      BY <1>1, <3>1 DEF Record
  <2> QED
    BY <2>1, <2>2
<1>4. Queue(run[r], task[r], cancels[r], writes[r])
  BY Slice DEF Fit
<1>5. /\ writes' = [writes EXCEPT ![r] = Tail(writes[r])] /\ Resumed(r, h.by)
      /\ UNCHANGED <<token, server, doomed, scorer>>
  BY DEF WriteStatus
<1> HIDE DEF h
<1> DEFINE w == Tail(writes[r])
\* What the three kinds of callers have in common.
<1>6. ASSUME NEW t \in TaskPc, NEW j \in Thread, NEW c \in [Callers -> CancelPc],
             Put(task, task', r, t), Put(job, job', r, j), Put(cancels, cancels', r, c),
             Watched(t, j), Cancelled(run[r], token[r], t, j, c, scorer[r]),
             j.res = job[r].res, task[r] \in {"ending", "done"} => t \in {"ending", "done"},
             job[r].pc = "ended" => j.pc = "ended",
             (task[r] = "semaphore") <=> (t = "semaphore"),
             Goes(r, run[r], t, c), Frees(r, run[r], t),
             \/ prune' = prune
             \/ prune.pc = "idle" /\ prune' = [prune EXCEPT !.pc = "scan"],
             Waits(writes[r], h.by, t, c)
      PROVE  ServiceInv'
  <2>1. /\ Queue(u, t, c, w) /\ w \in Seq(Write)
        /\ w = <<>> /\ run[r].st \notin {"none", "gone"} => h.st = run[r].st
    <3>1. Waits(writes[r], Head(writes[r]).by, t, c)
      BY <1>6 DEF h
    <3>2. u.st = run[r].st
      BY <1>3
    <3>3. /\ Queue(u, t, c, Tail(writes[r])) /\ Tail(writes[r]) \in Seq(Write)
          /\ Tail(writes[r]) = <<>> /\ run[r].st \notin {"none", "gone"} => Head(writes[r]).st = run[r].st
      BY <1>1, <1>4, <3>1, <3>2, QueueShrinks
    <3> QED
      BY <3>3 DEF h
  <2> HIDE DEF w
  <2>2. Becomes(r, u, token[r], t, j, c, w, scorer[r])
    BY <1>3, <1>5, <1>6 DEF w, Put, Becomes
  <2>3. Typed(u, token[r], t, j, c, w, scorer[r])
    BY <1>3, <1>6, <2>1, Slice DEF Typed
  <2>4. Truthful(u, token[r], t, j, w, scorer[r])
    BY <1>3, <1>6, <2>1, Slice DEF Fit, Truthful
  <2>5. Cancelled(u, token[r], t, j, c, scorer[r])
    BY <1>3, <1>6 DEF Cancelled
  <2>6. Fit(u, token[r], t, j, c, w, scorer[r])
    BY <1>6, <2>1, <2>4, <2>5 DEF Fit
  <2>7. Goes(r, u, t, c) /\ Frees(r, u, t)
    BY <1>3, <1>6 DEF Goes, Frees
  <2> QED
    BY <2>2, <2>3, <2>6, <2>7, RunSteps
<1>7. CASE h.by = "execute"
  <2>1. task[r] \in {"starting", "ending"}
    BY <1>2, <1>4, <1>7 DEF Queue, Writer
  <2>2. \A t : Waits(writes[r], h.by, t, cancels[r])
    BY <1>4, <1>7 DEF Queue, Writer, Waits
  <2>3. CASE task[r] = "starting"
    <3> DEFINE j == [job[r] EXCEPT !.pc = "check"]
    <3>1. /\ task' = [task EXCEPT ![r] = "running"] /\ job' = [job EXCEPT ![r] = j]
          /\ UNCHANGED <<cancels, prune>>
      BY <1>5, <1>7, <2>3 DEF Resumed, Callers
    <3>2. j \in Thread /\ j.pc = "check" /\ j.proc = job[r].proc /\ j.res = job[r].res
      BY Slice DEF Typed, Thread
    <3> HIDE DEF j
    <3>3. job[r].pc = "none" /\ job[r].proc # "alive"
      BY <2>3, Slice DEF Fit, Watched
    <3>4. Put(task, task', r, "running") /\ Put(job, job', r, j) /\ Put(cancels, cancels', r, cancels[r])
      BY <3>1 DEF Put
    <3>5. Watched("running", j)
      BY <3>2, <3>3 DEF Watched
    <3>6. Cancelled(run[r], token[r], "running", j, cancels[r], scorer[r])
      BY <2>3, <3>3, Slice DEF Fit, Cancelled
    <3>7. Goes(r, run[r], "running", cancels[r]) /\ Frees(r, run[r], "running")
      BY <2>3, Idles DEF Goes, Frees, Holds
    <3>8. "running" \in TaskPc /\ cancels[r] \in [Callers -> CancelPc]
      BY Slice DEF TaskPc, Typed
    <3> QED
      BY <1>6, <2>2, <2>3, <3>1, <3>2, <3>3, <3>4, <3>5, <3>6, <3>7, <3>8
  <2>4. CASE task[r] = "ending"
    <3>1. /\ task' = [task EXCEPT ![r] = "done"] /\ UNCHANGED <<job, cancels>>
          /\ \/ prune' = prune
             \/ prune.pc = "idle" /\ prune' = [prune EXCEPT !.pc = "scan"]
      BY <1>5, <1>7, <2>4 DEF Resumed, Finished, Callers
    <3>2. Put(task, task', r, "done") /\ Put(job, job', r, job[r]) /\ Put(cancels, cancels', r, cancels[r])
      BY <3>1 DEF Put
    <3>3. Watched("done", job[r])
      BY <2>4, Slice DEF Fit, Watched
    <3>4. Cancelled(run[r], token[r], "done", job[r], cancels[r], scorer[r])
      BY <2>4, Slice DEF Fit, Cancelled
    <3>5. Goes(r, run[r], "done", cancels[r]) /\ Frees(r, run[r], "done")
      BY <2>4, Idles DEF Goes, Frees, Holds
    <3>6. "done" \in TaskPc /\ cancels[r] \in [Callers -> CancelPc] /\ job[r] \in Thread
      BY Slice DEF TaskPc, Typed
    <3> QED
      BY <1>6, <2>2, <2>4, <3>1, <3>2, <3>3, <3>4, <3>5, <3>6
  <2> QED
    BY <2>1, <2>3, <2>4
<1>8. CASE h.by \in Callers
  <2> DEFINE c == [cancels[r] EXCEPT ![h.by] = "done"]
  <2>1. /\ cancels' = [cancels EXCEPT ![r] = c] /\ UNCHANGED <<task, job, prune>>
    BY <1>5, <1>8 DEF Resumed, Callers
  <2>2. /\ c \in [Callers -> CancelPc] /\ c[h.by] = "done"
        /\ \A x \in Callers : x # h.by => c[x] = cancels[r][x]
    BY <1>8, Slice DEF Typed, CancelPc
  <2> HIDE DEF c
  <2>3. cancels[r][h.by] = "write"
    BY <1>2, <1>4, <1>8 DEF Queue, Writer, Callers
  <2>4. Waits(writes[r], h.by, task[r], c)
    BY <1>1, <1>4, <2>2, WritersNamed DEF Queue, Writer, Waits
  <2>5. Put(task, task', r, task[r]) /\ Put(job, job', r, job[r]) /\ Put(cancels, cancels', r, c)
    BY <2>1 DEF Put
  <2>6. Watched(task[r], job[r])
    BY Slice DEF Fit
  <2>7. Cancelled(run[r], token[r], task[r], job[r], c, scorer[r])
    BY <1>8, <2>2, <2>3, Slice DEF Fit, Cancelled, Callers
  <2>8. Goes(r, run[r], task[r], c) /\ Frees(r, run[r], task[r])
    BY <1>8, <2>2, <2>3, Idles DEF Goes, Callers
  <2>9. task[r] \in TaskPc /\ job[r] \in Thread
    BY Slice DEF Typed
  <2> QED
    BY <1>6, <2>1, <2>2, <2>4, <2>5, <2>6, <2>7, <2>8, <2>9
<1> QED
  BY <1>2, <1>7, <1>8

-----------------------------------------------------------------------------
(* The runner's thread and cancel().                                       *)

\* Where a step may take the thread: nowhere without its task running, except
\* that its process may die; its result is set when it leaves.
Works(r, j) ==
  /\ j \in Thread
  /\ j.proc = "alive" => j.pc \in {"attach", "wait"}
  /\ \/ j.pc = job[r].pc /\ j.res = job[r].res
     \/ /\ job[r].pc \in {"check", "attach", "wait", "clean"} /\ j.pc # "none"
        /\ j.res = "cancelled" => token[r]

\* A step of the runner's thread.
LEMMA ThreadWorks ==
  ASSUME ServiceInv, NEW r \in Runs, NEW j, Works(r, j),
         Becomes(r, run[r], token[r], task[r], j, cancels[r], writes[r], scorer[r])
  PROVE  ServiceInv'
<1>1. Typed(run[r], token[r], task[r], j, cancels[r], writes[r], scorer[r])
  BY Slice DEF Typed, Works
<1>2. Watched(task[r], j)
  <2>1. task[r] \in TaskPc
    BY Slice DEF Typed
  <2> QED
    BY <2>1, Slice DEF Works, TaskPc, Fit, Watched
<1>3. Truthful(run[r], token[r], task[r], j, writes[r], scorer[r])
  BY Slice DEF Works, Fit, Truthful
<1>4. Cancelled(run[r], token[r], task[r], j, cancels[r], scorer[r])
  BY Slice DEF Works, Fit, Cancelled
<1>5. Fit(run[r], token[r], task[r], j, cancels[r], writes[r], scorer[r])
  BY <1>2, <1>3, <1>4, Slice DEF Fit
<1> QED
  BY <1>1, <1>5, Idles, RunSteps

\* Every access of the runner's thread to shared state.
LEMMA JobKeeps ==
  ASSUME ServiceInv, NEW r \in Runs, JobStep(r) \/ SubprocessExits(r)
  PROVE  ServiceInv'
<1>1. ASSUME NEW j, Job(r, j), Works(r, j) PROVE ServiceInv'
  <2>1. Becomes(r, run[r], token[r], task[r], j, cancels[r], writes[r], scorer[r])
    BY <1>1 DEF Job, Put, Becomes
  <2> QED
    BY <1>1, <2>1, ThreadWorks
<1>2. job[r] \in Thread /\ (job[r].res = "cancelled" => token[r])
      /\ (job[r].proc = "alive" => job[r].pc \in {"attach", "wait"})
  BY Slice DEF Typed, Fit, Truthful, Watched
<1>3. ASSUME NEW res \in {"ok", "error", "cancelled"}, job[r].pc \in {"check", "wait"},
             res = "cancelled" => token[r], Job(r, Ends(job[r], res))
      PROVE  ServiceInv'
  <2>1. Works(r, Ends(job[r], res))
    BY <1>2, <1>3 DEF Works, Ends, Thread
  <2> QED
    BY <1>1, <1>3, <2>1
<1>4. CASE JobFails(r)
  BY <1>3, <1>4 DEF JobFails
<1>5. CASE JobSpawns(r)
  <2>1. CASE token[r] /\ Job(r, Ends(job[r], "cancelled"))
    BY <1>3, <1>5, <2>1 DEF JobSpawns
  <2>2. CASE Job(r, [job[r] EXCEPT !.pc = "attach", !.proc = "alive"])
    <3>1. Works(r, [job[r] EXCEPT !.pc = "attach", !.proc = "alive"])
      BY <1>2, <1>5 DEF JobSpawns, Works, Thread
    <3> QED
      BY <1>1, <2>2, <3>1
  <2> QED
    BY <1>5, <2>1, <2>2 DEF JobSpawns
<1>6. CASE JobAttaches(r)
  <2> DEFINE p == IF token[r] THEN Terminated(job[r].proc) ELSE job[r].proc
  <2> DEFINE j == [job[r] EXCEPT !.pc = "wait", !.held = TRUE, !.proc = p]
  <2>1. Job(r, j)
    BY <1>6 DEF JobAttaches
  <2>2. p \in {"none", "alive", "zero", "nonzero", "killed"}
    BY <1>2 DEF Thread, Terminated
  <2> HIDE DEF p
  <2>3. Works(r, j)
    BY <1>2, <1>6, <2>2 DEF JobAttaches, Works, Thread
  <2> QED
    BY <1>1, <2>1, <2>3
<1>7. CASE JobPolls(r)
  <2>1. CASE \E res \in {"ok", "error", "cancelled"} :
               (res = "cancelled" => token[r]) /\ Job(r, Ends(job[r], res))
    BY <1>3, <1>7, <2>1 DEF JobPolls
  <2>2. CASE job[r].proc = "zero" /\ Job(r, NextStage(job[r]))
    <3>1. Works(r, NextStage(job[r]))
      BY <1>2, <1>7, <2>2 DEF JobPolls, Works, Thread, NextStage
    <3> QED
      BY <1>1, <2>2, <3>1
  <2> QED
    BY <1>7, <2>1, <2>2 DEF JobPolls
<1>8. CASE JobCleans(r)
  <2>1. Works(r, [job[r] EXCEPT !.pc = "ended"])
    BY <1>2, <1>8 DEF JobCleans, Works, Thread
  <2> QED
    BY <1>1, <1>8, <2>1 DEF JobCleans
<1>9. CASE SubprocessExits(r)
  <2>1. PICK code \in {"zero", "nonzero"} : Job(r, [job[r] EXCEPT !.proc = code])
    BY <1>9 DEF SubprocessExits
  <2>2. Works(r, [job[r] EXCEPT !.proc = code])
    BY <1>2 DEF Works, Thread
  <2> QED
    BY <1>1, <2>1, <2>2
<1> QED
  BY <1>4, <1>5, <1>6, <1>7, <1>8, <1>9 DEF JobStep

\* The event is set while the run is active, or nothing is.
LEMMA CancelBeginsKeeps ==
  ASSUME ServiceInv, NEW r \in Runs, NEW x \in Callers, CancelBegins(r, x)
  PROVE  ServiceInv'
<1>1. PICK pc \in {"raised", "done", "mark"}, k \in BOOLEAN :
        /\ Cancels(r, x, pc) /\ Put(token, token', r, k)
        /\ token[r] => k
        /\ pc = "mark" => k
        /\ k => token[r] \/ pc = "mark"
        /\ pc = "done" => run[r].st \in Terminal
  <2>1. token[r] \in BOOLEAN
    BY Slice DEF Typed
  <2> QED
    BY <2>1 DEF CancelBegins, Put
<1> DEFINE c == [cancels[r] EXCEPT ![x] = pc]
<1>2. /\ c \in [Callers -> CancelPc] /\ c[x] = pc
      /\ \A y \in Callers : y # x => c[y] = cancels[r][y]
  BY Slice DEF Typed, CancelPc
<1>3. Becomes(r, run[r], k, task[r], job[r], c, writes[r], scorer[r])
  <2>1. cancels' = [cancels EXCEPT ![r] = c]
    BY <1>1 DEF Cancels
  <2> QED
    BY <1>1, <2>1 DEF CancelBegins, Put, Becomes
<1> HIDE DEF c
<1>4. cancels[r][x] = "begin"
  BY DEF CancelBegins
<1>5. Typed(run[r], k, task[r], job[r], c, writes[r], scorer[r])
  BY <1>2, Slice DEF Typed
<1>6. Queue(run[r], task[r], c, writes[r])
  <2>1. writes[r] \in Seq(Write)
    BY Slice DEF Typed
  <2>2. \A y \in Callers : cancels[r][y] = "write" => c[y] = "write"
    BY <1>2, <1>4
  <2> QED
    BY <2>1, <2>2, Slice, QueueStays DEF Fit
<1>7. Truthful(run[r], k, task[r], job[r], writes[r], scorer[r])
  BY <1>1, Slice DEF Fit, Truthful
<1>8. Cancelled(run[r], k, task[r], job[r], c, scorer[r])
  BY <1>1, <1>2, <1>4, Slice DEF Fit, Truthful, Cancelled, Terminal, Callers
<1>9. Fit(run[r], k, task[r], job[r], c, writes[r], scorer[r])
  BY <1>6, <1>7, <1>8, Slice DEF Fit
<1>10. Goes(r, run[r], task[r], c) /\ Frees(r, run[r], task[r])
  BY <1>1, <1>2, <1>4, Idles DEF Goes, Callers
<1> QED
  BY <1>3, <1>5, <1>9, <1>10, RunSteps

\* The status is overruled, and the write queued behind the others.
LEMMA CancelMarksKeeps ==
  ASSUME ServiceInv, NEW r \in Runs, NEW x \in Callers, CancelMarks(r, x)
  PROVE  ServiceInv'
<1> DEFINE p == IF job[r].held THEN Terminated(job[r].proc) ELSE job[r].proc
<1> DEFINE j == [job[r] EXCEPT !.proc = p]
<1>1. job' = [job EXCEPT ![r] = j] /\ cancels[r][x] = "mark"
  BY DEF CancelMarks
<1>2. j \in Thread /\ j.pc = job[r].pc /\ j.res = job[r].res /\ (j.proc = "alive" => job[r].proc = "alive")
  <2>1. job[r] \in Thread
    BY Slice DEF Typed
  <2>2. p \in {"none", "alive", "zero", "nonzero", "killed"} /\ (p = "alive" => job[r].proc = "alive")
    BY <2>1 DEF Thread, Terminated
  <2> HIDE DEF p
  <2> QED
    BY <2>1, <2>2 DEF Thread
<1> HIDE DEF j
<1>3. PICK pc \in {"write", "raised"} :
        /\ cancels' = [cancels EXCEPT ![r][x] = pc]
        /\ IF pc = "write" THEN Known(r) /\ Transition(r, "cancelled", x)
           ELSE UNCHANGED <<run, writes>>
  BY DEF CancelMarks, Cancels
<1> DEFINE c == [cancels[r] EXCEPT ![x] = pc]
<1>4. /\ c \in [Callers -> CancelPc] /\ c[x] = pc /\ cancels' = [cancels EXCEPT ![r] = c]
      /\ \A y \in Callers : y # x => c[y] = cancels[r][y]
  BY <1>3, Slice DEF Typed, CancelPc
<1> HIDE DEF c
<1>5. token[r]
  BY <1>1, Slice DEF Fit, Cancelled
<1>6. Watched(task[r], j)
  BY <1>2, Slice DEF Fit, Watched
<1>7. Cancelled(run[r], token[r], task[r], j, c, scorer[r])
  BY <1>1, <1>2, <1>3, <1>4, <1>5, Slice DEF Fit, Cancelled, Callers
<1>8. \A y \in Callers : cancels[r][y] = "write" => c[y] = "write"
  BY <1>1, <1>4
<1>9. writes[r] \in Seq(Write) /\ run[r] \in Record
  BY Slice DEF Typed
<1>10. ~Queued(writes[r], x) /\ Waits(writes[r], x, task[r], c)
  BY <1>1, <1>8, <1>9, Slice, WritersNamed DEF Fit, Queue, Queued, Waits, Writer, Callers
<1>11. Goes(r, run[r], task[r], c) /\ Frees(r, run[r], task[r])
  BY <1>1, <1>3, <1>4, Idles DEF Goes, Callers
<1>12. CASE pc = "raised"
  <2>1. Becomes(r, run[r], token[r], task[r], j, c, writes[r], scorer[r])
    BY <1>1, <1>3, <1>4, <1>12 DEF CancelMarks, Put, Becomes
  <2>2. Typed(run[r], token[r], task[r], j, c, writes[r], scorer[r])
    BY <1>2, <1>4, Slice DEF Typed
  <2>3. Queue(run[r], task[r], c, writes[r])
    BY <1>8, <1>9, Slice, QueueStays DEF Fit
  <2>4. Truthful(run[r], token[r], task[r], j, writes[r], scorer[r])
    BY <1>2, Slice DEF Fit, Truthful
  <2>5. Fit(run[r], token[r], task[r], j, c, writes[r], scorer[r])
    BY <1>6, <1>7, <2>3, <2>4 DEF Fit
  <2> QED
    BY <1>11, <2>1, <2>2, <2>5, RunSteps
<1>13. CASE pc = "write"
  <2> DEFINE u == [run[r] EXCEPT !.st = "cancelled"]
  <2> DEFINE e == [st |-> "cancelled", by |-> x]
  <2> DEFINE w == Append(writes[r], e)
  <2>1. Becomes(r, u, token[r], task[r], j, c, w, scorer[r])
    BY <1>1, <1>3, <1>4, <1>13 DEF CancelMarks, Transition, Put, Becomes
  <2>2. u \in Record /\ u.st = "cancelled" /\ Known(r)
    BY <1>3, <1>9, <1>13 DEF Record, Status, Terminal
  <2>3. e \in Write /\ e.st = u.st /\ e.by = x
    BY DEF Write, Status, Terminal
  <2> HIDE DEF u, e
  <2>4. Queue(u, task[r], c, w) /\ w \in Seq(Write) /\ w # <<>>
    <3>1. Queue(run[r], task[r], cancels[r], writes[r])
      BY Slice DEF Fit
    <3>2. Writer(task[r], c, x)
      BY <1>4, <1>13 DEF Writer, Callers
    <3> QED
      BY <1>9, <1>10, <2>3, <3>1, <3>2, QueueGrows
  <2> HIDE DEF w
  <2>5. Typed(u, token[r], task[r], j, c, w, scorer[r])
    BY <1>2, <1>4, <2>2, <2>4, Slice DEF Typed
  <2>6. Truthful(u, token[r], task[r], j, w, scorer[r])
    BY <1>2, <1>5, <2>2, <2>4, Slice DEF Fit, Truthful
  <2>7. Cancelled(u, token[r], task[r], j, c, scorer[r])
    BY <1>7, <2>2, Slice DEF Known, Fit, Cancelled
  <2>8. Fit(u, token[r], task[r], j, c, w, scorer[r])
    BY <1>6, <2>4, <2>6, <2>7 DEF Fit
  <2>9. Goes(r, u, task[r], c) /\ Frees(r, u, task[r])
    BY <1>11, <2>2 DEF Goes, Frees, Known, Terminal, Active
  <2> QED
    BY <2>1, <2>5, <2>8, <2>9, RunSteps
<1> QED
  BY <1>12, <1>13

-----------------------------------------------------------------------------
(* The prune task and the shutdown.                                        *)

PruneType == [pc : {"idle", "scan", "sweep"}, left : SUBSET Runs, removing : SUBSET Runs]

\* Runs that are over are discarded; the directory of a discarded one goes.
Thins(V) ==
  \A q \in Runs :
    \/ run'[q] = run[q]
    \/ run[q].st = "gone" /\ run'[q].st = "gone"
    \/ q \in V /\ run[q].st \in Terminal \cup {"gone"} /\ run'[q].st = "gone"

\* A step of the prune task that keeps the facts about its victims.
LEMMA SweepKeeps ==
  ASSUME ServiceInv, NEW V, Thins(V), run' \in [Runs -> Record], prune' \in PruneType, Pruning',
         UNCHANGED <<token, task, job, cancels, writes, server, doomed, scorer>>
  PROVE  ServiceInv'
<1>1. Shape'
  BY DEF ServiceInv, Shape, PruneType
<1>2. AllFit'
  <2> SUFFICES ASSUME NEW q \in Runs
               PROVE  Fit(run'[q], token[q], task[q], job[q], cancels[q], writes[q], scorer[q])
    BY DEF AllFit
  <2>1. Fit(run[q], token[q], task[q], job[q], cancels[q], writes[q], scorer[q])
    BY Slice
  <2>2. ASSUME run[q].st \in Terminal \cup {"gone"}, run'[q].st = "gone"
        PROVE  Fit(run'[q], token[q], task[q], job[q], cancels[q], writes[q], scorer[q])
    <3>1. writes[q] \in Seq(Write)
      BY Slice DEF Typed
    <3>2. Queue(run'[q], task[q], cancels[q], writes[q])
      BY <2>1, <2>2, <3>1, QueueStays DEF Fit
    <3> QED
      BY <2>1, <2>2, <3>2 DEF Fit, Truthful, Cancelled, Terminal
  <2> QED
    BY <2>1, <2>2 DEF Thins
<1>3. Limits'
  <2>1. With(Active)' \subseteq With(Active) /\ Holding' = Holding
    BY DEF Thins, With, Active, Holding, Holds
  <2>2. With(Active) \in SUBSET Runs
    BY DEF With
  <2>3. /\ Cardinality(With(Active)') <= Cardinality(With(Active))
        /\ Cardinality(With(Active)) \in Nat /\ Cardinality(With(Active)') \in Nat
    BY <2>1, <2>2, SetsCounted
  <2>4. MaxConcurrentRuns \in Nat
    BY SweBenchAssumption
  <2> QED
    BY <2>1, <2>3, <2>4 DEF ServiceInv, Limits
<1>4. Shutdown'
  BY DEF ServiceInv, Shutdown
<1> QED
  BY <1>1, <1>2, <1>3, <1>4 DEF ServiceInv

\* One fewer is over and one fewer is to be discarded.
LEMMA OneFewer ==
  ASSUME NEW L \in SUBSET Runs, NEW W \in SUBSET Runs, NEW v \in L, L \subseteq W,
         Cardinality(L) + MaxStoredRuns <= Cardinality(W)
  PROVE  Cardinality(L \ {v}) + MaxStoredRuns <= Cardinality(W \ {v})
<1>1. /\ IsFiniteSet(L) /\ IsFiniteSet(W) /\ Cardinality(L) \in Nat /\ Cardinality(W) \in Nat
      /\ MaxStoredRuns \in Nat
  BY SetsCounted, SweBenchAssumption
<1>2. Cardinality(L \ {v}) = Cardinality(L) - 1
  BY <1>1, FS_RemoveElement
<1>3. Cardinality(W \ {v}) = Cardinality(W) - 1
  BY <1>1, FS_RemoveElement
<1> QED
  BY <1>1, <1>2, <1>3

\* The victims of a scan are over, and no more than are too many.
LEMMA PruneScansKeeps == ASSUME ServiceInv, PruneScans PROVE ServiceInv'
<1>1. /\ Shape /\ Pruning
      /\ UNCHANGED <<token, task, job, cancels, writes, server, doomed, scorer>>
  BY DEF ServiceInv, PruneScans, execVars
<1>2. CASE prune' = [prune EXCEPT !.pc = "idle"] /\ UNCHANGED run
  <2>1. /\ prune' \in PruneType /\ prune'.left = prune.left /\ prune'.removing = prune.removing
        /\ prune'.pc = "idle"
    BY <1>1, <1>2 DEF Shape, PruneType
  <2>2. Pruning'
    BY <1>1, <1>2, <2>1 DEF Pruning
  <2> QED
    BY <1>1, <1>2, <2>1, <2>2, SweepKeeps DEF Shape, Thins
<1>3. CASE Count(Terminal) > MaxStoredRuns /\ ~(prune' = [prune EXCEPT !.pc = "idle"] /\ UNCHANGED run)
  <2>1. PICK V \in SUBSET MayExpire, v \in MayExpire :
          /\ v \in V /\ Cardinality(V) <= Overflow
          /\ run' = [run EXCEPT ![v] = Discarded(run[v])]
          /\ prune' = [pc |-> "sweep", left |-> V \ {v}, removing |-> {v}]
    BY <1>3 DEF PruneScans
  <2>2. \A q \in MayExpire : q \in Runs /\ run[q].st \in Terminal
    BY DEF MayExpire
  <2>3. Discarded(run[v]) \in Record /\ Discarded(run[v]).st = "gone"
    BY ZenonT(60), <1>1, <2>2 DEF Shape, Discarded, Record, Status
  <2>4. /\ run' \in [Runs -> Record] /\ run'[v].st = "gone"
        /\ \A q \in Runs \ {v} : run'[q] = run[q]
    BY <1>1, <2>1, <2>2, <2>3 DEF Shape
  <2>5. Thins({v})
    BY <2>2, <2>4 DEF Thins
  <2>6. prune' \in PruneType /\ prune'.left = V \ {v} /\ prune'.removing = {v}
    BY <2>1, <2>2 DEF PruneType
  <2>7. V \subseteq With(Terminal) /\ V \in SUBSET Runs /\ With(Terminal) \in SUBSET Runs
    BY <2>2 DEF With
  <2>8. Cardinality(V) + MaxStoredRuns <= Cardinality(With(Terminal))
    <3>1. Cardinality(V) \in Nat /\ Cardinality(With(Terminal)) \in Nat /\ MaxStoredRuns \in Nat
      BY <2>7, SetsCounted, SweBenchAssumption
    <3>2. Cardinality(V) <= Cardinality(With(Terminal)) - MaxStoredRuns
      BY <2>1 DEF Overflow, Count, With
    <3> QED
      BY <3>1, <3>2
  <2>9. Cardinality(V \ {v}) + MaxStoredRuns <= Cardinality(With(Terminal) \ {v})
    BY <2>1, <2>7, <2>8, OneFewer
  <2>10. With(Terminal)' = With(Terminal) \ {v}
    BY <2>4 DEF With, Terminal
  <2>11. Pruning'
    BY <2>2, <2>4, <2>6, <2>7, <2>9, <2>10 DEF Pruning
  <2> QED
    BY <1>1, <2>4, <2>5, <2>6, <2>11, SweepKeeps
<1> QED
  BY <1>2, <1>3 DEF PruneScans

\* Discarding one victim leaves one fewer that is over.
LEMMA PruneSweepsKeeps == ASSUME ServiceInv, PruneSweeps PROVE ServiceInv'
<1>1. /\ Shape /\ Pruning /\ prune.pc = "sweep" /\ prune \in PruneType
      /\ UNCHANGED <<token, task, job, cancels, writes, server, doomed, scorer>>
  BY DEF ServiceInv, Shape, PruneType, PruneSweeps, execVars
<1> DEFINE g == [q \in Runs |-> IF q \in prune.removing THEN [run[q] EXCEPT !.disk = "none"]
                                ELSE run[q]]
<1>2. /\ g \in [Runs -> Record] /\ \A q \in Runs : g[q].st = run[q].st
      /\ \A q \in Runs : g[q] = run[q] \/ run[q].st = "gone"
  <2>0. \A q \in Runs : run[q] \in Record
    BY <1>1 DEF Shape
  <2>1. \A q \in Runs : /\ [run[q] EXCEPT !.disk = "none"] \in Record
                        /\ [run[q] EXCEPT !.disk = "none"].st = run[q].st
    BY <2>0 DEF Record, Status
  <2> QED
    BY <1>1, <2>1 DEF Shape, Pruning
<1>3. \/ prune.left = {} /\ run' = g /\ prune' = [pc |-> "scan", left |-> {}, removing |-> {}]
      \/ \E v \in prune.left : /\ run' = [g EXCEPT ![v] = Discarded(g[v])]
                               /\ prune' = [prune EXCEPT !.left = prune.left \ {v}, !.removing = {v}]
  BY DEF PruneSweeps
<1> HIDE DEF g
<1>4. CASE run' = g /\ prune' = [pc |-> "scan", left |-> {}, removing |-> {}]
  <2>1. Thins({}) /\ prune' \in PruneType /\ Pruning'
    BY <1>2, <1>4 DEF Thins, PruneType, Pruning
  <2> QED
    BY <1>1, <1>2, <1>4, <2>1, SweepKeeps
<1>5. ASSUME NEW v \in prune.left, run' = [g EXCEPT ![v] = Discarded(g[v])],
             prune' = [prune EXCEPT !.left = prune.left \ {v}, !.removing = {v}]
      PROVE  ServiceInv'
  <2>1. v \in Runs /\ run[v].st \in Terminal \cup {"gone"}
    BY <1>1 DEF PruneType, Pruning
  <2>2. Discarded(g[v]) \in Record /\ Discarded(g[v]).st = "gone"
    BY <1>2, <2>1 DEF Discarded, Record, Status
  <2>3. /\ run' \in [Runs -> Record] /\ run'[v].st = "gone"
        /\ \A q \in Runs \ {v} : run'[q] = g[q]
    BY <1>2, <1>5, <2>1, <2>2
  <2>4. Thins({v})
    BY <1>2, <2>1, <2>3 DEF Thins
  <2>5. /\ prune' \in PruneType /\ prune'.left = prune.left \ {v} /\ prune'.removing = {v}
        /\ prune.left \in SUBSET Runs
    BY <1>1, <1>5, <2>1 DEF PruneType
  <2>6. With(Terminal)' = With(Terminal) \ {v} /\ With(Terminal) \in SUBSET Runs
    BY <1>2, <2>3 DEF With, Terminal
  <2>7. server = "up" => /\ prune.left \subseteq With(Terminal)
                         /\ Cardinality(prune.left \ {v}) + MaxStoredRuns <= Cardinality(With(Terminal) \ {v})
    <3> SUFFICES ASSUME server = "up"
                 PROVE  /\ prune.left \subseteq With(Terminal)
                        /\ Cardinality(prune.left \ {v}) + MaxStoredRuns <= Cardinality(With(Terminal) \ {v})
      OBVIOUS
    <3>1. /\ prune.left \subseteq With(Terminal)
          /\ Cardinality(prune.left) + MaxStoredRuns <= Cardinality(With(Terminal))
      BY <1>1 DEF Pruning
    <3> QED
      BY <2>5, <2>6, <3>1, OneFewer
  <2>8. \A q \in prune.left \ {v} : run'[q].st \in Terminal \cup {"gone"}
    BY <1>1, <1>2, <2>3, <2>5 DEF Pruning
  <2>9. Pruning'
    BY <1>1, <2>3, <2>5, <2>6, <2>7, <2>8 DEF Pruning
  <2> QED
    BY <1>1, <2>3, <2>4, <2>5, <2>9, SweepKeeps
<1> QED
  BY <1>3, <1>4, <1>5

\* The cancel() calls of the shutdown begin for the active runs.
LEMMA ShutdownBeginsKeeps == ASSUME ServiceInv, ShutdownBegins PROVE ServiceInv'
<1>1. /\ Shape /\ server = "up" /\ server' = "cancelling" /\ doomed' = With(Active)
      /\ cancels' = [r \in Runs |-> IF r \in doomed' THEN [cancels[r] EXCEPT !["shutdown"] = "begin"]
                                    ELSE cancels[r]]
      /\ UNCHANGED <<run, token, task, job, writes, prune, scorer>>
  BY DEF ServiceInv, ShutdownBegins, execVars, With
<1>2. \A r \in Runs : /\ [cancels[r] EXCEPT !["shutdown"] = "begin"] \in [Callers -> CancelPc]
                      /\ [cancels[r] EXCEPT !["shutdown"] = "begin"]["shutdown"] = "begin"
                      /\ [cancels[r] EXCEPT !["shutdown"] = "begin"]["scorer"] = cancels[r]["scorer"]
  BY <1>1 DEF Shape, CancelPc, Callers
<1>3. /\ cancels' \in [Runs -> [Callers -> CancelPc]]
      /\ \A r \in Runs : IF r \in With(Active)
                         THEN cancels'[r]["shutdown"] = "begin" /\ cancels'[r]["scorer"] = cancels[r]["scorer"]
                         ELSE cancels'[r] = cancels[r]
  BY <1>1, <1>2 DEF Shape
<1>4. Shape'
  BY <1>1, <1>3 DEF Shape, With
<1>5. AllFit'
  <2> SUFFICES ASSUME NEW q \in Runs
               PROVE  Fit(run[q], token[q], task[q], job[q], cancels'[q], writes[q], scorer[q])
    BY <1>1 DEF AllFit
  <2>1. Fit(run[q], token[q], task[q], job[q], cancels[q], writes[q], scorer[q])
    BY Slice
  <2>2. CASE q \in With(Active)
    <3>1. cancels[q]["shutdown"] = "none"
      BY <1>1 DEF ServiceInv, Shutdown
    <3>2. writes[q] \in Seq(Write) /\ run[q].st \in Active
      BY <2>2, Slice DEF Typed, With
    <3>3. \A x \in Callers : cancels[q][x] = "write" => cancels'[q][x] = "write"
      BY <1>3, <2>2, <3>1 DEF Callers
    <3>4. Queue(run[q], task[q], cancels'[q], writes[q])
      BY <2>1, <3>2, <3>3, QueueStays DEF Fit
    <3>5. Cancelled(run[q], token[q], task[q], job[q], cancels'[q], scorer[q])
      BY <1>3, <2>1, <2>2, <3>2 DEF Fit, Cancelled, Callers, Active
    <3> QED
      BY <2>1, <3>4, <3>5 DEF Fit
  <2> QED
    BY <1>3, <2>1, <2>2
<1>6. Limits'
  BY <1>1 DEF ServiceInv, Limits, With, Holding, Holds
<1>7. Pruning'
  BY <1>1 DEF ServiceInv, Pruning
<1>8. Shutdown'
  BY <1>1, <1>3 DEF ServiceInv, Shutdown
<1> QED
  BY <1>4, <1>5, <1>6, <1>7, <1>8 DEF ServiceInv

\* The shutdown waits for its calls, then for the tasks there are.
LEMMA ShutdownEndsKeeps ==
  ASSUME ServiceInv, ShutdownGathers \/ ShutdownEnds
  PROVE  ServiceInv'
<1>1. Shape /\ AllFit /\ Limits /\ Pruning /\ Shutdown
  BY DEF ServiceInv
<1>2. UNCHANGED <<run, token, task, job, cancels, writes, scorer>> /\ server # "up" /\ server' # "up"
  BY DEF ShutdownGathers, ShutdownEnds, execVars
<1>3. AllFit' /\ Limits'
  BY <1>1, <1>2 DEF AllFit, Limits, With, Holding, Holds
<1>4. CASE ShutdownGathers
  <2>1. CASE server' = "raised" /\ UNCHANGED doomed
    BY <1>1, <1>2, <1>3, <1>4, <2>1 DEF ShutdownGathers, ServiceInv, Shape, Pruning, Shutdown
  <2>2. CASE /\ \A r \in doomed : cancels[r]["shutdown"] = "done"
             /\ server' = "waiting" /\ doomed' = {r \in Runs : task[r] \notin {"none", "done"}}
    <3>1. \A r \in Runs : cancels[r]["shutdown"] # "none" => cancels[r]["shutdown"] = "done"
      BY <1>1, <1>4, <2>2 DEF ShutdownGathers, Shutdown
    <3>2. Shutdown'
      BY <1>2, <2>2, <3>1 DEF Shutdown
    <3>3. Shape' /\ Pruning'
      BY <1>1, <1>2, <1>4, <2>2 DEF ShutdownGathers, Shape, Pruning
    <3> QED
      BY <1>3, <3>2, <3>3 DEF ServiceInv
  <2> QED
    BY <1>4, <2>1, <2>2 DEF ShutdownGathers
<1>5. CASE ShutdownEnds
  <2>1. /\ prune' \in PruneType /\ prune'.left = {} /\ prune'.removing = prune.removing
    BY <1>1, <1>5 DEF ShutdownEnds, Shape, PruneType
  <2>2. Shape' /\ Pruning'
    BY <1>1, <1>2, <1>5, <2>1 DEF ShutdownEnds, Shape, PruneType, Pruning
  <2>3. Shutdown'
    BY <1>1, <1>2, <1>5 DEF ShutdownEnds, Shutdown
  <2> QED
    BY <1>3, <2>2, <2>3 DEF ServiceInv
<1> QED
  BY <1>4, <1>5

-----------------------------------------------------------------------------
(* The invariant.                                                          *)

\* The runs of an earlier life of the service are over; the new ones are
\* unknown.
LEMMA ServiceInvInit == ASSUME Init PROVE ServiceInv
<1> USE SweBenchAssumption
<1>1. Old \subseteq Runs /\ MaxConcurrentRuns \in Nat
  OBVIOUS
<1>2. \A r \in Runs :
        /\ run[r] = [st |-> IF r \in Old THEN "succeeded" ELSE "none",
                     disk |-> IF r \in Old THEN "succeeded" ELSE "none",
                     lost |-> FALSE, readers |-> 0]
        /\ token[r] = FALSE /\ task[r] = (IF r \in Old THEN "done" ELSE "none")
        /\ job[r] = (IF r \in Old THEN [NoJob EXCEPT !.pc = "ended", !.res = "ok"] ELSE NoJob)
        /\ cancels[r] = [k \in Callers |-> "none"] /\ writes[r] = <<>>
        /\ scorer[r] = (IF r \in Old THEN "scored" ELSE "idle")
  BY DEF Init
<1>3. ASSUME NEW r \in Runs
       PROVE  /\ run[r].st = (IF r \in Old THEN "succeeded" ELSE "none") /\ run[r].disk = run[r].st
              /\ job[r].pc = (IF r \in Old THEN "ended" ELSE "none") /\ job[r].proc = "none"
              /\ job[r].res = (IF r \in Old THEN "ok" ELSE "none")
              /\ token[r] = FALSE /\ writes[r] = <<>>
              /\ task[r] = (IF r \in Old THEN "done" ELSE "none")
              /\ scorer[r] = (IF r \in Old THEN "scored" ELSE "idle")
              /\ \A x \in Callers : cancels[r][x] = "none"
  <2> DEFINE st == IF r \in Old THEN "succeeded" ELSE "none"
             ended == [NoJob EXCEPT !.pc = "ended", !.res = "ok"]
  <2>1. run[r].st = st /\ run[r].disk = st
    <3>1. run[r] = [st |-> st, disk |-> st, lost |-> FALSE, readers |-> 0]
      BY <1>2
    <3> HIDE DEF st
    <3> QED
      BY <3>1
  <2>2. /\ job[r].pc = (IF r \in Old THEN "ended" ELSE "none") /\ job[r].proc = "none"
        /\ job[r].res = (IF r \in Old THEN "ok" ELSE "none")
    <3>1. /\ ended.pc = "ended" /\ ended.proc = "none" /\ ended.res = "ok"
          /\ NoJob.pc = "none" /\ NoJob.proc = "none" /\ NoJob.res = "none"
      BY DEF NoJob
    <3>2. job[r] = IF r \in Old THEN ended ELSE NoJob
      BY <1>2
    <3> HIDE DEF ended
    <3> QED
      BY <3>1, <3>2
  <2>3. /\ token[r] = FALSE /\ writes[r] = <<>> /\ task[r] = (IF r \in Old THEN "done" ELSE "none")
        /\ scorer[r] = (IF r \in Old THEN "scored" ELSE "idle")
        /\ \A x \in Callers : cancels[r][x] = "none"
    BY <1>2
  <2> QED
    BY <2>1, <2>2, <2>3
<1>4. Shape
  <2>1. /\ run \in [Runs -> Record] /\ token \in [Runs -> BOOLEAN] /\ task \in [Runs -> TaskPc]
        /\ scorer \in [Runs -> ScorerPc]
    BY DEF Init, Record, Status, Terminal, TaskPc, ScorerPc
  <2>2. NoJob \in Thread /\ [NoJob EXCEPT !.pc = "ended", !.res = "ok"] \in Thread
    BY DEF NoJob, Thread
  <2>3. job \in [Runs -> Thread]
    BY <2>2 DEF Init
  <2>4. cancels \in [Runs -> [Callers -> CancelPc]]
    BY DEF Init, CancelPc
  <2>5. writes \in [Runs -> Seq(Write)]
    BY EmptySeq DEF Init
  <2>6. /\ prune \in PruneType /\ server \in {"up", "cancelling", "waiting", "down", "raised"}
        /\ doomed \subseteq Runs
    BY DEF Init, PruneType
  <2> QED
    BY <2>1, <2>3, <2>4, <2>5, <2>6 DEF Shape, PruneType
<1>5. AllFit
  <2> SUFFICES ASSUME NEW r \in Runs
               PROVE  Fit(run[r], token[r], task[r], job[r], cancels[r], writes[r], scorer[r])
    BY DEF AllFit
  <2>1. Queue(run[r], task[r], cancels[r], writes[r])
    <3>1. writes[r] = <<>> /\ Len(writes[r]) = 0
      BY <1>3, EmptySeq
    <3>2. \A i \in 1..Len(writes[r]) : FALSE
      BY <3>1
    <3> QED
      BY <3>1, <3>2 DEF Queue
  <2>2. Watched(task[r], job[r])
    BY <1>3 DEF Watched
  <2>3. Truthful(run[r], token[r], task[r], job[r], writes[r], scorer[r])
    BY <1>3 DEF Truthful
  <2>4. Cancelled(run[r], token[r], task[r], job[r], cancels[r], scorer[r])
    BY <1>3 DEF Cancelled, Callers
  <2> QED
    BY <2>1, <2>2, <2>3, <2>4 DEF Fit
<1>6. Limits
  <2>1. With(Active) = {} /\ Holding = {}
    BY ZenonT(60), <1>3 DEF With, Active, Holding, Holds
  <2> QED
    BY <1>1, <2>1, FS_EmptySet DEF Limits
<1>7. Pruning /\ Shutdown
  BY DEF Init, Pruning, Shutdown, Callers
<1> QED
  BY <1>4, <1>5, <1>6, <1>7 DEF ServiceInv

\* A step that changes nothing keeps it.
LEMMA StutterKeeps == ASSUME ServiceInv, UNCHANGED vars PROVE ServiceInv'
<1>1. Shape' /\ AllFit'
  BY DEF ServiceInv, Shape, AllFit, vars
<1>2. Limits'
  BY DEF ServiceInv, Limits, With, Holding, Holds, vars
<1>3. Pruning' /\ Shutdown'
  BY DEF ServiceInv, Pruning, With, Shutdown, vars
<1> QED
  BY <1>1, <1>2, <1>3 DEF ServiceInv

\* Every step keeps the invariant.
LEMMA ServiceInvStep == ASSUME ServiceInv, [Next]_vars PROVE ServiceInv'
<1>1. ASSUME NEW r \in Runs,
             \/ Rejected(r) \/ Submit(r) \/ Persisted(r) \/ PersistFails(r)
             \/ ExecuteStep(r) \/ JobStep(r) \/ SubprocessExits(r) \/ WriteStatus(r)
      PROVE  ServiceInv'
  BY <1>1, RejectedKeeps, SubmitKeeps, PersistedKeeps, PersistFailsKeeps, ExecuteKeeps, JobKeeps,
     WriteKeeps
<1>2. ASSUME NEW r \in Runs, NEW k \in Callers, CancelStep(r, k) PROVE ServiceInv'
  BY <1>2, CancelBeginsKeeps, CancelMarksKeeps DEF CancelStep
<1>3. ASSUME NEW r \in Runs,
             Poll(r) \/ PollFails(r) \/ GivesUp(r) \/ ReadsArtifact(r) \/ ArtifactRead(r) \/ Scores(r)
      PROVE  ServiceInv'
  BY <1>3, PollKeeps, GivesUpKeeps, ReadKeeps, ScoresKeeps
<1>4. CASE PruneScans \/ PruneSweeps
  BY <1>4, PruneScansKeeps, PruneSweepsKeeps
<1>5. CASE ShutdownBegins \/ ShutdownGathers \/ ShutdownEnds
  BY <1>5, ShutdownBeginsKeeps, ShutdownEndsKeeps
<1>6. CASE UNCHANGED vars
  BY <1>6, StutterKeeps
<1> QED
  BY <1>1, <1>2, <1>3, <1>4, <1>5, <1>6 DEF Next

-----------------------------------------------------------------------------
(* What it is for.                                                         *)

\* A thread at work is that of a task that holds the semaphore.
LEMMA CapacityFollows == ASSUME ServiceInv PROVE CapacityHolds
<1> DEFINE Working == {r \in Runs : job[r].pc \notin {"none", "ended"}}
<1>1. Count(Active) <= MaxConcurrentRuns
  BY DEF ServiceInv, Limits, Count, With
<1>2. ASSUME NEW r \in Runs PROVE Watched(task[r], job[r]) /\ task[r] \in TaskPc
  BY Slice DEF Fit, Typed
<1>3. Working \subseteq Holding
  BY <1>2 DEF Watched, TaskPc, Holding, Holds
<1>4. Cardinality(Working) <= MaxConcurrentRuns
  <2>1. Holding \in SUBSET Runs /\ Working \in SUBSET Runs
    BY DEF Holding
  <2>2. /\ Cardinality(Working) <= Cardinality(Holding)
        /\ Cardinality(Working) \in Nat /\ Cardinality(Holding) \in Nat
    BY <1>3, <2>1, SetsCounted
  <2>3. Cardinality(Holding) <= MaxConcurrentRuns /\ MaxConcurrentRuns \in Nat
    BY SweBenchAssumption DEF ServiceInv, Limits
  <2> QED
    BY <2>2, <2>3
<1>5. \A r \in Runs : job[r].proc = "alive" => job[r].pc \in {"attach", "wait"}
  BY <1>2 DEF Watched
<1> QED
  BY <1>1, <1>4, <1>5 DEF CapacityHolds

\* The shutdown has waited for the tasks, and those that have not begun find
\* their token set.
LEMMA ShutdownFollows == ASSUME ServiceInv PROVE ShutdownLeavesNoRunner
<1> SUFFICES ASSUME server = "down", NEW r \in Runs, cancels[r]["shutdown"] # "none"
             PROVE  job[r].pc \in {"none", "ended"} /\ (task[r] = "semaphore" => token[r])
  BY DEF ShutdownLeavesNoRunner
<1>1. cancels[r]["shutdown"] = "done" /\ task[r] \notin {"starting", "running"}
  BY DEF ServiceInv, Shutdown
<1>2. /\ Watched(task[r], job[r]) /\ task[r] \in TaskPc
      /\ Cancelled(run[r], token[r], task[r], job[r], cancels[r], scorer[r])
  BY Slice DEF Fit, Typed
<1>3. job[r].pc \in {"none", "ended"}
  BY <1>1, <1>2 DEF Watched, TaskPc
<1>4. task[r] = "semaphore" => token[r]
  BY <1>1, <1>2 DEF Watched, Cancelled, Callers
<1> QED
  BY <1>3, <1>4

\* What the service says of a run is so.
LEMMA StatusFollows == ASSUME ServiceInv PROVE StatusIsTrue
<1> SUFFICES ASSUME NEW r \in Runs
             PROVE
    /\ run[r].st = "succeeded" \/ scorer[r] = "scored" => job[r].res = "ok"
    /\ run[r].st = "failed" => job[r].res \in {"ok", "error"}
    /\ run[r].st = "cancelled" => token[r]
    /\ /\ Known(r) /\ ~run[r].lost /\ writes[r] = <<>>
       /\ task[r] # "semaphore" /\ scorer[r] # "submitting"
       => run[r].disk = run[r].st
  BY DEF StatusIsTrue
<1>1. Truthful(run[r], token[r], task[r], job[r], writes[r], scorer[r])
  BY Slice DEF Fit
<1> QED
  BY <1>1 DEF Truthful, Known

-----------------------------------------------------------------------------
(* What is over stays over.  StaysOver is the action of OverStaysOver for   *)
(* one run.                                                                 *)

StaysOver(r) ==
  /\ token'[r] # token[r] => run[r].st \in Active
  /\ run[r].st \in Terminal /\ run'[r].st \notin {run[r].st, "gone"} =>
       /\ token[r] /\ "cancelled" \in {run[r].st, run'[r].st}
       /\ Holds(r) \/ \E k \in Callers : cancels[r][k] = "mark"
  /\ run[r].st \in Terminal /\ run'[r].st = "gone" /\ scorer[r] # "submitting" =>
       /\ Count(Terminal) > MaxStoredRuns \/ server # "up"
       /\ run[r].readers > 0 => r \in prune.left

\* A run whose token and status stay the same.
LEMMA QuietStaysOver ==
  ASSUME NEW r \in Runs, token'[r] = token[r], run'[r].st = run[r].st
  PROVE  StaysOver(r)
  BY DEF StaysOver, Terminal

\* A step of one run, given what it does to that run.
LEMMA OneStaysOver ==
  ASSUME ServiceInv, NEW r \in Runs, NEW u, NEW k, Put(run, run', r, u), Put(token, token', r, k),
         run'[r] = u /\ token'[r] = k => StaysOver(r)
  PROVE  \A q \in Runs : StaysOver(q)
<1> SUFFICES ASSUME NEW q \in Runs PROVE StaysOver(q)
  OBVIOUS
<1>1. run \in [Runs -> Record] /\ token \in [Runs -> BOOLEAN]
  BY DEF ServiceInv, Shape
<1>2. run'[r] = u /\ token'[r] = k
  BY <1>1 DEF Put
<1>3. q # r => run'[q] = run[q] /\ token'[q] = token[q]
  BY <1>1 DEF Put
<1> QED
  BY <1>2, <1>3, QuietStaysOver

\* The transitions of _execute are those of a run that is not over, or was
\* cancelled while it was active.
LEMMA LeaveStaysOver ==
  ASSUME ServiceInv, NEW r \in Runs, NEW st, NEW pc, Leave(r, st, pc), token' = token,
         run[r].st \in Terminal => st = run[r].st \/ (token[r] /\ run[r].st = "cancelled" /\ Holds(r)),
         st # "gone"
  PROVE  \A q \in Runs : StaysOver(q)
<1>1. CASE Known(r)
  <2>1. Put(run, run', r, [run[r] EXCEPT !.st = st]) /\ Put(token, token', r, token[r])
    BY <1>1 DEF Leave, Transition, Put
  <2>2. [run[r] EXCEPT !.st = st].st = st
    <3>1. run[r] \in Record
      BY DEF ServiceInv, Shape
    <3> QED
      BY <3>1 DEF Record
  <2>3. run'[r] = [run[r] EXCEPT !.st = st] /\ token'[r] = token[r] => StaysOver(r)
    BY <2>2 DEF StaysOver
  <2> QED
    BY <2>1, <2>3, OneStaysOver
<1>2. CASE ~Known(r)
  BY <1>2, QuietStaysOver DEF Leave
<1> QED
  BY <1>1, <1>2

\* A task whose run is over finds it cancelled.
LEMMA ExecuteStaysOver ==
  ASSUME ServiceInv, NEW r \in Runs, ExecuteStep(r)
  PROVE  \A q \in Runs : StaysOver(q)
<1>1. /\ run[r].st \in {"succeeded", "failed"} => task[r] \in {"ending", "done"}
      /\ run[r].st = "cancelled" => token[r]
  BY Slice DEF Fit, Truthful
<1>2. CASE ExecuteStarts(r)
  <2>1. PICK st, pc : Leave(r, st, pc) /\ (IF token[r] THEN st = "cancelled" /\ pc = "ending"
                                           ELSE st = "running" /\ pc = "starting")
    BY <1>2 DEF ExecuteStarts
  <2>2. run[r].st \in Terminal => st = run[r].st
    BY <1>1, <1>2, <2>1 DEF ExecuteStarts, Terminal
  <2> QED
    BY <1>2, <2>1, <2>2, LeaveStaysOver DEF ExecuteStarts
<1>3. CASE RunnerReturned(r) \/ Finalized(r)
  <2>1. /\ Holds(r) /\ token' = token
        /\ run[r].st \in Terminal => token[r] /\ run[r].st = "cancelled"
    BY <1>1, <1>3 DEF RunnerReturned, Finalized, Holds, Terminal
  <2>2. \/ \E st \in Terminal : Leave(r, st, "ending")
        \/ UNCHANGED run
    BY <1>3 DEF RunnerReturned, Finalized, Terminal
  <2>3. CASE \E st \in Terminal : Leave(r, st, "ending")
    BY <2>1, <2>3, LeaveStaysOver DEF Terminal
  <2>4. CASE UNCHANGED run
    BY <2>1, <2>4, QuietStaysOver
  <2> QED
    BY <2>2, <2>3, <2>4
<1> QED
  BY <1>2, <1>3 DEF ExecuteStep

\* The two halves of a cancel(): the first sets the token of a run that is
\* active, the second overrules its task.
LEMMA CancelStaysOver ==
  ASSUME ServiceInv, NEW r \in Runs, NEW x \in Callers, CancelStep(r, x)
  PROVE  \A q \in Runs : StaysOver(q)
<1>1. CASE CancelBegins(r, x)
  <2>1. UNCHANGED run
    BY <1>1 DEF CancelBegins
  <2>2. PICK k : Put(token, token', r, k) /\ (k = token[r] \/ run[r].st \in Active)
    BY <1>1 DEF CancelBegins, Put
  <2>3. Put(run, run', r, run[r])
    BY <2>1 DEF Put
  <2>4. run'[r] = run[r] /\ token'[r] = k => StaysOver(r)
    BY <2>2 DEF StaysOver, Terminal
  <2> QED
    BY <2>2, <2>3, <2>4, OneStaysOver
<1>2. CASE CancelMarks(r, x)
  <2>1. cancels[r][x] = "mark" /\ token[r] /\ token' = token
    BY <1>2, Slice DEF CancelMarks, Fit, Cancelled
  <2>2. CASE UNCHANGED run
    BY <2>1, <2>2, QuietStaysOver
  <2>3. CASE run' = [run EXCEPT ![r].st = "cancelled"]
    <3>1. Put(run, run', r, [run[r] EXCEPT !.st = "cancelled"]) /\ Put(token, token', r, token[r])
      BY <2>1, <2>3 DEF Put
    <3>2. [run[r] EXCEPT !.st = "cancelled"].st = "cancelled"
      <4>1. run[r] \in Record
        BY DEF ServiceInv, Shape
      <4> QED
        BY <4>1 DEF Record
    <3>3. run'[r] = [run[r] EXCEPT !.st = "cancelled"] /\ token'[r] = token[r] => StaysOver(r)
      BY <2>1, <3>2 DEF StaysOver
    <3> QED
      BY <3>1, <3>3, OneStaysOver
  <2> QED
    BY <1>2, <2>2, <2>3 DEF CancelMarks, Transition
<1> QED
  BY <1>1, <1>2 DEF CancelStep

\* Submission: the run was not over, and a discarded one was never answered.
LEMMA SubmissionStaysOver ==
  ASSUME ServiceInv, NEW r \in Runs, Submit(r) \/ Persisted(r) \/ PersistFails(r)
  PROVE  \A q \in Runs : StaysOver(q)
<1>1. PICK u : /\ Put(run, run', r, u) /\ token' = token
               /\ \/ scorer[r] = "idle"
                  \/ u.st = run[r].st
                  \/ scorer[r] = "submitting" /\ u.st = "gone"
  <2>1. run[r] \in Record
    BY DEF ServiceInv, Shape
  <2>2. CASE Submit(r)
    BY <2>2 DEF Submit, Put, execVars
  <2>3. CASE Persisted(r)
    <3>1. [run[r] EXCEPT !.disk = "queued"].st = run[r].st
      BY <2>1 DEF Record
    <3> QED
      BY <2>3, <3>1 DEF Persisted, Put
  <2>4. CASE PersistFails(r)
    <3>1. Discarded(run[r]).st = "gone"
      BY <2>1 DEF Discarded, Record
    <3> QED
      BY <2>4, <3>1 DEF PersistFails, Put, execVars
  <2> QED
    BY <2>2, <2>3, <2>4
<1>2. scorer[r] = "idle" => run[r].st = "none"
  BY Slice DEF Fit, Cancelled
<1>3. run'[r] = u /\ token'[r] = token[r] => StaysOver(r)
  BY <1>1, <1>2 DEF StaysOver, Terminal
<1>4. Put(token, token', r, token[r])
  BY <1>1 DEF Put
<1> QED
  BY <1>1, <1>3, <1>4, OneStaysOver

\* The prune task discards what is too many, and no run that was being read
\* when it was chosen.
LEMMA PruneStaysOver ==
  ASSUME ServiceInv, PruneScans \/ PruneSweeps
  PROVE  \A q \in Runs : StaysOver(q)
<1> SUFFICES ASSUME NEW q \in Runs PROVE StaysOver(q)
  OBVIOUS
<1>1. /\ run \in [Runs -> Record] /\ prune \in PruneType /\ token' = token
  BY DEF ServiceInv, Shape, PruneType, PruneScans, PruneSweeps, execVars
<1>2. CASE PruneScans
  <2>1. CASE UNCHANGED run
    BY <1>1, <2>1, QuietStaysOver
  <2>2. ASSUME NEW v \in MayExpire, run[v].readers = 0, Count(Terminal) > MaxStoredRuns,
               run' = [run EXCEPT ![v] = Discarded(run[v])]
        PROVE  StaysOver(q)
    <3>1. v \in Runs
      BY DEF MayExpire
    <3>2. Discarded(run[v]) \in Record /\ Discarded(run[v]).st = "gone"
      BY <1>1, <3>1 DEF Discarded, Record, Status
    <3>3. IF q = v THEN run'[q].st = "gone" ELSE run'[q] = run[q]
      BY <1>1, <2>2, <3>1, <3>2
    <3> QED
      BY <1>1, <2>2, <3>3, QuietStaysOver DEF StaysOver
  <2> QED
    BY <1>2, <2>1, <2>2 DEF PruneScans
<1>3. CASE PruneSweeps
  <2> DEFINE g == [r \in Runs |-> IF r \in prune.removing THEN [run[r] EXCEPT !.disk = "none"]
                                  ELSE run[r]]
  <2>1. \A r \in Runs : g[r] \in Record /\ g[r].st = run[r].st
    <3>1. \A r \in Runs : run[r] \in Record
      BY <1>1
    <3>2. \A r \in Runs : /\ [run[r] EXCEPT !.disk = "none"] \in Record
                          /\ [run[r] EXCEPT !.disk = "none"].st = run[r].st
      BY <3>1 DEF Record, Status
    <3> QED
      BY <3>1, <3>2
  <2>2. g = [r \in Runs |-> g[r]]
    OBVIOUS
  <2>3. \/ run' = g
        \/ \E v \in prune.left : run' = [g EXCEPT ![v] = Discarded(g[v])]
    BY <1>3 DEF PruneSweeps
  <2> HIDE DEF g
  <2>4. CASE run' = g
    BY <1>1, <2>1, <2>4, QuietStaysOver
  <2>5. ASSUME NEW v \in prune.left, run' = [g EXCEPT ![v] = Discarded(g[v])]
        PROVE  StaysOver(q)
    <3>1. v \in Runs
      BY <1>1 DEF PruneType
    <3>2. Discarded(g[v]).st = "gone"
      BY <2>1, <3>1 DEF Discarded, Record
    <3>3. IF q = v THEN run'[q].st = "gone" ELSE run'[q].st = run[q].st
      BY <2>1, <2>2, <2>5, <3>1, <3>2
    <3>4. server = "up" => Count(Terminal) > MaxStoredRuns
      <4> SUFFICES ASSUME server = "up" PROVE Count(Terminal) > MaxStoredRuns
        OBVIOUS
      <4>1. prune.left \in SUBSET Runs /\ With(Terminal) \in SUBSET Runs /\ prune.pc = "sweep"
        BY <1>1, <1>3 DEF PruneType, With, PruneSweeps
      <4>2. /\ IsFiniteSet(prune.left) /\ Cardinality(prune.left) \in Nat
            /\ Cardinality(With(Terminal)) \in Nat /\ MaxStoredRuns \in Nat
        BY <4>1, SetsCounted, SweBenchAssumption
      <4>3. Cardinality(prune.left) # 0
        BY <4>2, FS_EmptySet
      <4>4. Cardinality(prune.left) + MaxStoredRuns <= Cardinality(With(Terminal))
        BY <4>1 DEF ServiceInv, Pruning
      <4>5. Count(Terminal) = Cardinality(With(Terminal))
        BY DEF Count, With
      <4> QED
        BY <4>2, <4>3, <4>4, <4>5
    <3> QED
      BY <1>1, <2>5, <3>3, <3>4, QuietStaysOver DEF StaysOver
  <2> QED
    BY <2>3, <2>4, <2>5
<1> QED
  BY <1>2, <1>3

\* No step disturbs a run that is over.
LEMMA StepStaysOver ==
  ASSUME ServiceInv, Next
  PROVE  \A q \in Runs : StaysOver(q)
<1>1. ASSUME NEW r \in Runs, Submit(r) \/ Persisted(r) \/ PersistFails(r) \/ ExecuteStep(r)
      PROVE  \A q \in Runs : StaysOver(q)
  BY <1>1, SubmissionStaysOver, ExecuteStaysOver
<1>2. ASSUME NEW r \in Runs, NEW k \in Callers, CancelStep(r, k)
      PROVE  \A q \in Runs : StaysOver(q)
  BY <1>2, CancelStaysOver
<1>3. CASE PruneScans \/ PruneSweeps
  BY <1>3, PruneStaysOver
<1>4. ASSUME NEW r \in Runs, JobStep(r) \/ SubprocessExits(r)
      PROVE  UNCHANGED <<run, token>>
  BY <1>4 DEF JobStep, JobFails, JobSpawns, JobAttaches, JobPolls, JobCleans, SubprocessExits, Job
<1>5. ASSUME NEW r \in Runs, Rejected(r) \/ Poll(r) \/ PollFails(r) \/ GivesUp(r) \/ Scores(r)
      PROVE  UNCHANGED <<run, token>>
  BY <1>5 DEF Rejected, Poll, PollFails, GivesUp, Scores, execVars
<1>6. CASE ShutdownBegins \/ ShutdownGathers \/ ShutdownEnds
  BY <1>6, QuietStaysOver DEF ShutdownBegins, ShutdownGathers, ShutdownEnds, execVars
<1>7. ASSUME NEW r \in Runs, ReadsArtifact(r) \/ ArtifactRead(r) \/ WriteStatus(r)
      PROVE  \A q \in Runs : StaysOver(q)
  <2>1. token' = token /\ run[r] \in Record
    BY <1>7 DEF ServiceInv, Shape, ReadsArtifact, ArtifactRead, WriteStatus, execVars
  <2>2. PICK n, d : \/ run' = [run EXCEPT ![r].readers = n]
                    \/ run' = [run EXCEPT ![r].disk = d]
                    \/ run' = [run EXCEPT ![r].lost = TRUE]
    BY <1>7 DEF ReadsArtifact, ArtifactRead, WriteStatus
  <2>3. /\ [run[r] EXCEPT !.readers = n].st = run[r].st
        /\ [run[r] EXCEPT !.disk = d].st = run[r].st
        /\ [run[r] EXCEPT !.lost = TRUE].st = run[r].st
    BY <2>1 DEF Record
  <2>4. PICK u : Put(run, run', r, u) /\ u.st = run[r].st
    BY <2>2, <2>3 DEF Put
  <2>5. run'[r] = u /\ token'[r] = token[r] => StaysOver(r)
    BY <2>4, QuietStaysOver
  <2> QED
    BY <2>1, <2>4, <2>5, OneStaysOver DEF Put
<1> QED
  BY <1>1, <1>2, <1>3, <1>4, <1>5, <1>6, <1>7, QuietStaysOver DEF Next

-----------------------------------------------------------------------------
(***************************************************************************)
(* The theorems                                                            *)
(***************************************************************************)

\* However scorers, tasks, runner threads, cancels, writes, prune task and
\* shutdown interleave, the service holds the inductive invariant.
THEOREM ServiceKeepsItsRuns == Spec => []ServiceInv
<1>1. Init => ServiceInv
  BY ServiceInvInit
<1>2. ServiceInv /\ [Next]_vars => ServiceInv'
  BY ServiceInvStep
<1> QED
  BY <1>1, <1>2, PTL DEF Spec

\* At no time are more runners at work than max_concurrent_runs, none outlives
\* a completed shutdown, a status says what happened whoever set it last, and
\* status.json agrees with it when no write is queued or was lost.
THEOREM ServiceTruthful == Spec => []ServiceIsTruthful
<1>1. ServiceInv => ServiceIsTruthful
  BY CapacityFollows, ShutdownFollows, StatusFollows DEF ServiceIsTruthful, RunnersAreContained
<1> QED
  BY <1>1, ServiceKeepsItsRuns, PTL

\* A run that is over is changed by a cancel accepted before and by the prune
\* task only, and the latter keeps max_stored_runs of them and waits for those
\* that read one.
THEOREM OverRunsStayOver == Spec => OverStaysOver
<1>1. ServiceInv /\ [Next]_vars => [\A r \in Runs : StaysOver(r)]_vars
  BY StepStaysOver
<1> QED
  BY <1>1, ServiceKeepsItsRuns, PTL DEF Spec, OverStaysOver, StaysOver

=============================================================================
