------------------------ MODULE WorkerStartup_proofs ------------------------
(***************************************************************************)
(* Machine-checked proofs about WorkerStartup, for every finite set of     *)
(* workers and every initialization timeout; and about EndpointClient, the *)
(* client that starts and stops those workers, for every number of them,   *)
(* of queries and of programs that a process runs.                         *)
(***************************************************************************)
EXTENDS WorkerStartup, EndpointClient, Sequences, FiniteSetTheorems, FunctionTheorems,
        SequenceTheorems, NaturalsInduction, WellFoundedInduction, TLAPS

\* wait() counts signals; since no worker signals twice, counting `count` of
\* them means hearing from every worker.
LEMMA EnoughIsAll ==
  ASSUME NEW ids \in SUBSET Worker, Enough(ids)
  PROVE  ids = Worker
<1>1. IsFiniteSet(Worker)
  BY StartupAssumption
<1>2. IsFiniteSet(ids) /\ Cardinality(ids) <= Cardinality(Worker)
  BY <1>1, FS_Subset
<1>3. Cardinality(ids) \in Nat /\ Cardinality(Worker) \in Nat
  BY <1>1, <1>2, FS_CardinalityType
<1>4. Cardinality(ids) = Cardinality(Worker)
  BY <1>2, <1>3 DEF Enough
<1> QED
  BY <1>1, <1>4, FS_Subset

\* Failing leaves no process behind: it either enters the grace period or
\* there was none.
LEMMA FailOutcome ==
  ASSUME NEW why, Fail(why)
  PROVE  /\ cause' = why
         /\ pc' \in {"raised", "grace"}
         /\ pc' = "raised" => \A w \in Worker : worker[w] = "none"
  BY DEF Fail

\* A turn of the wait loop either fails or waits within the time budget.
LEMMA AttemptOutcome ==
  ASSUME cause \in {"none", "spawn", "died", "timeout", "cancelled"},
         NEW n, NEW procs, Attempt(n, procs)
  PROVE  /\ cause' \in {"none", "spawn", "died", "timeout", "cancelled"}
         /\ identities' = {}
         /\ pc' \in {"raised", "grace", "waiting"}
         /\ pc' = "raised" => \A w \in Worker : worker[w] = "none"
         /\ pc' = "waiting" => ~(intervals > 0 /\ n >= intervals)
<1>1. CASE Fail("died")
  BY <1>1, FailOutcome DEF Attempt
<1>2. CASE Fail("timeout")
  BY <1>2, FailOutcome DEF Attempt
<1>3. CASE pc' = "waiting" /\ UNCHANGED cause
             /\ ~(intervals > 0 /\ n >= intervals)
  BY <1>3 DEF Attempt
<1> QED
  BY <1>1, <1>2, <1>3 DEF Attempt

\* Every step preserves the invariant.
LEMMA InvariantStep ==
  ASSUME IInv, [Next]_vars
  PROVE  IInv'
<1> USE DEF IInv
<1>1. ASSUME NEW w \in Worker, Spawn(w)
      PROVE  IInv'
  <2> DEFINE procs == [worker EXCEPT ![w] = "starting"]
  <2>1. worker' = procs
        /\ UNCHANGED <<intervals, signalled, queue, attempts, sock>>
    BY <1>1 DEF Spawn
  <2>2. worker' \in [Worker -> {"none", "starting", "ready", "dead"}]
    BY <2>1 DEF TypeOK
  <2>3. attempts = 0 /\ intervals \in Nat
    BY <1>1, StartupAssumption DEF Spawn, BudgetLeft, TypeOK
  <2>4. CASE UNCHANGED <<pc, cause, identities>>
    BY <1>1, <2>1, <2>2, <2>4
       DEF Spawn, TypeOK, BudgetLeft, ReadyMeansAllSignalled, NoWorkerLeftBehind
  <2>5. CASE Attempt(0, procs)
    <3>1. /\ cause' \in {"none", "spawn", "died", "timeout", "cancelled"}
          /\ identities' = {}
          /\ pc' \in {"raised", "grace", "waiting"}
      BY <2>5, AttemptOutcome DEF TypeOK
    <3>2. pc' # "raised"
      <4>1. Fail("died") \/ Fail("timeout") => pc' = "grace" \/ \A v \in Worker : worker[v] = "none"
        BY DEF Fail
      <4>2. CASE \A v \in Worker : worker[v] = "none"
        <5>1. \A v \in Worker : procs[v] # "dead"
          BY <4>2 DEF TypeOK
        <5>2. ~Dead(procs)
          BY <5>1 DEF Dead
        <5>3. ~(intervals > 0 /\ 0 >= intervals)
          BY <2>3
        <5> QED
          BY <2>5, <5>2, <5>3 DEF Attempt
      <4> QED
        BY <2>5, <4>1, <4>2 DEF Attempt
    <3> QED
      BY <2>1, <2>2, <2>3, <3>1, <3>2
         DEF TypeOK, BudgetLeft, ReadyMeansAllSignalled, NoWorkerLeftBehind
  <2> QED
    BY <1>1, <2>4, <2>5 DEF Spawn
<1>2. CASE SpawnFails
  BY <1>2, FailOutcome DEF SpawnFails, TypeOK, BudgetLeft,
     ReadyMeansAllSignalled, NoWorkerLeftBehind, alive
<1>3. ASSUME NEW w \in Worker, ReceiveSignal(w)
      PROVE  IInv'
  <2>1. /\ queue' \in SUBSET signalled /\ identities' \in SUBSET signalled
        /\ identities' \in SUBSET Worker
        /\ UNCHANGED <<intervals, cause, worker, signalled, attempts>>
    BY <1>3 DEF ReceiveSignal, TypeOK
  <2>2. CASE Enough(identities') /\ pc' = "ready" /\ sock' = FALSE
    <3>1. signalled' = Worker
      BY <2>1, <2>2, EnoughIsAll DEF TypeOK
    <3> QED
      BY <2>1, <2>2, <3>1 DEF TypeOK, BudgetLeft, ReadyMeansAllSignalled,
                              NoWorkerLeftBehind
  <2>3. CASE UNCHANGED <<pc, sock>>
    BY <1>3, <2>1, <2>3 DEF ReceiveSignal, TypeOK, BudgetLeft,
                            ReadyMeansAllSignalled, NoWorkerLeftBehind
  <2> QED
    BY <1>3, <2>2, <2>3 DEF ReceiveSignal
<1>4. CASE WaitTimesOut
  <2>1. /\ cause' \in {"none", "spawn", "died", "timeout", "cancelled"}
        /\ identities' = {}
        /\ pc' \in {"raised", "grace", "waiting"}
        /\ pc' = "raised" => \A w \in Worker : worker[w] = "none"
        /\ pc' = "waiting" => ~(intervals > 0 /\ attempts' >= intervals)
    BY <1>4, AttemptOutcome DEF WaitTimesOut, TypeOK
  <2>2. attempts' \in 0..intervals /\ intervals \in Nat
    BY <1>4, StartupAssumption DEF WaitTimesOut, TypeOK, BudgetLeft
  <2>3. UNCHANGED <<intervals, worker, signalled, queue, sock>>
    BY <1>4 DEF WaitTimesOut
  <2>4. TypeOK' /\ BudgetLeft'
    BY <2>1, <2>2, <2>3 DEF TypeOK, BudgetLeft
  <2> QED
    BY <2>1, <2>3, <2>4 DEF ReadyMeansAllSignalled, NoWorkerLeftBehind, alive
<1>5. CASE Cancel
  BY <1>5, FailOutcome DEF Cancel, TypeOK, BudgetLeft,
     ReadyMeansAllSignalled, NoWorkerLeftBehind, alive
<1>6. CASE Shutdown
  BY <1>6 DEF Shutdown, TypeOK, BudgetLeft, ReadyMeansAllSignalled,
              NoWorkerLeftBehind
<1>7. CASE GraceOver
  <2>1. /\ worker' = [w \in Worker |-> Killed(w)] /\ pc' \in {"stopped", "raised"}
        /\ UNCHANGED <<intervals, cause, signalled, queue, identities,
                       attempts>>
        /\ sock' \in BOOLEAN
    BY <1>7 DEF GraceOver
  <2>2. \A w \in Worker : Killed(w) \in {"none", "dead"}
    BY DEF Killed, alive, TypeOK
  <2>3. worker' \in [Worker -> {"none", "starting", "ready", "dead"}]
        /\ \A w \in Worker : worker'[w] \in {"none", "dead"}
    BY <2>1, <2>2
  <2> QED
    BY <2>1, <2>3 DEF TypeOK, BudgetLeft, ReadyMeansAllSignalled,
                      NoWorkerLeftBehind, alive
<1>8. CASE CancelShutdown
  BY <1>8 DEF CancelShutdown, TypeOK, BudgetLeft, ReadyMeansAllSignalled,
               NoWorkerLeftBehind
<1>9. ASSUME NEW w \in Worker, SendReady(w)
      PROVE  IInv'
  <2>1. worker' \in [Worker -> {"none", "starting", "ready", "dead"}]
    BY <1>9 DEF SendReady, TypeOK
  <2>2. /\ signalled \subseteq signalled' /\ signalled' \subseteq Worker
        /\ queue' \subseteq signalled'
        /\ UNCHANGED <<intervals, pc, cause, identities, attempts, sock>>
    BY <1>9 DEF SendReady, TypeOK
  <2>3. pc \notin {"raised", "stopped"}
    BY <1>9 DEF SendReady, NoWorkerLeftBehind, alive
  <2> QED
    BY <2>1, <2>2, <2>3 DEF TypeOK, BudgetLeft, ReadyMeansAllSignalled,
                            NoWorkerLeftBehind
<1>10. ASSUME NEW w \in Worker, Exit(w)
      PROVE  IInv'
  <2>1. worker' \in [Worker -> {"none", "starting", "ready", "dead"}]
        /\ UNCHANGED <<intervals, pc, cause, signalled, queue, identities,
                       attempts, sock>>
    BY <1>10 DEF Exit, TypeOK
  <2>2. pc \notin {"raised", "stopped"}
    BY <1>10 DEF Exit, NoWorkerLeftBehind
  <2> QED
    BY <2>1, <2>2 DEF TypeOK, BudgetLeft, ReadyMeansAllSignalled,
                      NoWorkerLeftBehind
<1>11. CASE UNCHANGED vars
  BY <1>11 DEF vars, TypeOK, BudgetLeft, ReadyMeansAllSignalled,
               NoWorkerLeftBehind, alive
<1> QED
  BY <1>1, <1>2, <1>3, <1>4, <1>5, <1>6, <1>7, <1>8, <1>9, <1>10, <1>11
     DEF Next, Manager, Terminated

\* The invariant holds in every reachable state.
THEOREM InvariantHolds == Spec => []IInv
<1>1. Init => IInv
  BY StartupAssumption DEF Init, IInv, TypeOK, BudgetLeft,
     ReadyMeansAllSignalled, NoWorkerLeftBehind
<1>2. IInv /\ [Next]_vars => IInv'
  BY InvariantStep
<1> QED
  BY <1>1, <1>2, PTL DEF Spec

\* The readiness barrier never opens before every worker signalled, for any
\* number of workers and however many wait attempts timed out.
THEOREM BarrierIsSound == Spec => []ReadyMeansAllSignalled
<1>1. IInv => ReadyMeansAllSignalled
  BY DEF IInv
<1> QED
  BY <1>1, InvariantHolds, PTL

\* A failed initialize() and a finished shutdown() leave no worker running.
THEOREM NoOrphans == Spec => []NoWorkerLeftBehind
<1>1. IInv => NoWorkerLeftBehind
  BY DEF IInv
<1> QED
  BY <1>1, InvariantHolds, PTL

-----------------------------------------------------------------------------
(***************************************************************************)
(* The client as a whole: its invariant is a conjunction of what the state *)
(* says of the two contexts and the directory (Placed), of the loops       *)
(* (Looped), of the queries (Shared) and of the probe (Accounted).         *)
(***************************************************************************)
SocketName == {"pub", "sub", "req", "resp", "ready", "signal"}
NameOfLoop == Nat
Programs == {"idle", "setup", "starting", "running", "drained", "issuing", "waiting",
             "judged", "closing", "leaving"}

Context ==
  [init : BOOLEAN, open : BOOLEAN, dir : Nat, tmp : BOOLEAN, socks : SUBSET SocketName]
LoopTable == UNION {[D -> {"running", "stopping"}] : D \in SUBSET NameOfLoop}
ClientState ==
  [pool : Nat, loop : NameOfLoop, shutdown : BOOLEAN, open : BOOLEAN, next : Nat,
   sent : Seq(Nat), dropped : Nat]
ProbeState ==
  [todo : SUBSET Nat, sent : SUBSET Nat, received : SUBSET Nat, good : SUBSET Nat,
   errors : SUBSET (Nat \X {"issue", "answer", "timeout"}), late : BOOLEAN,
   verdict : {"none", "failed", "successful"}]

EpState ==
  [pc : Programs, kind : {"none", "bench", "probe"}, runs : Nat,
   leaked : BOOLEAN, main : Context, worker : Context, alive : BOOLEAN,
   disk : SUBSET Nat, owns : BOOLEAN, loops : LoopTable, client : ClientState,
   lost : Nat, probe : ProbeState]

\* A client exists.
Active(e) ==
  e.pc \in {"starting", "running", "drained", "issuing", "waiting", "judged", "closing"}

Placed(e) ==
  /\ e.runs <= MaxPrograms
  /\ e.pc # "idle" => e.kind \in {"bench", "probe"} /\ e.runs >= 1
  /\ e.pc \in {"running", "drained"} => e.kind = "bench"
  /\ e.pc \in {"issuing", "waiting", "judged"} => e.kind = "probe"
  /\ e.client.open <=> Active(e)
  /\ IF Active(e) \/ (e.pc = "setup" /\ e.kind = "bench")
     THEN e.main.init /\ e.main.dir # NoDir /\ e.main.tmp /\ e.disk = {e.main.dir}
     ELSE e.main = NoContext /\ e.disk = {}
  /\ Active(e) => {"req", "resp"} \subseteq e.main.socks
  /\ e.kind = "bench" /\ e.pc \notin {"idle", "leaving"} => {"pub", "sub"} \subseteq e.main.socks
  /\ e.alive => Active(e) /\ e.worker.dir = e.main.dir
  /\ ~e.worker.tmp

Looped(e) ==
  /\ DefaultLoop \in DOMAIN e.loops /\ e.loops[DefaultLoop] = "running"
  /\ \A n \in DOMAIN e.loops :
       \/ n = DefaultLoop \/ e.loops[n] = "stopping" \/ e.leaked
       \/ e.kind = "probe" /\ Active(e) /\ n = e.client.loop
  /\ e.kind = "probe" /\ Active(e) => e.client.loop # DefaultLoop

\* The workers before the next one have one query more than the others.
RoundRobin(c) ==
  /\ c.next \in 1..c.pool /\ Len(c.sent) = c.pool
  /\ \A w \in 1..c.pool :
       c.sent[w] = c.sent[c.pool] + (IF w < c.next THEN 1 ELSE 0)

Shared(e) ==
  /\ e.lost = 0
  /\ e.client.pool = 0 \/ RoundRobin(e.client)
  /\ Active(e) => e.client.pool # 0

\* Which of a probe's requests have which error.
Errors(p, kind) == {q \in Nat : <<q, kind>> \in p.errors}

Probed(p) ==
  /\ IsFiniteSet(p.sent) /\ IsFiniteSet(Errors(p, "issue"))
  /\ p.good \subseteq p.received /\ p.received \subseteq p.sent
  /\ p.todo \cap (p.sent \cup Errors(p, "issue")) = {}
  /\ p.sent \cap Errors(p, "issue") = {}
  /\ Errors(p, "answer") = p.received \ p.good
  /\ Errors(p, "timeout") = IF p.verdict = "none" THEN {} ELSE p.sent \ p.received

Counted(p) == Cardinality(Errors(p, "issue")) + Cardinality(p.sent)

Accounted(e) ==
  /\ Probed(e.probe)
  /\ e.kind = "probe" /\ e.pc \in {"setup", "starting", "issuing", "waiting"} =>
       e.probe.verdict = "none"
  /\ e.probe.verdict = "successful" => 2 * Cardinality(e.probe.good) >= Counted(e.probe)
  /\ e.probe.verdict = "failed" => 2 * Cardinality(e.probe.good) <= Counted(e.probe)

ClientInv == ep \in EpState /\ Placed(ep) /\ Looped(ep) /\ Shared(ep) /\ Accounted(ep)

\* Every non-empty set of numbers has a smallest element.
LEMMA SmallestNat ==
  ASSUME NEW T, T \subseteq Nat, T # {}
  PROVE  \E x \in T : \A y \in T : ~(y < x)
<1> DEFINE Less == {p \in Nat \X Nat : p[1] < p[2]}
<1>1. Less = OpToRel(<, Nat)
  BY Zenon DEF OpToRel
<1>2. IsWellFoundedOn(Less, Nat)
  BY <1>1, NatLessThanWellFounded, Zenon
<1>3. \E x \in T : \A y \in T : ~(<<y, x>> \in Less)
  <2> HIDE DEF Less
  <2> QED
    BY <1>2, WFMin, Zenon
<1>4. \A x, y \in T : y < x => <<y, x>> \in Less
  BY SMT
<1> HIDE DEF Less
<1> QED
  BY <1>3, <1>4, Zenon

\* A table of loops.
LEMMA LoopTables ==
  ASSUME NEW f
  PROVE  f \in LoopTable <=> \E D \in SUBSET NameOfLoop : f \in [D -> {"running", "stopping"}]
  BY Zenon DEF LoopTable

LEMMA LoopTableFacts ==
  ASSUME NEW f \in LoopTable
  PROVE  /\ DOMAIN f \subseteq NameOfLoop
         /\ \A n \in DOMAIN f : f[n] \in {"running", "stopping"}
         /\ f \in [DOMAIN f -> {"running", "stopping"}]
<1>1. PICK D \in SUBSET NameOfLoop : f \in [D -> {"running", "stopping"}]
  BY LoopTables
<1> QED
  BY <1>1

LEMMA CreatedLoop ==
  ASSUME NEW f \in LoopTable, NEW name \in NameOfLoop
  PROVE  /\ CreateLoop(f, name) \in LoopTable
         /\ DOMAIN CreateLoop(f, name) = DOMAIN f \cup {name}
         /\ \A n \in DOMAIN f : CreateLoop(f, name)[n] = f[n]
<1> DEFINE g == CreateLoop(f, name)
           E == DOMAIN f \cup {name}
<1>1. DOMAIN f \subseteq NameOfLoop /\ \A n \in DOMAIN f : f[n] \in {"running", "stopping"}
  BY LoopTableFacts
<1>2. g \in [E -> {"running", "stopping"}]
  BY <1>1 DEF CreateLoop
<1>3. E \in SUBSET NameOfLoop
  BY <1>1
<1> QED
  BY <1>2, <1>3, LoopTables DEF CreateLoop

LEMMA StoppedLoop ==
  ASSUME NEW f \in LoopTable, NEW name
  PROVE  /\ StopLoop(f, name) \in LoopTable
         /\ DOMAIN StopLoop(f, name) = DOMAIN f
         /\ \A n \in DOMAIN f : StopLoop(f, name)[n] = IF n = name THEN "stopping" ELSE f[n]
<1>1. /\ DOMAIN f \in SUBSET NameOfLoop
      /\ f \in [DOMAIN f -> {"running", "stopping"}]
  BY LoopTableFacts
<1>2. StopLoop(f, name) \in [DOMAIN f -> {"running", "stopping"}]
  BY <1>1 DEF StopLoop
<1>3. StopLoop(f, name) \in LoopTable
  BY <1>1, <1>2, LoopTables
<1> QED
  BY <1>1, <1>2, <1>3 DEF StopLoop

LEMMA DeletedLoop ==
  ASSUME NEW f \in LoopTable, NEW name
  PROVE  /\ DelLoop(f, name) \in LoopTable
         /\ DOMAIN DelLoop(f, name) = DOMAIN f \ {name}
         /\ \A n \in DOMAIN f \ {name} : DelLoop(f, name)[n] = f[n]
<1>1. DOMAIN f \subseteq NameOfLoop /\ \A n \in DOMAIN f : f[n] \in {"running", "stopping"}
  BY LoopTableFacts
<1>2. DelLoop(f, name) \in [DOMAIN f \ {name} -> {"running", "stopping"}]
  BY <1>1 DEF DelLoop
<1>3. DOMAIN f \ {name} \in SUBSET NameOfLoop
  BY <1>1
<1> QED
  BY <1>2, <1>3, LoopTables DEF DelLoop

LEMMA ClientStarts == EpInit => ClientInv
<1> SUFFICES ASSUME EpInit PROVE ClientInv
  OBVIOUS
<1> DEFINE l == [n \in {DefaultLoop} |-> "running"]
<1>1. l \in LoopTable /\ DefaultLoop \in DOMAIN l /\ l[DefaultLoop] = "running"
      /\ \A n \in DOMAIN l : n = DefaultLoop
  <2>1. {DefaultLoop} \in SUBSET NameOfLoop
    BY DEF NameOfLoop, DefaultLoop
  <2>2. l \in [{DefaultLoop} -> {"running", "stopping"}]
    OBVIOUS
  <2> QED
    BY <2>1, <2>2, LoopTables
<1>2. NoContext \in Context /\ ~NoContext.tmp
  BY DEF NoContext, Context, NoDir
<1>3. NoClient \in ClientState /\ NoClient.pool = 0 /\ ~NoClient.open
  BY DEF NoClient, ClientState, NameOfLoop, DefaultLoop
<1>4. NoProbe \in ProbeState /\ Probed(NoProbe) /\ NoProbe.verdict = "none"
  <2>1. NoProbe \in ProbeState /\ NoProbe.verdict = "none" /\ NoProbe.errors = {}
        /\ NoProbe.sent = {} /\ NoProbe.received = {} /\ NoProbe.good = {} /\ NoProbe.todo = {}
    BY DEF NoProbe, ProbeState
  <2>2. \A k : Errors(NoProbe, k) = {}
    BY <2>1 DEF Errors
  <2> QED
    BY <2>1, <2>2, FS_EmptySet DEF Probed
<1>5. ep = [pc |-> "idle", kind |-> "none", runs |-> 0, leaked |-> FALSE,
            main |-> NoContext, worker |-> NoContext, alive |-> FALSE,
            disk |-> {}, owns |-> FALSE, loops |-> l,
            client |-> NoClient, lost |-> 0, probe |-> NoProbe]
  BY Zenon DEF EpInit, EpIdle
<1> HIDE DEF l
<1>6. ep \in EpState
  BY <1>1, <1>2, <1>3, <1>4, <1>5 DEF EpState, Programs
<1>7. /\ ep.pc = "idle" /\ ep.kind = "none" /\ ep.runs = 0 /\ ep.main = NoContext
      /\ ep.worker = NoContext /\ ep.alive = FALSE /\ ep.disk = {} /\ ep.loops = l
      /\ ep.client = NoClient /\ ep.lost = 0 /\ ep.probe = NoProbe
  BY <1>5
<1>8. Placed(ep)
  BY <1>2, <1>3, <1>7, ClientAssumption DEF Placed, Active
<1>9. Looped(ep) /\ Shared(ep) /\ Accounted(ep)
  BY <1>1, <1>3, <1>4, <1>7 DEF Looped, Shared, Accounted, Active
<1> QED
  BY <1>6, <1>8, <1>9 DEF ClientInv

\* What the operations on a context do.
LEMMA ContextFacts ==
  ASSUME NEW z \in Context, NEW names \in SUBSET SocketName, NEW fresh \in Nat \ {0}
  PROVE  LET y == Bind(Socket(ContextInit(z, NoDir), names), fresh)
         IN  /\ y \in Context
             /\ y.init /\ names \subseteq y.socks
             /\ z = NoContext => y.tmp /\ y.dir = fresh
             /\ z.init /\ z.dir # NoDir =>
                  y.dir = z.dir /\ y.tmp = z.tmp /\ z.socks \subseteq y.socks
<1> DEFINE x == ContextInit(z, NoDir)
           w == Socket(x, names)
<1>1. /\ x \in Context /\ x.init
      /\ z.init => x = z
      /\ z = NoContext => x.dir = NoDir
  BY DEF ContextInit, Context, NoContext, NoDir
<1> HIDE DEF x
<1>2. /\ w \in Context /\ w.init /\ w.dir = x.dir /\ w.tmp = x.tmp
      /\ w.socks = x.socks \cup names
  BY <1>1 DEF Socket, Context
<1> HIDE DEF w
<1>3. /\ Bind(w, fresh) \in Context /\ Bind(w, fresh).init
      /\ Bind(w, fresh).socks = w.socks
      /\ w.dir = NoDir => Bind(w, fresh).dir = fresh /\ Bind(w, fresh).tmp
      /\ w.dir # NoDir => Bind(w, fresh) = w
  BY <1>2 DEF Bind, Context
<1> QED
  BY <1>1, <1>2, <1>3 DEF w, x

LEMMA NoContextFacts ==
  /\ NoContext \in Context /\ ~NoContext.tmp /\ ~NoContext.init /\ NoContext.dir = NoDir
  /\ NoContext.socks = {}
  BY DEF NoContext, Context, NoDir

LEMMA NoClientFacts ==
  /\ NoClient \in ClientState /\ NoClient.pool = 0 /\ ~NoClient.open
  /\ NoClient.loop = DefaultLoop
  BY DEF NoClient, ClientState, NameOfLoop, DefaultLoop

LEMMA FieldTypes ==
  ASSUME ClientInv
  PROVE  /\ ep.pc \in Programs /\ ep.kind \in {"none", "bench", "probe"} /\ ep.runs \in Nat
         /\ ep.leaked \in BOOLEAN /\ ep.main \in Context /\ ep.worker \in Context
         /\ ep.alive \in BOOLEAN /\ ep.disk \in SUBSET Nat /\ ep.owns \in BOOLEAN
         /\ ep.loops \in LoopTable /\ ep.client \in ClientState /\ ep.lost \in Nat
         /\ ep.probe \in ProbeState
  BY DEF ClientInv, EpState

\* Only where the program stands changes.
LEMMA PlaceChanged ==
  ASSUME ClientInv, NEW p \in Programs, ep' = [ep EXCEPT !.pc = p]
  PROVE  /\ ep' \in EpState /\ ep'.pc = p /\ ep'.kind = ep.kind /\ ep'.runs = ep.runs
         /\ ep'.leaked = ep.leaked /\ ep'.main = ep.main /\ ep'.worker = ep.worker
         /\ ep'.alive = ep.alive /\ ep'.disk = ep.disk /\ ep'.loops = ep.loops
         /\ ep'.client = ep.client /\ ep'.lost = ep.lost /\ ep'.probe = ep.probe
  BY DEF ClientInv, EpState

LEMMA StartBenchmarkKeeps ==
  ASSUME ClientInv, StartBenchmark
  PROVE  ClientInv'
<1> DEFINE z == Bind(Socket(ContextInit(ep.main, NoDir), {"pub", "sub"}), Fresh + 1)
           r == ep.runs + 1
           o == OwnsScope(ep.main)
           d == ep.disk \cup {z.dir}
<1>1. /\ ep.pc = "idle" /\ ep.runs < MaxPrograms /\ ep.runs \in Nat
      /\ ep.main = NoContext /\ ep.disk = {} /\ ~ep.alive /\ ~ep.client.open
  BY FieldTypes DEF StartBenchmark, At, ClientInv, Placed, Active
<1>2. ep' = [ep EXCEPT !.pc = "setup", !.kind = "bench", !.runs = r,
                       !.owns = o, !.main = z, !.disk = d]
  BY Zenon DEF StartBenchmark
<1>3. r \in Nat \ {0} /\ r <= MaxPrograms
  BY <1>1, ClientAssumption
<1>4. z \in Context /\ z.init /\ z.tmp /\ z.dir = r /\ {"pub", "sub"} \subseteq z.socks
  BY <1>1, <1>3, ContextFacts, NoContextFacts DEF Fresh, SocketName
<1>5. o \in BOOLEAN
  BY DEF OwnsScope
<1>6. d \in SUBSET Nat /\ d = {z.dir}
  BY <1>1, <1>3, <1>4
<1> HIDE DEF z, r, o, d
<1>7. /\ ep' \in EpState /\ ep'.pc = "setup" /\ ep'.kind = "bench" /\ ep'.runs = r
      /\ ep'.leaked = ep.leaked /\ ep'.main = z /\ ep'.worker = ep.worker
      /\ ep'.alive = ep.alive /\ ep'.disk = d /\ ep'.loops = ep.loops
      /\ ep'.client = ep.client /\ ep'.lost = ep.lost /\ ep'.probe = ep.probe
  BY <1>2, <1>3, <1>4, <1>5, <1>6 DEF ClientInv, EpState, Programs
<1>8. Placed(ep')
  BY <1>1, <1>3, <1>4, <1>6, <1>7 DEF ClientInv, Placed, Active, NoDir
<1>9. Looped(ep') /\ Shared(ep') /\ Accounted(ep')
  BY <1>1, <1>7 DEF ClientInv, Looped, Shared, Accounted, Active
<1> QED
  BY <1>7, <1>8, <1>9 DEF ClientInv

LEMMA StartProbeKeeps ==
  ASSUME ClientInv, NEW n \in 1..MaxIssues, StartProbe(n)
  PROVE  ClientInv'
<1> DEFINE r == ep.runs + 1
           p == [NoProbe EXCEPT !.todo = 1..n]
<1>1. /\ ep.pc = "idle" /\ ep.runs < MaxPrograms /\ ep.runs \in Nat
      /\ ep.main = NoContext /\ ep.disk = {} /\ ~ep.alive /\ ~ep.client.open
  BY FieldTypes DEF StartProbe, At, ClientInv, Placed, Active
<1>2. ep' = [ep EXCEPT !.pc = "setup", !.kind = "probe", !.runs = r, !.probe = p]
  BY Zenon DEF StartProbe
<1>3. r \in Nat \ {0} /\ r <= MaxPrograms
  BY <1>1, ClientAssumption
<1>4. p \in ProbeState /\ Probed(p) /\ p.verdict = "none"
  <2> DEFINE t == 1..n
  <2>1. p \in ProbeState /\ p.verdict = "none" /\ p.errors = {}
        /\ p.sent = {} /\ p.received = {} /\ p.good = {}
    <3>1. t \in SUBSET Nat /\ p = [NoProbe EXCEPT !.todo = t]
      OBVIOUS
    <3>2. /\ NoProbe \in ProbeState /\ NoProbe.verdict = "none" /\ NoProbe.errors = {}
          /\ NoProbe.sent = {} /\ NoProbe.received = {} /\ NoProbe.good = {}
      BY DEF NoProbe, ProbeState
    <3> HIDE DEF t, p
    <3> QED
      BY <3>1, <3>2 DEF ProbeState
  <2> HIDE DEF p
  <2>2. \A k : Errors(p, k) = {}
    BY <2>1 DEF Errors
  <2> QED
    BY <2>1, <2>2, FS_EmptySet DEF Probed
<1> HIDE DEF r, p
<1>5. /\ ep' \in EpState /\ ep'.pc = "setup" /\ ep'.kind = "probe" /\ ep'.runs = r
      /\ ep'.leaked = ep.leaked /\ ep'.main = ep.main /\ ep'.worker = ep.worker
      /\ ep'.alive = ep.alive /\ ep'.disk = ep.disk /\ ep'.loops = ep.loops
      /\ ep'.client = ep.client /\ ep'.lost = ep.lost /\ ep'.probe = p
  BY <1>2, <1>3, <1>4 DEF ClientInv, EpState, Programs
<1>6. Placed(ep')
  BY <1>1, <1>3, <1>5 DEF ClientInv, Placed, Active
<1>7. Looped(ep') /\ Shared(ep') /\ Accounted(ep')
  BY <1>1, <1>4, <1>5 DEF ClientInv, Looped, Shared, Accounted, Active
<1> QED
  BY <1>5, <1>6, <1>7 DEF ClientInv

LEMMA LeaveScopeKeeps ==
  ASSUME ClientInv, LeaveScope
  PROVE  ClientInv'
<1> DEFINE m == IF ep.owns THEN Cleanup(ep.main) ELSE ep.main
           d == ep.disk \ (IF ep.owns THEN RemovedBy(ep.main) ELSE {})
<1>1. /\ ep.pc = "leaving" /\ ep.kind = "bench" /\ ep.runs >= 1 /\ ep.runs <= MaxPrograms
      /\ ep.main = NoContext /\ ep.disk = {} /\ ~ep.alive /\ ~ep.worker.tmp
  BY FieldTypes DEF LeaveScope, At, ClientInv, Placed, Active
<1>2. ep' = [ep EXCEPT !.pc = "idle", !.owns = FALSE, !.client = NoClient,
                       !.main = m, !.disk = d]
  BY Zenon DEF LeaveScope
<1>3. m = NoContext /\ d = {}
  BY <1>1 DEF Cleanup
<1> HIDE DEF m, d
<1>4. /\ ep' \in EpState /\ ep'.pc = "idle" /\ ep'.kind = ep.kind /\ ep'.runs = ep.runs
      /\ ep'.leaked = ep.leaked /\ ep'.main = NoContext /\ ep'.worker = ep.worker
      /\ ep'.alive = ep.alive /\ ep'.disk = {} /\ ep'.loops = ep.loops
      /\ ep'.client = NoClient /\ ep'.lost = ep.lost /\ ep'.probe = ep.probe
  BY <1>2, <1>3, NoClientFacts, NoContextFacts DEF ClientInv, EpState, Programs
<1>5. Placed(ep')
  BY <1>1, <1>4, NoClientFacts DEF Placed, Active
<1>6. Looped(ep') /\ Shared(ep') /\ Accounted(ep')
  BY <1>1, <1>4, NoClientFacts DEF ClientInv, Looped, Shared, Accounted, Active
<1> QED
  BY <1>4, <1>5, <1>6 DEF ClientInv

LEMMA LeaveProbeKeeps ==
  ASSUME ClientInv, LeaveProbe
  PROVE  ClientInv'
<1>1. /\ ep.pc = "leaving" /\ ep.kind = "probe" /\ ep.runs >= 1 /\ ep.runs <= MaxPrograms
      /\ ep.main = NoContext /\ ep.disk = {} /\ ~ep.alive /\ ~ep.worker.tmp
  BY FieldTypes DEF LeaveProbe, At, ClientInv, Placed, Active
<1>2. ep' = [ep EXCEPT !.pc = "idle", !.client = NoClient]
  BY Zenon DEF LeaveProbe
<1>3. /\ ep' \in EpState /\ ep'.pc = "idle" /\ ep'.kind = ep.kind /\ ep'.runs = ep.runs
      /\ ep'.leaked = ep.leaked /\ ep'.main = ep.main /\ ep'.worker = ep.worker
      /\ ep'.alive = ep.alive /\ ep'.disk = ep.disk /\ ep'.loops = ep.loops
      /\ ep'.client = NoClient /\ ep'.lost = ep.lost /\ ep'.probe = ep.probe
  BY <1>2, NoClientFacts DEF ClientInv, EpState, Programs
<1>4. Placed(ep')
  BY <1>1, <1>3, NoClientFacts DEF Placed, Active
<1>5. Looped(ep') /\ Shared(ep') /\ Accounted(ep')
  BY <1>1, <1>3, NoClientFacts DEF ClientInv, Looped, Shared, Accounted, Active
<1> QED
  BY <1>3, <1>4, <1>5 DEF ClientInv

LEMMA CreateClientKeeps ==
  ASSUME ClientInv, CreateClient
  PROVE  ClientInv'
<1>1. PICK n \in IF ep.kind = "probe" THEN {1} ELSE PoolSizes :
        LET z == PoolContext(ep.main, Fresh)
            l == IF ep.kind = "probe" THEN LoopName ELSE DefaultLoop
        IN  ep' = [ep EXCEPT !.pc = "starting", !.main = z,
                             !.disk = @ \cup {z.dir},
                             !.loops = CreateLoop(@, l),
                             !.client = [NoClient EXCEPT !.pool = n, !.loop = l,
                                           !.open = TRUE, !.sent = [w \in 1..n |-> 0]]]
  BY DEF CreateClient
<1> DEFINE z == PoolContext(ep.main, Fresh)
           l == IF ep.kind = "probe" THEN LoopName ELSE DefaultLoop
           d == ep.disk \cup {z.dir}
           t == CreateLoop(ep.loops, l)
           s == [w \in 1..n |-> 0]
           c == [NoClient EXCEPT !.pool = n, !.loop = l, !.open = TRUE, !.sent = s]
<1>2. /\ ep.pc = "setup" /\ ep.runs \in Nat \ {0} /\ ep.runs <= MaxPrograms
      /\ ep.kind \in {"bench", "probe"} /\ ~ep.alive /\ ~ep.worker.tmp /\ ~Active(ep)
  BY FieldTypes DEF CreateClient, At, ClientInv, Placed, Active
<1>3. ep' = [ep EXCEPT !.pc = "starting", !.main = z, !.disk = d, !.loops = t, !.client = c]
  BY <1>1, Zenon
<1>4. n \in Nat \ {0}
  BY <1>1, ClientAssumption
<1>5. l \in NameOfLoop /\ (ep.kind = "probe" => l # DefaultLoop)
  BY <1>2 DEF LoopName, NameOfLoop, DefaultLoop
<1>6. s \in Seq(Nat) /\ Len(s) = n /\ \A w \in 1..n : s[w] = 0
  BY <1>4
<1>7. /\ z \in Context /\ z.init /\ z.tmp /\ z.dir # NoDir /\ {"req", "resp"} \subseteq z.socks
      /\ ep.kind = "bench" => {"pub", "sub"} \subseteq z.socks
      /\ d = {z.dir}
  <2>1. CASE ep.kind = "probe"
    <3>1. ep.main = NoContext /\ ep.disk = {}
      BY <1>2, <2>1 DEF ClientInv, Placed
    <3> QED
      BY <1>2, <2>1, <3>1, ContextFacts, NoContextFacts DEF PoolContext, Fresh, SocketName, NoDir
  <2>2. CASE ep.kind = "bench"
    <3>1. /\ ep.main.init /\ ep.main.dir # NoDir /\ ep.main.tmp /\ ep.disk = {ep.main.dir}
          /\ {"pub", "sub"} \subseteq ep.main.socks
      BY <1>2, <2>2 DEF ClientInv, Placed
    <3>2. ep.main \in Context /\ ep.main # NoContext
      BY <3>1, FieldTypes, NoContextFacts
    <3>3. /\ z \in Context /\ z.init /\ {"req", "resp", "ready"} \subseteq z.socks
          /\ z.dir = ep.main.dir /\ z.tmp = ep.main.tmp /\ ep.main.socks \subseteq z.socks
      <4>1. {"req", "resp", "ready"} \in SUBSET SocketName /\ Fresh \in Nat \ {0}
        BY <1>2 DEF SocketName, Fresh
      <4> DEFINE x == ep.main
                 names == {"req", "resp", "ready"}
                 f == Fresh
      <4>2. z = Bind(Socket(ContextInit(x, NoDir), names), f)
        BY DEF PoolContext
      <4>3. x.init /\ x.dir # NoDir
        BY <3>1
      <4> HIDE DEF x, names, f, z
      <4>4. /\ z \in Context /\ z.init /\ names \subseteq z.socks
            /\ x.init /\ x.dir # NoDir =>
                 z.dir = x.dir /\ z.tmp = x.tmp /\ x.socks \subseteq z.socks
        <5>1. x \in Context /\ names \in SUBSET SocketName /\ f \in Nat \ {0}
          BY <3>2, <4>1 DEF x, names, f
        <5> QED
          BY <4>2, <5>1, ContextFacts
      <4> QED
        BY <4>3, <4>4 DEF x, names
    <3> QED
      BY <2>2, <3>1, <3>3
  <2> QED
    BY <1>2, <2>1, <2>2
<1>8. d \in SUBSET Nat
  BY <1>7 DEF Context
<1>9. /\ t \in LoopTable /\ DOMAIN t = DOMAIN ep.loops \cup {l}
      /\ \A k \in DOMAIN ep.loops : t[k] = ep.loops[k]
  BY <1>5, FieldTypes, CreatedLoop
<1> HIDE DEF z, l, d, t, s
<1>10. /\ c \in ClientState /\ c.pool = n /\ c.loop = l /\ c.open /\ c.sent = s /\ c.next = 1
  <2>1. NoClient.next = 1
    BY DEF NoClient
  <2> QED
    BY <1>4, <1>5, <1>6, <2>1, NoClientFacts DEF ClientState
<1> HIDE DEF c
<1>11. /\ ep' \in EpState /\ ep'.pc = "starting" /\ ep'.kind = ep.kind /\ ep'.runs = ep.runs
       /\ ep'.leaked = ep.leaked /\ ep'.main = z /\ ep'.worker = ep.worker
       /\ ep'.alive = ep.alive /\ ep'.disk = d /\ ep'.loops = t
       /\ ep'.client = c /\ ep'.lost = ep.lost /\ ep'.probe = ep.probe
  BY <1>3, <1>7, <1>8, <1>9, <1>10 DEF ClientInv, EpState, Programs
<1>12. Placed(ep')
  BY <1>2, <1>7, <1>10, <1>11 DEF Placed, Active
<1>13. Looped(ep')
  <2>1. Looped(ep)
    BY DEF ClientInv
  <2>2. ep.kind = "bench" => l = DefaultLoop
    BY DEF l
  <2> QED
    BY <1>2, <1>5, <1>9, <1>10, <1>11, <2>1, <2>2 DEF Looped, Active
<1>14. Shared(ep')
  <2>1. RoundRobin(c)
    BY <1>4, <1>6, <1>10 DEF RoundRobin
  <2> QED
    BY <1>4, <1>10, <1>11, <2>1 DEF ClientInv, Shared
<1>15. Accounted(ep')
  BY <1>2, <1>11 DEF ClientInv, Accounted
<1> QED
  BY <1>11, <1>12, <1>13, <1>14, <1>15 DEF ClientInv

LEMMA WorkerConnectsKeeps ==
  ASSUME ClientInv, WorkerConnects
  PROVE  ClientInv'
<1> DEFINE w == Socket(ContextInit(NoContext, ep.main.dir), {"req", "resp", "signal"})
<1>1. ep.pc = "starting" /\ ep.main \in Context
  BY FieldTypes DEF WorkerConnects, At
<1>2. ep' = [ep EXCEPT !.alive = TRUE, !.worker = w]
  BY Zenon DEF WorkerConnects
<1>3. w \in Context /\ w.dir = ep.main.dir /\ ~w.tmp
  <2> DEFINE x == ContextInit(NoContext, ep.main.dir)
  <2>1. /\ x \in Context /\ x.dir = ep.main.dir /\ ~x.tmp
    BY <1>1 DEF ContextInit, NoContext, Context
  <2> HIDE DEF x
  <2>2. {"req", "resp", "signal"} \in SUBSET SocketName
    BY DEF SocketName
  <2>3. Socket(x, {"req", "resp", "signal"}) \in Context
        /\ Socket(x, {"req", "resp", "signal"}).dir = x.dir
        /\ Socket(x, {"req", "resp", "signal"}).tmp = x.tmp
    BY <2>1, <2>2 DEF Socket, Context
  <2> QED
    BY <2>1, <2>3 DEF x
<1> HIDE DEF w
<1>4. /\ ep' \in EpState /\ ep'.pc = ep.pc /\ ep'.kind = ep.kind /\ ep'.runs = ep.runs
      /\ ep'.leaked = ep.leaked /\ ep'.main = ep.main /\ ep'.worker = w
      /\ ep'.alive = TRUE /\ ep'.disk = ep.disk /\ ep'.loops = ep.loops
      /\ ep'.client = ep.client /\ ep'.lost = ep.lost /\ ep'.probe = ep.probe
  BY <1>2, <1>3 DEF ClientInv, EpState
<1>5. Placed(ep')
  BY <1>1, <1>3, <1>4 DEF ClientInv, Placed, Active
<1> QED
  BY <1>4, <1>5 DEF ClientInv, Looped, Shared, Accounted, Active

LEMMA WorkerEndsKeeps ==
  ASSUME ClientInv, WorkerEnds
  PROVE  ClientInv'
<1> DEFINE w == Cleanup(ep.worker)
           d == ep.disk \ RemovedBy(ep.worker)
<1>1. ep' = [ep EXCEPT !.alive = FALSE, !.worker = w, !.disk = d]
  BY Zenon DEF WorkerEnds
<1>2. w = NoContext
  BY DEF Cleanup
<1>3. d = ep.disk
  BY DEF ClientInv, Placed, RemovedBy
<1> HIDE DEF w, d
<1>4. /\ ep' \in EpState /\ ep'.pc = ep.pc /\ ep'.kind = ep.kind /\ ep'.runs = ep.runs
      /\ ep'.leaked = ep.leaked /\ ep'.main = ep.main /\ ep'.worker = NoContext
      /\ ep'.alive = FALSE /\ ep'.disk = ep.disk /\ ep'.loops = ep.loops
      /\ ep'.client = ep.client /\ ep'.lost = ep.lost /\ ep'.probe = ep.probe
  BY <1>1, <1>2, <1>3, NoContextFacts DEF ClientInv, EpState
<1>5. Placed(ep')
  BY <1>4, NoContextFacts DEF ClientInv, Placed, Active
<1> QED
  BY <1>4, <1>5 DEF ClientInv, Looped, Shared, Accounted, Active

\* The pool is gone, and the context with it.
LEMMA PoolGone ==
  ASSUME ClientInv, Active(ep)
  PROVE  ep.disk \ RemovedBy(ep.main) = {} /\ Cleanup(ep.main) = NoContext
  BY DEF ClientInv, Placed, RemovedBy, Cleanup

LEMMA ClientChanged ==
  ASSUME NEW c \in ClientState, NEW o \in BOOLEAN, NEW h \in BOOLEAN
  PROVE  LET k == [c EXCEPT !.open = o, !.shutdown = h]
         IN  /\ k \in ClientState /\ k.open = o /\ k.pool = c.pool /\ k.loop = c.loop
             /\ k.next = c.next /\ k.sent = c.sent
  BY DEF ClientState

LEMMA StartFailsKeeps ==
  ASSUME ClientInv, StartFails
  PROVE  ClientInv'
<1> DEFINE c == [ep.client EXCEPT !.open = FALSE, !.shutdown = TRUE]
           m == Cleanup(ep.main)
           d == ep.disk \ RemovedBy(ep.main)
           b == ep.leaked \/ ep.kind = "probe"
<1>1. /\ ep.pc = "starting" /\ Active(ep) /\ ~ep.alive /\ ep.kind \in {"bench", "probe"}
      /\ ep.runs >= 1
  BY FieldTypes DEF StartFails, At, Active, ClientInv, Placed
<1>2. ep' = [ep EXCEPT !.client = c, !.main = m, !.disk = d, !.pc = "leaving", !.leaked = b]
  <2>1. PoolCleanup(ep) = [ep EXCEPT !.client.open = FALSE, !.main = m, !.disk = d]
    BY Zenon DEF PoolCleanup
  <2>2. PoolCleanup(ep).leaked = ep.leaked
    BY <2>1 DEF ClientInv, EpState
  <2>3. ep' = [PoolCleanup(ep) EXCEPT !.pc = "leaving", !.leaked = @ \/ ep.kind = "probe",
                                      !.client.shutdown = TRUE]
    BY Zenon DEF StartFails
  <2> HIDE DEF m, d
  <2> QED
    BY <2>1, <2>2, <2>3, FieldTypes DEF ClientInv, EpState, ClientState
<1>3. m = NoContext /\ d = {}
  BY <1>1, PoolGone
<1>4. /\ c \in ClientState /\ c.open = FALSE /\ c.pool = ep.client.pool /\ c.loop = ep.client.loop
      /\ c.next = ep.client.next /\ c.sent = ep.client.sent
  BY FieldTypes, ClientChanged
<1>5. b \in BOOLEAN
  OBVIOUS
<1> HIDE DEF c, m, d
<1>6. /\ ep' \in EpState /\ ep'.pc = "leaving" /\ ep'.kind = ep.kind /\ ep'.runs = ep.runs
      /\ ep'.leaked = b /\ ep'.main = NoContext /\ ep'.worker = ep.worker
      /\ ep'.alive = ep.alive /\ ep'.disk = {} /\ ep'.loops = ep.loops
      /\ ep'.client = c /\ ep'.lost = ep.lost /\ ep'.probe = ep.probe
  BY <1>2, <1>3, <1>4, <1>5, NoContextFacts DEF ClientInv, EpState, Programs
<1>7. Placed(ep')
  BY <1>1, <1>4, <1>6 DEF ClientInv, Placed, Active
<1>8. Looped(ep')
  BY <1>1, <1>6 DEF ClientInv, Looped, Active
<1>9. Shared(ep') /\ Accounted(ep')
  BY <1>1, <1>4, <1>6 DEF ClientInv, Shared, Accounted, Active, RoundRobin
<1> QED
  BY <1>6, <1>7, <1>8, <1>9 DEF ClientInv

\* Only the place changes, and no client comes or goes.
LEMMA MoveKeeps ==
  ASSUME ClientInv, NEW p \in Programs, ep' = [ep EXCEPT !.pc = p], Active(ep), Active(ep'),
         p \in {"running", "drained"} => ep.kind = "bench",
         p \in {"issuing", "waiting", "judged"} => ep.kind = "probe",
         ep.kind = "probe" /\ p \in {"issuing", "waiting"} => ep.probe.verdict = "none",
         p # "starting"
  PROVE  ClientInv'
<1>1. /\ ep' \in EpState /\ ep'.pc = p /\ ep'.kind = ep.kind /\ ep'.runs = ep.runs
      /\ ep'.leaked = ep.leaked /\ ep'.main = ep.main /\ ep'.worker = ep.worker
      /\ ep'.alive = ep.alive /\ ep'.disk = ep.disk /\ ep'.loops = ep.loops
      /\ ep'.client = ep.client /\ ep'.lost = ep.lost /\ ep'.probe = ep.probe
  BY PlaceChanged
<1>2. ep.pc # "idle" /\ p # "idle" /\ p # "leaving" /\ p # "setup"
  BY <1>1 DEF Active
<1>3. Placed(ep')
  BY <1>1, <1>2 DEF ClientInv, Placed, Active
<1>4. Looped(ep') /\ Shared(ep') /\ Accounted(ep')
  BY <1>1, <1>2 DEF ClientInv, Looped, Shared, Accounted
<1> QED
  BY <1>1, <1>3, <1>4 DEF ClientInv

LEMMA WorkersReadyKeeps ==
  ASSUME ClientInv, WorkersReady
  PROVE  ClientInv'
<1> DEFINE p == IF ep.kind = "probe" THEN "issuing" ELSE "running"
<1>1. ep.pc = "starting" /\ ep' = [ep EXCEPT !.pc = p] /\ ep.kind \in {"bench", "probe"}
  BY DEF WorkersReady, At, Goto, ClientInv, Placed
<1>2. p \in Programs
  BY DEF Programs
<1> HIDE DEF p
<1>3. ep'.pc = p
  BY <1>1, <1>2, PlaceChanged
<1>4. p = IF ep.kind = "probe" THEN "issuing" ELSE "running"
  BY DEF p
<1>5. ep.kind = "probe" => ep.probe.verdict = "none"
  BY <1>1 DEF ClientInv, Accounted
<1>6. Active(ep) /\ Active(ep')
  BY <1>1, <1>3, <1>4 DEF Active
<1> QED
  BY <1>1, <1>2, <1>4, <1>5, <1>6, MoveKeeps

LEMMA DrainKeeps ==
  ASSUME ClientInv, Drain
  PROVE  ClientInv'
<1>1. ep.pc = "running" /\ ep' = [ep EXCEPT !.pc = "drained"] /\ ep.kind = "bench"
  BY DEF Drain, At, Goto, ClientInv, Placed
<1>2. "drained" \in Programs
  BY DEF Programs
<1>3. ep'.pc = "drained"
  BY <1>1, <1>2, PlaceChanged
<1>4. Active(ep) /\ Active(ep')
  BY <1>1, <1>3 DEF Active
<1> QED
  BY <1>1, <1>2, <1>4, MoveKeeps

LEMMA BeginShutdownKeeps ==
  ASSUME ClientInv, BeginShutdown
  PROVE  ClientInv'
<1> DEFINE c == [ep.client EXCEPT !.shutdown = TRUE]
<1>1. ep.pc \in {"drained", "running", "judged"} /\ Active(ep)
  BY DEF BeginShutdown, At, Active
<1>2. ep' = [ep EXCEPT !.pc = "closing", !.client = c]
  BY Zenon DEF BeginShutdown
<1>3. /\ c \in ClientState /\ c.open = ep.client.open /\ c.pool = ep.client.pool
      /\ c.loop = ep.client.loop /\ c.next = ep.client.next /\ c.sent = ep.client.sent
  BY FieldTypes DEF ClientState
<1> HIDE DEF c
<1>4. /\ ep' \in EpState /\ ep'.pc = "closing" /\ ep'.kind = ep.kind /\ ep'.runs = ep.runs
      /\ ep'.leaked = ep.leaked /\ ep'.main = ep.main /\ ep'.worker = ep.worker
      /\ ep'.alive = ep.alive /\ ep'.disk = ep.disk /\ ep'.loops = ep.loops
      /\ ep'.client = c /\ ep'.lost = ep.lost /\ ep'.probe = ep.probe
  BY <1>2, <1>3 DEF ClientInv, EpState, Programs
<1>5. Placed(ep')
  BY <1>1, <1>3, <1>4 DEF ClientInv, Placed, Active
<1>6. Looped(ep') /\ Shared(ep') /\ Accounted(ep')
  BY <1>1, <1>3, <1>4 DEF ClientInv, Looped, Shared, Accounted, Active, RoundRobin
<1> QED
  BY <1>4, <1>5, <1>6 DEF ClientInv

LEMMA EndShutdownKeeps ==
  ASSUME ClientInv, EndShutdown
  PROVE  ClientInv'
<1> DEFINE c == [ep.client EXCEPT !.open = FALSE]
           m == Cleanup(ep.main)
           d == ep.disk \ RemovedBy(ep.main)
           l == IF ep.kind = "probe" THEN StopLoop(ep.loops, ep.client.loop) ELSE ep.loops
<1>1. /\ ep.pc = "closing" /\ Active(ep) /\ ~ep.alive /\ ep.kind \in {"bench", "probe"}
      /\ ep.runs >= 1
  BY FieldTypes DEF EndShutdown, At, Active, ClientInv, Placed
<1>2. ep' = [ep EXCEPT !.client = c, !.main = m, !.disk = d, !.pc = "leaving", !.loops = l]
  <2>1. PoolCleanup(ep) = [ep EXCEPT !.client = c, !.main = m, !.disk = d]
    BY Zenon DEF PoolCleanup
  <2>2. PoolCleanup(ep).loops = ep.loops
    BY <2>1 DEF ClientInv, EpState
  <2>3. ep' = [PoolCleanup(ep) EXCEPT !.pc = "leaving",
                 !.loops = IF ep.kind = "probe" THEN StopLoop(@, ep.client.loop) ELSE @]
    BY Zenon DEF EndShutdown
  <2>4. ep' = [PoolCleanup(ep) EXCEPT !.pc = "leaving", !.loops = l]
    BY <2>2, <2>3, Zenon
  <2> HIDE DEF m, d, c, l
  <2> QED
    BY <2>1, <2>4 DEF ClientInv, EpState
<1>3. m = NoContext /\ d = {}
  BY <1>1, PoolGone
<1>4. /\ c \in ClientState /\ c.open = FALSE /\ c.pool = ep.client.pool /\ c.loop = ep.client.loop
      /\ c.next = ep.client.next /\ c.sent = ep.client.sent
  BY FieldTypes DEF ClientState
<1>5. /\ l \in LoopTable /\ DOMAIN l = DOMAIN ep.loops
      /\ \A n \in DOMAIN l :
           l[n] = IF ep.kind = "probe" /\ n = ep.client.loop THEN "stopping" ELSE ep.loops[n]
  BY FieldTypes, StoppedLoop
<1> HIDE DEF c, m, d, l
<1>6. /\ ep' \in EpState /\ ep'.pc = "leaving" /\ ep'.kind = ep.kind /\ ep'.runs = ep.runs
      /\ ep'.leaked = ep.leaked /\ ep'.main = NoContext /\ ep'.worker = ep.worker
      /\ ep'.alive = ep.alive /\ ep'.disk = {} /\ ep'.loops = l
      /\ ep'.client = c /\ ep'.lost = ep.lost /\ ep'.probe = ep.probe
  BY <1>2, <1>3, <1>4, <1>5, NoContextFacts DEF ClientInv, EpState, Programs
<1>7. Placed(ep')
  BY <1>1, <1>4, <1>6 DEF ClientInv, Placed, Active
<1>8. Looped(ep')
  BY <1>1, <1>5, <1>6 DEF ClientInv, Looped, Active
<1>9. Shared(ep') /\ Accounted(ep')
  BY <1>1, <1>4, <1>6 DEF ClientInv, Shared, Accounted, Active, RoundRobin
<1> QED
  BY <1>6, <1>7, <1>8, <1>9 DEF ClientInv

LEMMA LoopEndsKeeps ==
  ASSUME ClientInv, LoopEnds
  PROVE  ClientInv'
<1>1. PICK n \in DOMAIN ep.loops :
        ep.loops[n] = "stopping" /\ ep' = [ep EXCEPT !.loops = DelLoop(@, n)]
  BY DEF LoopEnds
<1> DEFINE l == DelLoop(ep.loops, n)
<1>2. ep' = [ep EXCEPT !.loops = l]
  BY <1>1, Zenon
<1>3. /\ l \in LoopTable /\ DOMAIN l = DOMAIN ep.loops \ {n}
      /\ \A k \in DOMAIN l : l[k] = ep.loops[k]
  BY FieldTypes, DeletedLoop
<1> HIDE DEF l
<1>4. /\ ep' \in EpState /\ ep'.pc = ep.pc /\ ep'.kind = ep.kind /\ ep'.runs = ep.runs
      /\ ep'.leaked = ep.leaked /\ ep'.main = ep.main /\ ep'.worker = ep.worker
      /\ ep'.alive = ep.alive /\ ep'.disk = ep.disk /\ ep'.loops = l
      /\ ep'.client = ep.client /\ ep'.lost = ep.lost /\ ep'.probe = ep.probe
  BY <1>2, <1>3 DEF ClientInv, EpState
<1>5. Looped(ep')
  BY <1>1, <1>3, <1>4 DEF ClientInv, Looped, Active
<1> QED
  BY <1>4, <1>5 DEF ClientInv, Placed, Shared, Accounted, Active

LEMMA SmallRemainder ==
  ASSUME NEW a \in Nat, NEW b \in Nat, a < b
  PROVE  a % b = a
  OBVIOUS

\* A query for the next worker.
LEMMA NextWorker ==
  ASSUME NEW c \in ClientState, c.pool # 0, RoundRobin(c)
  PROVE  LET k == [c EXCEPT !.sent[c.next] = @ + 1, !.next = (c.next % c.pool) + 1]
         IN  /\ k \in ClientState /\ RoundRobin(k) /\ k.open = c.open /\ k.pool = c.pool
             /\ k.loop = c.loop
<1> DEFINE s == [c.sent EXCEPT ![c.next] = @ + 1]
           n == (c.next % c.pool) + 1
           k == [c EXCEPT !.sent = s, !.next = n]
<1>1. /\ c.pool \in Nat \ {0} /\ c.next \in 1..c.pool /\ Len(c.sent) = c.pool
      /\ c.sent \in Seq(Nat) /\ c.loop \in NameOfLoop
  BY DEF ClientState, RoundRobin
<1>2. n \in Nat /\ n = IF c.next = c.pool THEN 1 ELSE c.next + 1
  <2>1. CASE c.next = c.pool
    BY <1>1, <2>1
  <2>2. CASE c.next # c.pool
    <3>1. c.next \in Nat /\ c.pool \in Nat /\ c.next < c.pool
      BY <1>1, <2>2
    <3>2. c.next % c.pool = c.next
      BY <3>1, SmallRemainder
    <3> QED
      BY <1>1, <2>2, <3>2
  <2> QED
    BY <2>1, <2>2
<1>3. /\ s \in Seq(Nat) /\ Len(s) = c.pool
      /\ \A w \in 1..c.pool : s[w] = IF w = c.next THEN c.sent[w] + 1 ELSE c.sent[w]
      /\ \A w \in 1..c.pool : c.sent[w] \in Nat
  <2>1. c.sent \in [1..c.pool -> Nat]
    BY <1>1
  <2>2. \A w \in 1..c.pool : c.sent[w] \in Nat
    BY <2>1
  <2>3. /\ s \in [1..c.pool -> Nat] /\ DOMAIN s = 1..c.pool
        /\ \A w \in 1..c.pool : s[w] = IF w = c.next THEN c.sent[w] + 1 ELSE c.sent[w]
    BY <1>1, <2>1, <2>2
  <2>4. s \in Seq(Nat) /\ Len(s) = c.pool
    <3> HIDE DEF s
    <3>1. c.pool \in Nat /\ DOMAIN s = 1..c.pool /\ s \in [1..c.pool -> Nat]
      BY <1>1, <2>3
    <3>2. s \in Seq(Nat)
      BY <3>1, SeqDef, Zenon
    <3>3. Len(s) = c.pool
      BY <3>1, <3>2, LenProperties
    <3> QED
      BY <3>2, <3>3
  <2> QED
    BY <2>2, <2>3, <2>4
<1> HIDE DEF s, n
<1>4. /\ k \in ClientState /\ k.open = c.open /\ k.pool = c.pool /\ k.loop = c.loop
      /\ k.sent = s /\ k.next = n
  BY <1>2, <1>3 DEF ClientState
<1> HIDE DEF k
<1>5. RoundRobin(k)
  <2>1. \A w \in 1..c.pool : c.sent[w] = c.sent[c.pool] + (IF w < c.next THEN 1 ELSE 0)
    BY DEF RoundRobin
  <2>2. CASE c.next = c.pool
    <3>1. n = 1 /\ c.pool \in 1..c.pool
      BY <1>1, <1>2, <2>2
    <3>2. \A w \in 1..c.pool : s[w] = c.sent[c.pool] + 1
      BY <1>1, <1>3, <2>1, <2>2
    <3> QED
      BY <1>1, <1>3, <1>4, <3>1, <3>2 DEF RoundRobin
  <2>3. CASE c.next # c.pool
    <3>1. n = c.next + 1 /\ c.pool \in 1..c.pool /\ n \in 1..c.pool
      BY <1>1, <1>2, <2>3
    <3>2. s[c.pool] = c.sent[c.pool]
      BY <1>3, <2>3, <3>1
    <3>3. ASSUME NEW w \in 1..c.pool
          PROVE  s[w] = s[c.pool] + (IF w < n THEN 1 ELSE 0)
      <4>1. /\ c.sent[w] = c.sent[c.pool] + (IF w < c.next THEN 1 ELSE 0)
            /\ s[w] = IF w = c.next THEN c.sent[w] + 1 ELSE c.sent[w]
            /\ c.sent[w] \in Nat /\ c.sent[c.pool] \in Nat
        BY <1>3, <2>1, <3>1
      <4>2. w < n <=> w < c.next \/ w = c.next
        BY <1>1, <3>1
      <4>3. CASE w = c.next
        BY <1>1, <3>2, <4>1, <4>2, <4>3
      <4>4. CASE w # c.next
        BY <3>2, <4>1, <4>2, <4>4
      <4> QED
        BY <4>3, <4>4
    <3> QED
      BY <1>1, <1>3, <1>4, <3>1, <3>3 DEF RoundRobin
  <2> QED
    BY <2>2, <2>3
<1>6. k = [c EXCEPT !.sent[c.next] = @ + 1, !.next = (c.next % c.pool) + 1]
  BY Zenon DEF k, s, n
<1> QED
  BY <1>4, <1>5, <1>6

\* issue() on a state whose client is open.
LEMMA Issued ==
  ASSUME NEW e \in EpState, e.client.open, Shared(e), e.client.pool # 0
  PROVE  \E c \in ClientState :
           /\ IssueTo(e, e.client) = [e EXCEPT !.client = c]
           /\ RoundRobin(c) /\ c.open = e.client.open /\ c.pool = e.client.pool
           /\ c.loop = e.client.loop
<1>1. e.client \in ClientState /\ RoundRobin(e.client) /\ e.lost = 0
  BY DEF EpState, Shared
<1>2. CASE e.client.shutdown
  <2> DEFINE c == [e.client EXCEPT !.dropped = @ + 1]
  <2>1. IssueTo(e, e.client) = [e EXCEPT !.client = c]
    BY <1>2, Zenon DEF IssueTo
  <2>2. /\ c \in ClientState /\ c.open = e.client.open /\ c.pool = e.client.pool
        /\ c.loop = e.client.loop /\ c.sent = e.client.sent /\ c.next = e.client.next
    <3> DEFINE x == e.client
               n == e.client.dropped + 1
    <3>1. n \in Nat /\ x \in ClientState
      BY <1>1 DEF ClientState
    <3>2. c = [x EXCEPT !.dropped = n]
      OBVIOUS
    <3> HIDE DEF x, n, c
    <3>3. /\ c \in ClientState /\ c.open = x.open /\ c.pool = x.pool
          /\ c.loop = x.loop /\ c.sent = x.sent /\ c.next = x.next
      BY <3>1, <3>2 DEF ClientState
    <3> QED
      BY <3>3 DEF x
  <2> HIDE DEF c
  <2>3. RoundRobin(c)
    BY <1>1, <2>2 DEF RoundRobin
  <2> QED
    BY <2>1, <2>2, <2>3
<1>3. CASE ~e.client.shutdown
  <2> DEFINE c == [e.client EXCEPT !.sent[e.client.next] = @ + 1,
                                   !.next = (e.client.next % e.client.pool) + 1]
             x == [e EXCEPT !.client = c]
  <2>1. IssueTo(e, e.client) = [x EXCEPT !.lost = @]
    <3>1. IssueTo(e, e.client)
            = [e EXCEPT !.client.sent[e.client.next] = @ + 1,
                        !.client.next = (@ % e.client.pool) + 1,
                        !.lost = IF e.client.open THEN @ ELSE @ + 1]
      BY <1>3, Zenon DEF IssueTo
    <3>2. [e EXCEPT !.client.sent[e.client.next] = @ + 1,
                    !.client.next = (@ % e.client.pool) + 1,
                    !.lost = IF e.client.open THEN @ ELSE @ + 1]
            = [x EXCEPT !.lost = IF e.client.open THEN @ ELSE @ + 1]
      BY Zenon
    <3> QED
      BY <3>1, <3>2, Zenon
  <2>2. c \in ClientState /\ RoundRobin(c) /\ c.open = e.client.open
        /\ c.pool = e.client.pool /\ c.loop = e.client.loop
    BY <1>1, NextWorker
  <2> HIDE DEF c
  <2>3. [x EXCEPT !.lost = @] = x
    BY <2>2 DEF EpState
  <2> QED
    BY <2>1, <2>2, <2>3
<1> QED
  BY <1>2, <1>3

LEMMA IssueQueryKeeps ==
  ASSUME ClientInv, IssueQuery
  PROVE  ClientInv'
<1>1. /\ ep.pc \in {"running", "closing"} /\ Active(ep) /\ ep' = IssueTo(ep, ep.client)
      /\ ep.client.open /\ ep.client.pool # 0 /\ ep \in EpState /\ Shared(ep)
  BY DEF IssueQuery, Active, ClientInv, Placed, Shared
<1>2. PICK c \in ClientState :
        /\ ep' = [ep EXCEPT !.client = c]
        /\ RoundRobin(c) /\ c.open = ep.client.open /\ c.pool = ep.client.pool
        /\ c.loop = ep.client.loop
  BY <1>1, Issued
<1>3. /\ ep' \in EpState /\ ep'.pc = ep.pc /\ ep'.kind = ep.kind /\ ep'.runs = ep.runs
      /\ ep'.leaked = ep.leaked /\ ep'.main = ep.main /\ ep'.worker = ep.worker
      /\ ep'.alive = ep.alive /\ ep'.disk = ep.disk /\ ep'.loops = ep.loops
      /\ ep'.client = c /\ ep'.lost = ep.lost /\ ep'.probe = ep.probe
  BY <1>2 DEF ClientInv, EpState
<1>4. Active(ep') = Active(ep)
  BY <1>3 DEF Active
<1>5. Placed(ep')
  BY <1>2, <1>3, <1>4 DEF ClientInv, Placed
<1>6. Looped(ep')
  BY <1>2, <1>3, <1>4 DEF ClientInv, Looped
<1>7. Shared(ep') /\ Accounted(ep')
  BY <1>1, <1>2, <1>3, <1>4 DEF ClientInv, Shared, Accounted
<1> QED
  BY <1>3, <1>5, <1>6, <1>7 DEF ClientInv

\* What a probe does with its requests changes nothing else.
LEMMA ProbeStep ==
  ASSUME ClientInv, NEW p \in ProbeState, NEW q \in Programs, Active(ep), Active(ep'),
         ep' = [ep EXCEPT !.probe = p, !.pc = q], ep.kind = "probe",
         q \in {"issuing", "waiting", "judged"},
         Probed(p), q # "judged" => p.verdict = "none",
         p.verdict = "successful" => 2 * Cardinality(p.good) >= Counted(p),
         p.verdict = "failed" => 2 * Cardinality(p.good) <= Counted(p)
  PROVE  ClientInv'
<1>1. /\ ep' \in EpState /\ ep'.pc = q /\ ep'.kind = ep.kind /\ ep'.runs = ep.runs
      /\ ep'.leaked = ep.leaked /\ ep'.main = ep.main /\ ep'.worker = ep.worker
      /\ ep'.alive = ep.alive /\ ep'.disk = ep.disk /\ ep'.loops = ep.loops
      /\ ep'.client = ep.client /\ ep'.lost = ep.lost /\ ep'.probe = p
  BY DEF ClientInv, EpState
<1>2. Placed(ep')
  BY <1>1 DEF ClientInv, Placed, Active
<1>3. Looped(ep') /\ Shared(ep')
  BY <1>1 DEF ClientInv, Looped, Shared
<1>4. Accounted(ep')
  BY <1>1 DEF Accounted
<1> QED
  BY <1>1, <1>2, <1>3, <1>4 DEF ClientInv

\* What is known of a probe that is at work.
LEMMA AtWork ==
  ASSUME ClientInv, ep.pc \in {"issuing", "waiting"}
  PROVE  /\ ep.kind = "probe" /\ Active(ep) /\ ep.probe \in ProbeState /\ Probed(ep.probe)
         /\ ep.probe.verdict = "none" /\ Errors(ep.probe, "timeout") = {}
         /\ ep.client.open /\ ep.client.pool # 0
         /\ ep.probe.todo \subseteq Nat /\ ep.probe.sent \subseteq Nat
         /\ ep.probe.received \subseteq Nat /\ ep.probe.good \subseteq Nat
         /\ ep.probe.errors \subseteq Nat \X {"issue", "answer", "timeout"}
<1>1. ep.kind = "probe" /\ Active(ep) /\ ep.client.open
  BY DEF ClientInv, Placed, Active
<1>2. Probed(ep.probe) /\ ep.probe.verdict = "none" /\ ep.client.pool # 0
  BY <1>1 DEF ClientInv, Accounted, Shared
<1>3. ep.probe \in ProbeState
  BY FieldTypes
<1> QED
  BY <1>1, <1>2, <1>3 DEF Probed, ProbeState

\* A request more with an error.
LEMMA OneMoreError ==
  ASSUME NEW p \in ProbeState, NEW r \in ProbeState, NEW q \in Nat,
         NEW k \in {"issue", "answer", "timeout"},
         r.errors = p.errors \cup {<<q, k>>}
  PROVE  /\ Errors(r, k) = Errors(p, k) \cup {q}
         /\ \A l : l # k => Errors(r, l) = Errors(p, l)
  BY DEF Errors

LEMMA ProbeIssueKeeps ==
  ASSUME ClientInv, ProbeIssue
  PROVE  ClientInv'
<1>1. ep.pc = "issuing" /\ ep.probe.todo # {} /\ "issuing" \in Programs
  BY DEF ProbeIssue, At, Programs
<1>2. PICK q \in ep.probe.todo :
        \/ ep' = [IssueTo([ep EXCEPT !.probe.todo = @ \ {q}],
                          [ep EXCEPT !.probe.todo = @ \ {q}].client)
                    EXCEPT !.probe.sent = @ \cup {q}]
        \/ ep' = [[ep EXCEPT !.probe.todo = @ \ {q}]
                    EXCEPT !.probe.errors = @ \cup {<<q, "issue">>}]
  <2> DEFINE q == CHOOSE x \in ep.probe.todo : \A y \in ep.probe.todo : x <= y
  <2>1. q \in ep.probe.todo
    <3>1. ep.probe.todo \subseteq Nat
      BY <1>1, AtWork
    <3>2. \E x \in ep.probe.todo : \A y \in ep.probe.todo : x <= y
      <4>1. PICK x \in ep.probe.todo : \A y \in ep.probe.todo : ~(y < x)
        BY <1>1, <3>1, SmallestNat
      <4> QED
        BY <3>1, <4>1
    <3> QED
      BY <3>2
  <2> QED
    BY <2>1, Zenon DEF ProbeIssue
<1> DEFINE t == ep.probe.todo \ {q}
           o == [ep.probe EXCEPT !.todo = t]
           e == [ep EXCEPT !.probe = o]
<1>3. /\ ep.kind = "probe" /\ Active(ep) /\ ep.probe \in ProbeState /\ Probed(ep.probe)
      /\ ep.probe.verdict = "none" /\ ep.client.open /\ ep.client.pool # 0
      /\ q \in Nat /\ t \in SUBSET Nat
  BY <1>1, <1>2, AtWork
<1>4. e = [ep EXCEPT !.probe.todo = @ \ {q}]
  BY Zenon
<1> HIDE DEF t
<1>5. /\ o \in ProbeState /\ o.todo = t /\ o.sent = ep.probe.sent
      /\ o.received = ep.probe.received /\ o.good = ep.probe.good
      /\ o.errors = ep.probe.errors /\ o.verdict = "none"
  BY <1>3 DEF ProbeState
<1> HIDE DEF o
<1>6. /\ e \in EpState /\ e.probe = o /\ e.client = ep.client /\ e.lost = ep.lost /\ e.pc = ep.pc
      /\ e.kind = ep.kind
  BY <1>5 DEF ClientInv, EpState
<1>7. Probed(ep.probe) /\ q \notin ep.probe.sent /\ q \notin Errors(ep.probe, "issue")
  BY <1>2, <1>3 DEF Probed
<1>8. CASE ep' = [IssueTo(e, e.client) EXCEPT !.probe.sent = @ \cup {q}]
  <2>1. Shared(e) /\ e.client.open /\ e.client.pool # 0
    BY <1>3, <1>6 DEF ClientInv, Shared, Active
  <2>2. PICK c \in ClientState :
          /\ IssueTo(e, e.client) = [e EXCEPT !.client = c]
          /\ RoundRobin(c) /\ c.open = e.client.open /\ c.pool = e.client.pool
          /\ c.loop = e.client.loop
    BY <1>6, <2>1, Issued
  <2> DEFINE s == o.sent \cup {q}
             p == [o EXCEPT !.sent = s]
  <2>3. s \in SUBSET Nat /\ s = ep.probe.sent \cup {q}
    BY <1>3, <1>5 DEF ProbeState
  <2>4. ep' = [[e EXCEPT !.client = c] EXCEPT !.probe.sent = @ \cup {q}]
    BY <1>8, <2>2, Zenon
  <2>5. [e EXCEPT !.client = c].probe = o
    BY <1>6 DEF EpState
  <2>6. ep' = [[e EXCEPT !.client = c] EXCEPT !.probe = p]
    BY <2>4, <2>5, Zenon
  <2> HIDE DEF s
  <2>7. /\ p \in ProbeState /\ p.todo = t /\ p.sent = s
        /\ p.received = ep.probe.received /\ p.good = ep.probe.good
        /\ p.errors = ep.probe.errors /\ p.verdict = "none"
    BY <1>5, <2>3 DEF ProbeState
  <2> HIDE DEF p
  <2>8. /\ ep' \in EpState /\ ep'.pc = ep.pc /\ ep'.kind = ep.kind /\ ep'.runs = ep.runs
        /\ ep'.leaked = ep.leaked /\ ep'.main = ep.main /\ ep'.worker = ep.worker
        /\ ep'.alive = ep.alive /\ ep'.disk = ep.disk /\ ep'.loops = ep.loops
        /\ ep'.client = c /\ ep'.lost = ep.lost /\ ep'.probe = p
    BY <1>5, <2>6, <2>7 DEF ClientInv, EpState
  <2>9. Probed(p)
    <3>1. \A k : Errors(p, k) = Errors(ep.probe, k)
      BY <2>7 DEF Errors
    <3>2. IsFiniteSet(s)
      BY <1>7, <2>3, FS_AddElement DEF Probed
    <3> QED
      BY <1>3, <1>7, <2>3, <2>7, <3>1, <3>2 DEF Probed, t
  <2>10. Active(ep') = Active(ep)
    BY <2>8 DEF Active
  <2>11. Placed(ep')
    BY <1>6, <2>2, <2>8, <2>10 DEF ClientInv, Placed
  <2>12. Looped(ep')
    BY <1>6, <2>2, <2>8, <2>10 DEF ClientInv, Looped
  <2>13. Shared(ep') /\ Accounted(ep')
    BY <1>6, <2>1, <2>2, <2>7, <2>8, <2>9, <2>10 DEF ClientInv, Shared, Accounted
  <2> QED
    BY <2>8, <2>11, <2>12, <2>13 DEF ClientInv
<1>9. CASE ep' = [e EXCEPT !.probe.errors = @ \cup {<<q, "issue">>}]
  <2> DEFINE x == o.errors \cup {<<q, "issue">>}
             p == [o EXCEPT !.errors = x]
  <2>1. x \in SUBSET (Nat \X {"issue", "answer", "timeout"})
    BY <1>3, <1>5 DEF ProbeState
  <2>2. ep' = [e EXCEPT !.probe = p]
    BY <1>6, <1>9, Zenon
  <2> HIDE DEF x
  <2>3. /\ p \in ProbeState /\ p.todo = t /\ p.sent = ep.probe.sent
        /\ p.received = ep.probe.received /\ p.good = ep.probe.good
        /\ p.errors = x /\ p.verdict = "none"
    BY <1>5, <2>1 DEF ProbeState
  <2> HIDE DEF p
  <2>4. ep' = [ep EXCEPT !.probe = p, !.pc = "issuing"]
    BY <1>1, <1>5, <1>6, <2>2, <2>3 DEF ClientInv, EpState
  <2>5. /\ Errors(p, "issue") = Errors(ep.probe, "issue") \cup {q}
        /\ Errors(p, "answer") = Errors(ep.probe, "answer")
        /\ Errors(p, "timeout") = Errors(ep.probe, "timeout")
    BY <1>3, <1>5, <2>3, OneMoreError DEF x
  <2>6. Probed(p)
    <3>1. IsFiniteSet(Errors(p, "issue"))
      BY <1>7, <2>5, FS_AddElement DEF Probed
    <3> QED
      BY <1>3, <1>7, <2>3, <2>5, <3>1 DEF Probed, t
  <2>7. ep'.pc = "issuing"
    BY <2>4 DEF ClientInv, EpState
  <2>8. Active(ep')
    BY <2>7 DEF Active
  <2> QED
    BY <1>1, <1>3, <2>3, <2>4, <2>6, <2>8, ProbeStep
<1> QED
  BY <1>2, <1>4, <1>8, <1>9

LEMMA ProbeWaitsKeeps ==
  ASSUME ClientInv, ProbeWaits
  PROVE  ClientInv'
<1>1. ep.pc = "issuing" /\ ep.probe.todo = {}
  BY DEF ProbeWaits, At
<1>2. /\ ep.kind = "probe" /\ Active(ep) /\ ep.probe \in ProbeState /\ Probed(ep.probe)
      /\ ep.probe.verdict = "none"
  BY <1>1, AtWork
<1>3. CASE ep.probe.sent # {}
  <2>1. ep' = [ep EXCEPT !.pc = "waiting"]
    BY <1>3 DEF ProbeWaits, Goto
  <2>2. "waiting" \in Programs
    BY DEF Programs
  <2>3. ep'.pc = "waiting"
    BY <2>1, <2>2, PlaceChanged
  <2>4. Active(ep')
    BY <2>3 DEF Active
  <2> QED
    BY <1>2, <2>1, <2>2, <2>4, MoveKeeps
<1>4. CASE ep.probe.sent = {}
  <2> DEFINE p == [ep.probe EXCEPT !.verdict = "failed"]
  <2>1. ep' = [ep EXCEPT !.probe = p, !.pc = "judged"]
    <3>1. ep' = [ep EXCEPT !.pc = "judged", !.probe = p]
      BY <1>4, Zenon DEF ProbeWaits
    <3> HIDE DEF p
    <3> QED
      BY <3>1 DEF ClientInv, EpState
  <2>2. /\ p \in ProbeState /\ p.todo = {} /\ p.sent = {} /\ p.verdict = "failed"
        /\ p.received = ep.probe.received /\ p.good = ep.probe.good /\ p.errors = ep.probe.errors
    BY <1>1, <1>2, <1>4 DEF ProbeState
  <2> HIDE DEF p
  <2>3. \A k : Errors(p, k) = Errors(ep.probe, k)
    BY <2>2 DEF Errors
  <2>4. Probed(p) /\ p.good = {}
    BY <1>2, <1>4, <2>2, <2>3 DEF Probed
  <2>5. 2 * Cardinality(p.good) <= Counted(p)
    <3>1. Cardinality(p.good) = 0 /\ Cardinality(p.sent) = 0
      BY <2>2, <2>4, FS_EmptySet
    <3>2. Cardinality(Errors(p, "issue")) \in Nat
      BY <2>4, FS_CardinalityType DEF Probed
    <3> QED
      BY <3>1, <3>2 DEF Counted
  <2>6. "judged" \in Programs
    BY DEF Programs
  <2>7. ep'.pc = "judged"
    BY <2>1, <2>2, <2>6 DEF ClientInv, EpState
  <2>8. Active(ep')
    BY <2>7 DEF Active
  <2> QED
    BY <1>2, <2>1, <2>2, <2>4, <2>5, <2>6, <2>8, ProbeStep
<1> QED
  BY <1>3, <1>4

LEMMA ProbeReceivesKeeps ==
  ASSUME ClientInv, NEW q \in Nat, NEW ok \in BOOLEAN, NEW late \in BOOLEAN,
         ProbeReceives(q, ok, late)
  PROVE  ClientInv'
<1> DEFINE r == TakeResult(ep.probe, q, ok)
           p == [r EXCEPT !.late = late]
<1>1. ep.pc = "waiting" /\ q \in ep.probe.sent /\ ep' = [ep EXCEPT !.probe = p]
  BY Zenon DEF ProbeReceives, At
<1>2. /\ ep.kind = "probe" /\ Active(ep) /\ ep.probe \in ProbeState /\ Probed(ep.probe)
      /\ ep.probe.verdict = "none"
  BY <1>1, AtWork
<1>3. /\ r \in ProbeState /\ Probed(r) /\ r.verdict = "none"
  <2>1. CASE q \in ep.probe.received
    BY <1>2, <2>1 DEF TakeResult
  <2>2. CASE q \notin ep.probe.received
    <3> DEFINE v == ep.probe.received \cup {q}
               g == IF ok THEN ep.probe.good \cup {q} ELSE ep.probe.good
               x == IF ok THEN ep.probe.errors ELSE ep.probe.errors \cup {<<q, "answer">>}
    <3>1. /\ v \in SUBSET Nat /\ g \in SUBSET Nat
          /\ x \in SUBSET (Nat \X {"issue", "answer", "timeout"})
      BY <1>2 DEF ProbeState
    <3>2. r = [ep.probe EXCEPT !.received = v, !.good = g, !.errors = x]
      BY <2>2, Zenon DEF TakeResult
    <3> HIDE DEF v, g, x, r
    <3>3. /\ r \in ProbeState /\ r.todo = ep.probe.todo /\ r.sent = ep.probe.sent
          /\ r.received = v /\ r.good = g /\ r.errors = x /\ r.verdict = "none"
      BY <1>2, <3>1, <3>2 DEF ProbeState
    <3>4. CASE ok
      <4>1. /\ \A k : Errors(r, k) = Errors(ep.probe, k)
            /\ g = ep.probe.good \cup {q}
        BY <3>3, <3>4 DEF Errors, x, g
      <4>2. Probed(r)
        BY <1>1, <1>2, <2>2, <3>3, <4>1 DEF Probed, v
      <4> QED
        BY <3>3, <4>2
    <3>5. CASE ~ok
      <4>1. /\ Errors(r, "answer") = Errors(ep.probe, "answer") \cup {q}
            /\ \A k : k # "answer" => Errors(r, k) = Errors(ep.probe, k)
            /\ g = ep.probe.good
        BY <1>2, <3>3, <3>5, OneMoreError DEF x, g
      <4>2. Probed(r)
        BY <1>1, <1>2, <2>2, <3>3, <4>1 DEF Probed, v
      <4> QED
        BY <3>3, <4>2
    <3> QED
      BY <3>4, <3>5
  <2> QED
    BY <2>1, <2>2
<1> HIDE DEF r
<1>4. /\ p \in ProbeState /\ p.todo = r.todo /\ p.sent = r.sent /\ p.verdict = "none"
      /\ p.received = r.received /\ p.good = r.good /\ p.errors = r.errors
  BY <1>3 DEF ProbeState
<1> HIDE DEF p
<1>5. Probed(p)
  <2>1. \A k : Errors(p, k) = Errors(r, k)
    BY <1>4 DEF Errors
  <2> QED
    BY <1>3, <1>4, <2>1 DEF Probed
<1>6. ep' = [ep EXCEPT !.probe = p, !.pc = "waiting"] /\ "waiting" \in Programs
  BY <1>1, <1>4 DEF ClientInv, EpState, Programs
<1>7. ep'.pc = "waiting"
  BY <1>4, <1>6 DEF ClientInv, EpState
<1>8. Active(ep')
  BY <1>7 DEF Active
<1> QED
  BY <1>2, <1>4, <1>5, <1>6, <1>8, ProbeStep

LEMMA ProbeJudgesKeeps ==
  ASSUME ClientInv, ProbeJudges
  PROVE  ClientInv'
<1> DEFINE o == ep.probe
           n == Cardinality({e[1] : e \in {x \in o.errors : x[2] = "issue"}})
                  + Cardinality(o.sent)
           late == {<<q, "timeout">> : q \in o.sent \ o.received}
           x == o.errors \cup late
           v == ProbeVerdict(o, n)
           p == [o EXCEPT !.errors = x, !.verdict = v]
<1>1. ep.pc = "waiting" /\ ep' = [ep EXCEPT !.pc = "judged", !.probe = p]
  BY Zenon DEF ProbeJudges, At
<1>2. /\ ep.kind = "probe" /\ Active(ep) /\ o \in ProbeState /\ Probed(o)
      /\ o.verdict = "none" /\ o.sent \subseteq Nat
      /\ o.errors \subseteq Nat \X {"issue", "answer", "timeout"}
  BY <1>1, AtWork
<1> HIDE DEF o
<1>3. {e[1] : e \in {y \in o.errors : y[2] = "issue"}} = Errors(o, "issue")
  BY <1>2 DEF Errors
<1>4. n = Counted(o) /\ n \in Nat
  <2>1. n = Counted(o)
    BY <1>3 DEF Counted
  <2>2. Cardinality(Errors(o, "issue")) \in Nat /\ Cardinality(o.sent) \in Nat
    BY <1>2, FS_CardinalityType DEF Probed
  <2> QED
    BY <2>1, <2>2 DEF Counted
<1> HIDE DEF n
<1>5. /\ v \in {"failed", "successful"}
      /\ v = "failed" => 2 * Cardinality(o.good) <= n
      /\ v = "successful" => 2 * Cardinality(o.good) >= n
  <2>1. Cardinality(o.good) \in Nat
    BY <1>2, FS_Subset, FS_CardinalityType DEF Probed
  <2> QED
    BY <1>4, <2>1 DEF ProbeVerdict
<1>6. x \in SUBSET (Nat \X {"issue", "answer", "timeout"})
  BY <1>2
<1>7. /\ \A q \in Nat : <<q, "timeout">> \in x <=> <<q, "timeout">> \in o.errors \/ q \in o.sent \ o.received
      /\ \A q \in Nat : <<q, "issue">> \in x <=> <<q, "issue">> \in o.errors
      /\ \A q \in Nat : <<q, "answer">> \in x <=> <<q, "answer">> \in o.errors
  BY <1>2
<1> HIDE DEF x, v
<1>8. /\ p \in ProbeState /\ p.todo = o.todo /\ p.sent = o.sent /\ p.verdict = v
      /\ p.received = o.received /\ p.good = o.good /\ p.errors = x
  BY <1>2, <1>5, <1>6 DEF ProbeState
<1> HIDE DEF p
<1>9. /\ Errors(p, "issue") = Errors(o, "issue")
      /\ Errors(p, "answer") = Errors(o, "answer")
      /\ Errors(p, "timeout") = Errors(o, "timeout") \cup (o.sent \ o.received)
  BY <1>2, <1>7, <1>8 DEF Errors
<1>10. Probed(p)
  BY <1>2, <1>5, <1>8, <1>9 DEF Probed
<1>11. /\ p.verdict = "successful" => 2 * Cardinality(p.good) >= Counted(p)
       /\ p.verdict = "failed" => 2 * Cardinality(p.good) <= Counted(p)
  BY <1>4, <1>5, <1>8, <1>9 DEF Counted
<1>12. ep' = [ep EXCEPT !.probe = p, !.pc = "judged"] /\ "judged" \in Programs
  BY <1>1, <1>8 DEF ClientInv, EpState, Programs
<1>13. ep'.pc = "judged"
  BY <1>8, <1>12 DEF ClientInv, EpState
<1>14. Active(ep')
  BY <1>13 DEF Active
<1> QED
  BY <1>2, <1>8, <1>10, <1>11, <1>12, <1>14, ProbeStep

-----------------------------------------------------------------------------
\* The initial state has the invariant and every step keeps it.
LEMMA ClientStep ==
  ASSUME ClientInv, [EpNext]_ep
  PROVE  ClientInv'
<1>1. CASE StartBenchmark
  BY <1>1, StartBenchmarkKeeps
<1>2. CASE LeaveScope
  BY <1>2, LeaveScopeKeeps
<1>3. CASE LeaveProbe
  BY <1>3, LeaveProbeKeeps
<1>4. CASE CreateClient
  BY <1>4, CreateClientKeeps
<1>5. ASSUME NEW n \in 1..MaxIssues, StartProbe(n)
      PROVE  ClientInv'
  BY <1>5, StartProbeKeeps
<1>6. CASE WorkerConnects
  BY <1>6, WorkerConnectsKeeps
<1>7. CASE WorkersReady
  BY <1>7, WorkersReadyKeeps
<1>8. CASE WorkerEnds
  BY <1>8, WorkerEndsKeeps
<1>9. CASE StartFails
  BY <1>9, StartFailsKeeps
<1>10. CASE IssueQuery
  BY <1>10, IssueQueryKeeps
<1>11. CASE Drain
  BY <1>11, DrainKeeps
<1>12. CASE BeginShutdown
  BY <1>12, BeginShutdownKeeps
<1>13. CASE EndShutdown
  BY <1>13, EndShutdownKeeps
<1>14. CASE LoopEnds
  BY <1>14, LoopEndsKeeps
<1>15. CASE ProbeIssue
  BY <1>15, ProbeIssueKeeps
<1>16. CASE ProbeWaits
  BY <1>16, ProbeWaitsKeeps
<1>17. CASE ProbeJudges
  BY <1>17, ProbeJudgesKeeps
<1>18. ASSUME NEW q \in 1..MaxIssues, NEW ok \in BOOLEAN, NEW late \in BOOLEAN,
              ProbeReceives(q, ok, late)
       PROVE  ClientInv'
  <2>1. q \in Nat
    BY ClientAssumption
  <2> QED
    BY <1>18, <2>1, ProbeReceivesKeeps
<1>19. CASE ep' = ep
  BY <1>19, Zenon DEF ClientInv
<1> QED
  BY <1>1, <1>2, <1>3, <1>4, <1>5, <1>6, <1>7, <1>8, <1>9, <1>10, <1>11, <1>12, <1>13,
     <1>14, <1>15, <1>16, <1>17, <1>18, <1>19, Zenon DEF EpNext

-----------------------------------------------------------------------------
\* The requests of a probe that are not answered: those that were not sent and
\* those that were, without a good answer.
Unanswered(p) == Errors(p, "issue") \cup (p.sent \ p.good)

\* Once the verdict is given these are the requests with an error, and each of
\* them has one error.
LEMMA OneErrorEach ==
  ASSUME NEW p \in ProbeState, Probed(p), p.verdict # "none"
  PROVE  LET bad == {e[1] : e \in p.errors}
         IN  /\ bad = Unanswered(p) /\ p.good \cap bad = {}
             /\ Cardinality(bad) = Cardinality(p.errors)
             /\ Cardinality(bad) + Cardinality(p.good) = Counted(p)
             /\ Cardinality(bad) \in Nat /\ Cardinality(p.good) \in Nat
<1> DEFINE bad == {e[1] : e \in p.errors}
           f == [e \in p.errors |-> e[1]]
<1>1. /\ p.errors \subseteq Nat \X {"issue", "answer", "timeout"}
      /\ p.sent \subseteq Nat
  BY DEF ProbeState
<1>2. /\ Errors(p, "answer") = p.received \ p.good
      /\ Errors(p, "timeout") = p.sent \ p.received
      /\ p.sent \cap Errors(p, "issue") = {}
      /\ p.good \subseteq p.received /\ p.received \subseteq p.sent
      /\ IsFiniteSet(p.sent) /\ IsFiniteSet(Errors(p, "issue"))
  BY DEF Probed
<1>3. \A e \in p.errors : e[1] \in Nat /\ e[1] \in Errors(p, e[2])
                           /\ e[2] \in {"issue", "answer", "timeout"} /\ e = <<e[1], e[2]>>
  BY <1>1 DEF Errors
<1>4. bad = Errors(p, "issue") \cup Errors(p, "answer") \cup Errors(p, "timeout")
  <2>1. ASSUME NEW k \in {"issue", "answer", "timeout"}, NEW q \in Errors(p, k)
        PROVE  q \in bad
    <3>1. <<q, k>> \in p.errors /\ <<q, k>>[1] = q
      BY <2>1 DEF Errors
    <3> QED
      BY <3>1, Zenon
  <2>2. ASSUME NEW q \in bad
        PROVE  q \in Errors(p, "issue") \cup Errors(p, "answer") \cup Errors(p, "timeout")
    <3>1. PICK e \in p.errors : q = e[1]
      BY <2>2, Zenon
    <3> QED
      BY <3>1, <1>3
  <2> HIDE DEF bad
  <2> QED
    BY <2>1, <2>2
<1>5. bad = Unanswered(p) /\ p.good \cap bad = {}
  <2> HIDE DEF bad
  <2> QED
    BY <1>2, <1>4 DEF Unanswered
<1>6. \A d, e \in p.errors : d[1] = e[1] => d = e
  <2> TAKE d, e \in p.errors
  <2> HAVE d[1] = e[1]
  <2>1. d[2] = e[2]
    BY <1>2, <1>3
  <2> QED
    BY <1>3, <2>1
<1>7. f \in Bijection(p.errors, bad)
  <2>1. f \in [p.errors -> bad] /\ \A e \in p.errors : f[e] = e[1]
    BY Zenon
  <2>2. \A q \in bad : \E e \in p.errors : f[e] = q
    BY <2>1, Zenon
  <2> HIDE DEF f, bad
  <2>3. \A d, e \in p.errors : f[d] = f[e] => d = e
    BY <1>6, <2>1, Zenon
  <2> QED
    BY <2>1, <2>2, <2>3, Fun_IsBij, Zenon
<1>8. ExistsBijection(p.errors, bad)
  BY <1>7, Zenon DEF ExistsBijection
<1> HIDE DEF bad, f
<1>9. ExistsBijection(bad, p.errors)
  BY <1>8, Fun_ExistsBijSymmetric, Zenon
<1>10. IsFiniteSet(p.sent \ p.good) /\ IsFiniteSet(p.good)
       /\ Cardinality(p.sent \ p.good) = Cardinality(p.sent) - Cardinality(p.good)
  <2>1. p.sent \cap p.good = p.good /\ p.good \in SUBSET p.sent
    BY <1>2
  <2>2. /\ IsFiniteSet(p.sent \ p.good)
        /\ Cardinality(p.sent \ p.good) = Cardinality(p.sent) - Cardinality(p.sent \cap p.good)
    BY <1>2, FS_Difference, Zenon
  <2>3. IsFiniteSet(p.good)
    BY <1>2, <2>1, FS_Subset, Zenon
  <2> QED
    BY <2>1, <2>2, <2>3, Zenon
<1>11. Errors(p, "issue") \cap (p.sent \ p.good) = {}
  BY <1>2
<1>12. /\ IsFiniteSet(bad)
       /\ Cardinality(bad) = Cardinality(Errors(p, "issue")) + Cardinality(p.sent \ p.good) - 0
  <2> DEFINE s == Errors(p, "issue")
             r == p.sent \ p.good
  <2>1. IsFiniteSet(s) /\ IsFiniteSet(r) /\ s \cap r = {} /\ bad = s \cup r
    BY <1>2, <1>5, <1>10, <1>11, Zenon DEF Unanswered
  <2> HIDE DEF s, r
  <2>2. /\ IsFiniteSet(s \cup r)
        /\ Cardinality(s \cup r) = Cardinality(s) + Cardinality(r) - Cardinality(s \cap r)
    BY <2>1, FS_Union, Zenon
  <2>3. Cardinality({}) = 0
    BY FS_EmptySet
  <2>4. IsFiniteSet(bad) /\ Cardinality(bad) = Cardinality(s) + Cardinality(r) - 0
    BY <2>1, <2>2, <2>3, Zenon
  <2> QED
    BY <2>4 DEF s, r
<1>13. Cardinality(bad) = Cardinality(p.errors)
  BY <1>9, <1>12, FS_Bijection
<1>14. /\ Cardinality(Errors(p, "issue")) \in Nat /\ Cardinality(p.sent) \in Nat
       /\ Cardinality(p.good) \in Nat /\ Cardinality(bad) \in Nat
  BY <1>2, <1>10, <1>12, FS_CardinalityType
<1>15. Cardinality(bad) + Cardinality(p.good) = Counted(p)
  BY <1>10, <1>12, <1>14 DEF Counted
<1> QED
  BY <1>5, <1>13, <1>14, <1>15 DEF bad

\* What the invariant says of the four parts of the property.
LEMMA ClientTidies ==
  ASSUME ClientInv
  PROVE  ClientIsTidy
<1>1. /\ ep \in EpState /\ Placed(ep) /\ Looped(ep) /\ Shared(ep) /\ Accounted(ep)
  BY DEF ClientInv
<1>2. ResourcesReturned
  <2>1. At("idle") => ep.main = NoContext /\ ep.worker.tmp = FALSE /\ ep.disk = {}
    BY <1>1 DEF At, Placed, Active, EpState, Context
  <2>2. ASSUME At("idle"), NEW n \in DOMAIN ep.loops
        PROVE  n = DefaultLoop \/ ep.loops[n] = "stopping" \/ ep.leaked
    BY <1>1, <2>2 DEF At, Looped, Active
  <2> QED
    BY <1>1, <2>1, <2>2 DEF ResourcesReturned, Looped
<1>3. DirectoriesOutliveSockets
  <2>1. ep.main.socks # {} => ep.main.dir \in ep.disk
    BY <1>1 DEF Placed, NoContext
  <2>2. ep.alive => ep.worker.dir \in ep.disk
    BY <1>1 DEF Placed
  <2>3. ep.client.open => {"req", "resp"} \subseteq ep.main.socks
    BY <1>1 DEF Placed
  <2>4. ep.pc \in {"setup", "running", "drained"} /\ ep.kind = "bench" =>
          {"pub", "sub"} \subseteq ep.main.socks
    BY <1>1 DEF Placed
  <2> QED
    BY <2>1, <2>2, <2>3, <2>4 DEF DirectoriesOutliveSockets
<1>4. QueriesAreShared
  <2>1. ASSUME NEW v \in 1..ep.client.pool, NEW w \in 1..ep.client.pool
        PROVE  ep.client.sent[v] <= ep.client.sent[w] + 1
    <3>1. ep.client.pool \in Nat /\ ep.client.sent \in Seq(Nat)
      BY <1>1 DEF EpState, ClientState
    <3>2. ep.client.pool # 0 /\ RoundRobin(ep.client)
      BY <1>1, <3>1 DEF Shared
    <3>3. ep.client.sent[ep.client.pool] \in Nat
      BY <3>1, <3>2 DEF RoundRobin
    <3> QED
      BY <3>2, <3>3 DEF RoundRobin
  <2> QED
    BY <1>1, <2>1 DEF QueriesAreShared, Shared
<1>5. ProbeIsHonest
  <2> DEFINE p == ep.probe
             bad == {e[1] : e \in p.errors}
  <2>1. p \in ProbeState /\ Probed(p)
    BY <1>1 DEF EpState, Accounted
  <2>2. SUFFICES ASSUME p.verdict # "none"
                 PROVE  /\ p.good \cap bad = {} /\ p.good \subseteq p.sent
                        /\ Cardinality(bad) = Cardinality(p.errors)
                        /\ p.verdict = "successful" => Cardinality(p.good) >= Cardinality(bad)
                        /\ p.verdict = "failed" => Cardinality(p.good) <= Cardinality(bad)
    BY Zenon DEF ProbeIsHonest
  <2>3. /\ p.good \cap bad = {}
        /\ Cardinality(bad) = Cardinality(p.errors)
        /\ Cardinality(bad) + Cardinality(p.good) = Counted(p)
        /\ Cardinality(bad) \in Nat /\ Cardinality(p.good) \in Nat
    BY <2>1, <2>2, OneErrorEach, Zenon
  <2>4. /\ p.verdict = "successful" => 2 * Cardinality(p.good) >= Counted(p)
        /\ p.verdict = "failed" => 2 * Cardinality(p.good) <= Counted(p)
    BY <1>1 DEF Accounted
  <2>5. p.good \subseteq p.sent
    BY <2>1 DEF Probed
  <2> HIDE DEF p, bad
  <2> QED
    BY <2>3, <2>4, <2>5
<1> QED
  BY <1>2, <1>3, <1>4, <1>5 DEF ClientIsTidy

\* Whatever the number of workers, queries and programs: between two programs
\* no socket, no directory and no running loop is left (but for the loop of a
\* probe whose client could not be built), nobody holds a socket in a directory
\* that is gone although the pool's cleanup() and the pipeline's scope both
\* remove it, no query goes to a closed pool, the workers get equal shares, and
\* the errors of a probe are one for each request without a good answer.
THEOREM ClientStaysTidy == EpInit /\ [][EpNext]_ep => []ClientIsTidy
<1>1. EpInit => ClientInv
  BY ClientStarts
<1>2. ClientInv /\ [EpNext]_ep => ClientInv'
  BY ClientStep
<1>3. ClientInv => ClientIsTidy
  BY ClientTidies
<1> QED
  BY <1>1, <1>2, <1>3, PTL

=============================================================================
