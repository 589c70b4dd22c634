---------------------------- MODULE EndpointClient ----------------------------
(***************************************************************************)
(* The endpoint client as a whole and what it stands on in the main        *)
(* process: HTTPEndpointClient (endpoint_client/http_client.py), the ZMQ   *)
(* worker pool's ownership of sockets (transport/zmq/transport.py), the    *)
(* two singletons ManagedZMQContext (transport/zmq/context.py) and         *)
(* LoopManager (async_utils/loop_manager.py), and the probe command that   *)
(* drives a client (commands/probe.py).                                    *)
(*                                                                         *)
(* The main process runs programs one after the other: a benchmark, whose  *)
(* metrics pipeline opens the context before the client does and whose     *)
(* client shares its loop, or a probe, whose client has its own loop.  A   *)
(* worker process has a context of its own over the main process's socket  *)
(* directory.  What the messages do on the sockets is in WorkerChannel and *)
(* EventBus, the start-up of the workers in WorkerStartup.                 *)
(***************************************************************************)
EXTENDS Naturals, FiniteSets

CONSTANTS
  PoolSizes,    \* num_workers tried for the benchmark; a probe has 1
  MaxIssues,    \* bound on the queries of a program
  MaxPrograms   \* bound on the programs a process runs

ASSUME ClientAssumption ==
  PoolSizes \subseteq Nat \ {0} /\ MaxIssues \in Nat /\ MaxPrograms \in Nat

VARIABLE ep

NoDir == 0

\* A ManagedZMQContext before __init__ and after cleanup().
NoContext ==
  [init |-> FALSE, open |-> FALSE, dir |-> NoDir, tmp |-> FALSE, socks |-> {}]

\* __init__ on the singleton: nothing when it is initialised, else everything
\* anew.  (A socket_dir that differs raises; no program passes one here.)
ContextInit(z, dir) ==
  IF z.init THEN z
  ELSE [init |-> TRUE, open |-> TRUE, dir |-> dir, tmp |-> FALSE, socks |-> {}]

\* socket() and async_socket(); a socket that its user closes stays listed.
Socket(z, names) == [z EXCEPT !.socks = @ \cup names]

\* bind(): the first one makes the temporary directory, `fresh`.
Bind(z, fresh) ==
  IF z.dir = NoDir THEN [z EXCEPT !.dir = fresh, !.tmp = TRUE] ELSE z

\* cleanup(): all sockets, the context, the directory if it is temporary.
Cleanup(z) == NoContext
RemovedBy(z) == IF z.tmp THEN {z.dir} ELSE {}

\* scoped(): the scope owns what it had to initialise.
OwnsScope(z) == ~z.init

-----------------------------------------------------------------------------
\* LoopManager: the loop "default" runs on the main thread and is never stopped;
\* a client's own loop is named after the program that makes it (in the code, its
\* random id).
DefaultLoop == 0
LoopName == ep.runs

CreateLoop(loops, name) ==
  [n \in DOMAIN loops \cup {name} |->
     IF n \in DOMAIN loops THEN loops[n] ELSE "running"]

\* stop_loop, not immediate: the loop itself will run _del_loop.
StopLoop(loops, name) == [loops EXCEPT ![name] = "stopping"]
DelLoop(loops, name) == [n \in DOMAIN loops \ {name} |-> loops[n]]

-----------------------------------------------------------------------------
NoClient ==
  [pool |-> 0, loop |-> DefaultLoop, shutdown |-> FALSE, open |-> FALSE,
   next |-> 1, sent |-> <<>>, dropped |-> 0]

NoProbe == [todo |-> {}, sent |-> {}, received |-> {}, good |-> {},
            errors |-> {}, late |-> FALSE, verdict |-> "none"]

EpIdle ==
  ep = [pc |-> "idle", kind |-> "none", runs |-> 0, leaked |-> FALSE,
        main |-> NoContext, worker |-> NoContext, alive |-> FALSE,
        disk |-> {}, owns |-> FALSE, loops |-> [n \in {DefaultLoop} |-> "running"],
        client |-> NoClient, lost |-> 0, probe |-> NoProbe]

EpInit == EpIdle

\* Directories are named after the program that makes them.
Fresh == ep.runs

At(pc) == ep.pc = pc
Goto(e, pc) == [e EXCEPT !.pc = pc]

-----------------------------------------------------------------------------
(* The benchmark's frame.                                                  *)

\* MetricsPipeline.start: the scope, the publisher's and the snapshot
\* subscriber's sockets.
StartBenchmark ==
  /\ At("idle") /\ ep.runs < MaxPrograms
  /\ LET z == Bind(Socket(ContextInit(ep.main, NoDir), {"pub", "sub"}), Fresh + 1)
     IN  ep' = [ep EXCEPT !.pc = "setup", !.kind = "bench", !.runs = @ + 1,
                          !.owns = OwnsScope(ep.main), !.main = z,
                          !.disk = @ \cup {z.dir}]

StartProbe(n) ==
  /\ At("idle") /\ ep.runs < MaxPrograms
  /\ ep' = [ep EXCEPT !.pc = "setup", !.kind = "probe", !.runs = @ + 1,
                      !.probe = [NoProbe EXCEPT !.todo = 1..n]]

\* The pipeline's stack is unwound: the scope cleans up what it owns.
LeaveScope ==
  /\ At("leaving") /\ ep.kind = "bench"
  /\ LET drop == IF ep.owns THEN RemovedBy(ep.main) ELSE {}
     IN  ep' = [ep EXCEPT !.pc = "idle", !.owns = FALSE, !.client = NoClient,
                          !.main = IF ep.owns THEN Cleanup(@) ELSE @,
                          !.disk = @ \ drop]

LeaveProbe ==
  /\ At("leaving") /\ ep.kind = "probe"
  /\ ep' = [ep EXCEPT !.pc = "idle", !.client = NoClient]

-----------------------------------------------------------------------------
(* HTTPEndpointClient.                                                     *)

\* ZmqWorkerPoolTransport.create.
PoolContext(z, fresh) ==
  Bind(Socket(ContextInit(z, NoDir), {"req", "resp", "ready"}), fresh)

\* The pool's cleanup() takes the context with it, whoever initialised it.
PoolCleanup(e) ==
  [e EXCEPT !.client.open = FALSE, !.main = Cleanup(@),
            !.disk = @ \ RemovedBy(e.main)]

\* The constructor of a probe makes a loop, create() uses the caller's;
\* _initialize makes the pool and spawns the workers.
CreateClient ==
  /\ At("setup")
  /\ \E n \in IF ep.kind = "probe" THEN {1} ELSE PoolSizes :
       LET z == PoolContext(ep.main, Fresh)
           l == IF ep.kind = "probe" THEN LoopName ELSE DefaultLoop
       IN  ep' = [ep EXCEPT !.pc = "starting", !.main = z,
                            !.disk = @ \cup {z.dir},
                            !.loops = CreateLoop(@, l),
                            !.client = [NoClient EXCEPT !.pool = n, !.loop = l,
                                          !.open = TRUE, !.sent = [w \in 1..n |-> 0]]]

\* A worker's connect(): its own context, over the given directory.
WorkerConnects ==
  /\ At("starting") /\ ~ep.alive
  /\ ep' = [ep EXCEPT !.alive = TRUE,
              !.worker = Socket(ContextInit(NoContext, ep.main.dir),
                                {"req", "resp", "signal"})]

WorkersReady ==
  /\ At("starting") /\ ep.alive
  /\ ep' = Goto(ep, IF ep.kind = "probe" THEN "issuing" ELSE "running")

\* A worker's scope ends, on its own or by SIGTERM; a SIGKILL skips it.
WorkerEnds ==
  /\ ep.alive
  /\ ep' = [ep EXCEPT !.alive = FALSE, !.worker = Cleanup(@),
                      !.disk = @ \ RemovedBy(ep.worker)]

\* The start-up fails: the manager shuts down, with the workers ended before
\* the pool is cleaned up.  A probe has then no client to shut down, and its
\* loop stays.
StartFails ==
  /\ At("starting") /\ ~ep.alive
  /\ ep' = [PoolCleanup(ep) EXCEPT
              !.pc = "leaving", !.leaked = @ \/ ep.kind = "probe",
              !.client.shutdown = TRUE]

\* issue(): round-robin, dropped once the shutdown has begun.
IssueTo(e, c) ==
  IF c.shutdown THEN [e EXCEPT !.client.dropped = @ + 1]
  ELSE [e EXCEPT !.client.sent[c.next] = @ + 1,
                 !.client.next = (@ % c.pool) + 1,
                 !.lost = IF c.open THEN @ ELSE @ + 1]

Issues == ep.client.dropped + Cardinality(ep.probe.sent)
            + (IF ep.client.pool = 0 THEN 0 ELSE ep.client.sent[1])

IssueQuery ==
  /\ ep.pc \in {"running", "closing"} /\ ep.kind = "bench" /\ Issues < MaxIssues
  /\ ep' = IssueTo(ep, ep.client)

\* The run drains: the publisher is closed before the client.
Drain ==
  /\ At("running")
  /\ ep' = Goto(ep, "drained")

\* _shutdown_async, up to its first await: from the drained run or, a set-up
\* error between the client and the session, from the running one.
BeginShutdown ==
  /\ At("drained") \/ At("running") \/ At("judged")
  /\ ep' = [ep EXCEPT !.pc = "closing", !.client.shutdown = TRUE]

\* The rest of it, once the workers are joined.
EndShutdown ==
  /\ At("closing") /\ ~ep.alive
  /\ ep' = [PoolCleanup(ep) EXCEPT
              !.pc = "leaving",
              !.loops = IF ep.kind = "probe" THEN StopLoop(@, ep.client.loop) ELSE @]

LoopEnds ==
  \E n \in DOMAIN ep.loops :
    /\ ep.loops[n] = "stopping"
    /\ ep' = [ep EXCEPT !.loops = DelLoop(@, n)]

-----------------------------------------------------------------------------
(* The probe.                                                              *)

\* The loop that sends; a send that raises is an error of its own.
ProbeIssue ==
  /\ At("issuing") /\ ep.probe.todo # {}
  /\ LET q == CHOOSE x \in ep.probe.todo : \A y \in ep.probe.todo : x <= y
         e == [ep EXCEPT !.probe.todo = @ \ {q}]
     IN  \/ ep' = [IssueTo(e, e.client) EXCEPT !.probe.sent = @ \cup {q}]
         \/ ep' = [e EXCEPT !.probe.errors = @ \cup {<<q, "issue">>}]

\* No query could be issued: the probe fails at once.
ProbeWaits ==
  /\ At("issuing") /\ ep.probe.todo = {}
  /\ ep' = IF ep.probe.sent = {}
           THEN [ep EXCEPT !.pc = "judged", !.probe.verdict = "failed"]
           ELSE Goto(ep, "waiting")

Expected(p) == Cardinality(p.received) < Cardinality(p.sent) /\ ~p.late

\* A result is taken only if no earlier one was for its query.
TakeResult(p, q, ok) ==
  IF q \in p.received THEN p
  ELSE [p EXCEPT !.received = @ \cup {q},
                 !.good = IF ok THEN @ \cup {q} ELSE @,
                 !.errors = IF ok THEN @ ELSE @ \cup {<<q, "answer">>}]

\* One turn of the loop that waits: an answer to a query that was sent, for
\* the first time or again.  (recv() has no timeout: without an answer the
\* turn does not end, and the clock is only read between turns.)
ProbeReceives(q, ok, late) ==
  /\ At("waiting") /\ Expected(ep.probe)
  /\ q \in ep.probe.sent
  /\ ep' = [ep EXCEPT !.probe = [TakeResult(@, q, ok) EXCEPT !.late = late]]

\* What did not arrive is a timeout; half of the requests must have succeeded.
ProbeVerdict(p, n) == IF 2 * Cardinality(p.good) < n THEN "failed" ELSE "successful"

ProbeJudges ==
  /\ At("waiting") /\ ~Expected(ep.probe)
  /\ LET p == ep.probe
         n == Cardinality({e[1] : e \in {x \in p.errors : x[2] = "issue"}})
                + Cardinality(p.sent)
     IN  ep' = [ep EXCEPT !.pc = "judged",
                  !.probe.errors = @ \cup {<<q, "timeout">> : q \in p.sent \ p.received},
                  !.probe.verdict = ProbeVerdict(p, n)]

EpNext ==
  \/ StartBenchmark \/ LeaveScope \/ LeaveProbe \/ CreateClient
  \/ \E n \in 1..MaxIssues : StartProbe(n)
  \/ WorkerConnects \/ WorkersReady \/ WorkerEnds \/ StartFails
  \/ IssueQuery \/ Drain \/ BeginShutdown \/ EndShutdown \/ LoopEnds
  \/ ProbeIssue \/ ProbeWaits \/ ProbeJudges
  \/ \E q \in 1..MaxIssues, ok, late \in BOOLEAN : ProbeReceives(q, ok, late)

-----------------------------------------------------------------------------
\* Whoever initialised the context and whoever cleaned it up, a program leaves
\* neither a socket nor a directory behind, and its loop only as long as that
\* takes to stop, except that a probe whose client could not be built leaves
\* its loop.
ResourcesReturned ==
  /\ At("idle") =>
       /\ ep.main = NoContext /\ ep.worker.tmp = FALSE
       /\ ep.disk = {}
       /\ \A n \in DOMAIN ep.loops :
            n = DefaultLoop \/ ep.loops[n] = "stopping" \/ ep.leaked
  /\ DefaultLoop \in DOMAIN ep.loops

\* No process has a socket in a directory that is gone: the scopes of the
\* workers leave the main process's directory, the pool goes after its workers.
DirectoriesOutliveSockets ==
  /\ ep.main.socks # {} => ep.main.dir \in ep.disk
  /\ ep.alive => ep.worker.dir \in ep.disk
  /\ ep.client.open => {"req", "resp"} \subseteq ep.main.socks
  /\ ep.pc \in {"setup", "running", "drained"} /\ ep.kind = "bench" =>
       {"pub", "sub"} \subseteq ep.main.socks

\* No query is handed to a pool that is closed, and the workers get the same
\* number of them up to one.
QueriesAreShared ==
  /\ ep.lost = 0
  /\ \A v, w \in 1..ep.client.pool : ep.client.sent[v] <= ep.client.sent[w] + 1

\* Of a probe's requests each is exactly one of answered, failed on the way
\* out, answered with an error, or timed out; and the verdict counts the
\* answered ones.
ProbeIsHonest ==
  LET p == ep.probe
      bad == {e[1] : e \in p.errors}
  IN  p.verdict # "none" =>
        /\ p.good \cap bad = {} /\ p.good \subseteq p.sent
        /\ Cardinality(bad) = Cardinality(p.errors)
        /\ p.verdict = "successful" => Cardinality(p.good) >= Cardinality(bad)
        /\ p.verdict = "failed" => Cardinality(p.good) <= Cardinality(bad)

(* The client gives back what it takes, uses nothing after that, and a      *)
(* probe reports what came of its requests.                                 *)
ClientIsTidy ==
  /\ ResourcesReturned /\ DirectoriesOutliveSockets
  /\ QueriesAreShared /\ ProbeIsHonest

=============================================================================
