----------------------------- MODULE TestServers -----------------------------
(***************************************************************************)
(* The servers of testing/: MaxThroughputServer and VariableResponseServer *)
(* (a pool of worker processes, each with one asyncio loop) and EchoServer *)
(* (one thread).  A server goes up, serves keep-alive connections and goes *)
(* down; the variable server answers in tasks that share a semaphore.      *)
(***************************************************************************)
EXTENDS Integers, Sequences, SequencesExt, FiniteSets, FiniteSetsExt

CONSTANTS
  PoolWorkers,    \* worker processes of a pool server
  Conns,          \* connections of the worker that is looked at
  Slots,          \* _max_concurrency_per_worker
  Events,         \* SSE events of a streamed answer
  MaxRequests,    \* bound on the requests of a connection
  MaxOsl          \* echo server: max_osl

VARIABLE srv

SrvIdle == srv = [stage |-> "idle"]

\* A connection: what its handler tasks do, oldest first, and what was written.
NoConn == [open |-> TRUE, lost |-> FALSE, partial |-> FALSE, asked |-> 0,
           tasks |-> <<>>, wire |-> <<>>]

\* kind, and whether answers are streamed.
SrvInit ==
  \E kind \in {"max", "variable", "echo"}, stream \in BOOLEAN :
    srv = [stage |-> "starting", kind |-> kind, stream |-> stream,
           worker |-> [w \in IF kind = "echo" THEN {1} ELSE PoolWorkers |-> "spawned"],
           awaited |-> {}, shutdown |-> FALSE,
           conn |-> [c \in Conns |-> NoConn], free |-> Slots,
           req |-> 0, resp |-> 0]

Servers == DOMAIN srv.worker

-----------------------------------------------------------------------------
(***************************************************************************)
(* Up and down                                                             *)
(***************************************************************************)

\* _worker, _start_server: the port is bound and the parent told, or not.
WorkerUp(w) ==
  /\ srv.worker[w] = "spawned" /\ srv.stage # "down"
  /\ \E end \in {"ready", "crashed", "hung"} : srv' = [srv EXCEPT !.worker[w] = end]

\* terminate, then kill: both are followed by a join.
_cleanup_workers(workers) == [w \in DOMAIN workers |-> "gone"]

\* _start_workers waits for the workers in their order: a crash, or thirty
\* seconds without the signal, takes all of them down.
AwaitWorker(w) ==
  /\ srv.stage = "starting" /\ srv.kind # "echo"
  /\ w \notin srv.awaited /\ \A v \in Servers : v < w => v \in srv.awaited
  /\ \/ /\ srv.worker[w] = "ready"
        /\ srv' = [srv EXCEPT !.awaited = @ \cup {w},
                              !.stage = IF srv.awaited \cup {w} = Servers THEN "up" ELSE @]
     \/ /\ srv.worker[w] # "ready"
        /\ srv' = [srv EXCEPT !.stage = "down", !.worker = _cleanup_workers(@)]

\* EchoServer.start: five seconds, and then the thread is left as it is.
AwaitEcho ==
  /\ srv.stage = "starting" /\ srv.kind = "echo"
  /\ srv' = [srv EXCEPT !.stage = IF srv.worker[1] = "ready" THEN "up" ELSE "failed"]

\* stop(): the flag, two seconds for each worker, and then the clean-up.
StopServer_ ==
  /\ srv.stage \in {"up", "failed"}
  /\ srv' = [srv EXCEPT !.stage = IF srv.kind = "echo" THEN "stopped" ELSE "down",
                        !.shutdown = TRUE,
                        !.worker = IF srv.kind = "echo" THEN @ ELSE _cleanup_workers(@)]

\* The echo thread polls the flag and cleans up, after stop() has returned perhaps.
EchoThreadEnds ==
  /\ srv.kind = "echo" /\ srv.worker[1] # "gone"
  /\ srv.worker[1] = "crashed" \/ (srv.worker[1] = "ready" /\ srv.shutdown)
  /\ srv' = [srv EXCEPT !.worker[1] = "gone"]

-----------------------------------------------------------------------------
(***************************************************************************)
(* Requests                                                                *)
(***************************************************************************)

\* A client that does not pipeline: it asks once the last answer is complete.
Answered(k) == Cardinality({i \in DOMAIN k.wire : k.wire[i] = "end"})
Serving == srv.stage = "up" /\ srv.worker[1] = "ready"

\* data_received: part of a request, or what the parser refuses.
ReceivePart(c) ==
  /\ Serving /\ srv.conn[c].open /\ ~srv.conn[c].partial
  /\ srv.conn[c].asked = Answered(srv.conn[c]) /\ srv.conn[c].asked < MaxRequests
  /\ \/ srv' = [srv EXCEPT !.conn[c].partial = TRUE]
     \/ srv' = [srv EXCEPT !.conn[c].open = FALSE]

\* The message is complete.  The max server answers at once; the others handle
\* the request in a task; the parser starts over.
data_received(c) ==
  /\ Serving /\ srv.conn[c].open /\ srv.conn[c].partial
  /\ srv' = IF srv.kind = "max"
            THEN [srv EXCEPT !.conn[c].partial = FALSE, !.conn[c].asked = @ + 1,
                             !.conn[c].wire = @ \o <<"begin", "end">>,
                             !.req = @ + 1, !.resp = @ + 1]
            ELSE [srv EXCEPT !.conn[c].partial = FALSE, !.conn[c].asked = @ + 1,
                             !.conn[c].tasks = Append(@, "new"), !.req = @ + 1]

\* The client goes away: the transport is closing, then connection_lost.
Disconnect(c) ==
  /\ Serving /\ srv.conn[c].open
  /\ srv' = [srv EXCEPT !.conn[c].open = FALSE, !.conn[c].partial = FALSE]

connection_lost(c) ==
  /\ Serving /\ ~srv.conn[c].open /\ ~srv.conn[c].lost
  /\ srv' = [srv EXCEPT !.conn[c].lost = TRUE]

\* Released at the end of the answer only.
Ended_NoFinally(s, c, held) ==
  [s EXCEPT !.conn[c].tasks = Tail(@), !.free = IF held /\ s.conn[c].open THEN @ + 1 ELSE @]

\* A task ends; the finally clause releases the slot it held.
Ended(s, c, held) ==
  [s EXCEPT !.conn[c].tasks = Tail(@), !.free = IF held THEN @ + 1 ELSE @]

Limited == srv.kind = "variable"

\* _handle_request up to the semaphore: a closing transport is left at once,
\* before a slot is taken.
_handle_request(c) ==
  /\ Serving /\ srv.conn[c].tasks # <<>> /\ Head(srv.conn[c].tasks) = "new"
  /\ \/ /\ ~srv.conn[c].open
        /\ srv' = Ended(srv, c, FALSE)
     \/ /\ srv.conn[c].open /\ Limited /\ srv.free > 0
        /\ srv' = [srv EXCEPT !.free = @ - 1, !.conn[c].tasks[1] = "delay"]
     \/ /\ srv.conn[c].open /\ ~Limited
        /\ srv' = [srv EXCEPT !.conn[c].tasks[1] = "delay"]

\* The token bucket and the first delay are over: the whole answer, or the
\* headers of a stream, unless the client has gone.
FirstBytes(c) ==
  /\ Serving /\ srv.conn[c].tasks # <<>> /\ Head(srv.conn[c].tasks) = "delay"
  /\ srv' = CASE ~srv.conn[c].open -> Ended(srv, c, Limited)
              [] srv.stream -> [srv EXCEPT !.conn[c].wire = Append(@, "begin"),
                                           !.conn[c].tasks[1] = "streaming"]
              [] OTHER -> Ended([srv EXCEPT !.conn[c].wire = @ \o <<"begin", "end">>,
                                            !.resp = @ + 1], c, Limited)

EventsOut(k) ==
  LET from == Max({0} \cup {i \in DOMAIN k.wire : k.wire[i] = "begin"})
  IN  Len(k.wire) - from

\* _handle_streaming: an event after its delay.  is_closing() is looked at before
\* the delay; a write to a closed transport is dropped.
StreamEvent(c) ==
  /\ Serving /\ srv.conn[c].tasks # <<>> /\ Head(srv.conn[c].tasks) = "streaming"
  /\ EventsOut(srv.conn[c]) < Events
  /\ srv' = IF srv.conn[c].open THEN [srv EXCEPT !.conn[c].wire = Append(@, "event")]
            ELSE Ended(srv, c, Limited)

\* The tail, if the client is still there; the answer is counted either way,
\* unless a write raises.
StreamEnd(c) ==
  /\ Serving /\ srv.conn[c].tasks # <<>> /\ Head(srv.conn[c].tasks) = "streaming"
  /\ EventsOut(srv.conn[c]) = Events
  /\ \/ /\ srv.conn[c].open
        /\ srv' = Ended([srv EXCEPT !.conn[c].wire = Append(@, "end"), !.resp = @ + 1],
                        c, Limited)
     \/ /\ ~srv.conn[c].open
        /\ \E counted \in {0, 1} : srv' = Ended([srv EXCEPT !.resp = @ + counted], c, Limited)

SrvNext ==
  \/ \E w \in PoolWorkers : w \in Servers /\ (WorkerUp(w) \/ AwaitWorker(w))
  \/ AwaitEcho \/ StopServer_ \/ EchoThreadEnds
  \/ \E c \in Conns : \/ ReceivePart(c) \/ data_received(c) \/ Disconnect(c)
                      \/ connection_lost(c) \/ _handle_request(c) \/ FirstBytes(c)
                      \/ StreamEvent(c) \/ StreamEnd(c)

-----------------------------------------------------------------------------
(***************************************************************************)
(* The echo server's answer                                                *)
(***************************************************************************)

\* max_osl cuts a longer text and repeats a shorter one; only lengths matter.
EchoLength(length) ==
  IF length = 0 \/ MaxOsl = 0 THEN length
  ELSE IF length > MaxOsl THEN MaxOsl
  ELSE Min({length * (MaxOsl \div length + 1), MaxOsl})

\* A server that failed to start or was stopped has no worker process left (only
\* the echo thread may outlive its stop(), until it sees the flag), and one that
\* is up has heard from each worker.  A slot is never lost or handed out twice,
\* whenever a client goes away; on a connection the answers follow each other
\* whole, one per request, and the counters cover each of them.
ServersAreSound ==
  srv.stage # "idle" =>
    /\ srv.stage = "down" => \A w \in Servers : srv.worker[w] = "gone"
    /\ srv.stage = "up" /\ srv.kind # "echo" => srv.awaited = Servers
    /\ srv.free + Cardinality({c \in Conns : srv.conn[c].tasks # <<>>
                                 /\ Limited /\ Head(srv.conn[c].tasks) # "new"}) = Slots
    /\ srv.free >= 0
    /\ \A c \in Conns :
         LET k == srv.conn[c]
         IN  /\ Len(k.tasks) <= 1
             /\ Answered(k) <= k.asked
             /\ \A i \in DOMAIN k.wire :
                  k.wire[i] = "begin" => i = 1 \/ k.wire[i - 1] = "end"
             /\ \A i \in DOMAIN k.wire :
                  srv.stream /\ srv.kind # "max" /\ k.wire[i] = "end" =>
                    i > Events + 1 /\ k.wire[i - Events - 1] = "begin"
    /\ LET done == FoldSet(LAMBDA c, sum : Answered(srv.conn[c]) + sum, 0, Conns)
       IN  done <= srv.resp /\ srv.resp <= srv.req
    /\ MaxOsl > 0 => \A n \in 1..2 * MaxOsl : EchoLength(n) = MaxOsl
=============================================================================
