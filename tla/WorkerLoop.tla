----------------------------- MODULE WorkerLoop -----------------------------
(***************************************************************************)
(* One worker process of the endpoint client: Worker.run with its warm-up, *)
(* main loop and clean-up, the ConnectionPool it takes connections from,   *)
(* and the HttpResponseProtocol of every connection.                       *)
(*                                                                         *)
(* Sources: endpoint_client/worker.py and endpoint_client/http.py.         *)
(*                                                                         *)
(* The process is one event loop.  An action is what runs between two      *)
(* suspensions: a read callback, a connection_lost callback, a response    *)
(* task from its wake-up to its next await, or the main loop from one      *)
(* await to the next.  A future that a callback resolves wakes its task    *)
(* later (fut is no longer "pending"), and other callbacks run in between. *)
(* The endpoint is external: it answers the request a connection carries,  *)
(* in packets, or closes the connection.                                   *)
(***************************************************************************)
EXTENDS Naturals, SequencesExt

CONSTANTS
    NQ,          \* queries sent to this worker
    Conns,       \* identities of TCP connections
    MaxConns,    \* settings of max_connections of this worker's pool
    WarmCount,   \* connections the warm-up asks for; 0: no warm-up
    Troubles,    \* connections the endpoint may close or refuse (bound)
    EncodeFails, \* encode_query may raise
    BadBytes,    \* the endpoint may send bytes the HTTP parser rejects
    Streaming,   \* the queries that ask for a streamed response
    Shutdowns    \* SIGTERM may arrive

ASSUME WorkerAssumption ==
    /\ NQ \in Nat /\ MaxConns \subseteq Nat \ {0}
    /\ \A max \in MaxConns : WarmCount \in 0..max
    /\ Troubles \in Nat
    /\ {EncodeFails, BadBytes, Shutdowns} \subseteq BOOLEAN
    /\ Streaming \subseteq 1..NQ /\ IsFiniteSet(Conns)

VARIABLES
    main,      \* where run() is suspended
    shutdown,  \* Worker._shutdown
    next,      \* the query recv() returns next
    creating,  \* ConnectionPool._creating
    pool,      \* the limit, the connections, _idle_stack, and whether the
               \* waiter was notified
    due,       \* connection -> query whose response the endpoint still owes on it
    task,      \* query -> its _process_response task
    answers,   \* query -> the final results sent for it: whose response they are
               \* made of and whether it was cut off
    troubles

vars == <<main, shutdown, next, creating, pool, due, task, answers, troubles>>

Queries == 1..NQ

NoTask == [pc |-> "none", c |-> CHOOSE c \in Conns : TRUE, fut |-> "pending"]

(* A connection: its transport, its place in the pool, its protocol flags.  *)
Fresh ==
    [st |-> "none", tracked |-> FALSE, inUse |-> FALSE, fin |-> FALSE, lost |-> FALSE,
     hdr |-> FALSE, ok |-> TRUE, part |-> FALSE, msg |-> FALSE, exc |-> FALSE,
     close |-> FALSE, of |-> 0]

Live(t) == t.pc \in {"headers", "errbody", "body", "stream"}

Tracked(p) == {c \in Conns : p.conn[c].tracked}

Init ==
    /\ main = IF WarmCount = 0 THEN "recv" ELSE "warmup"
    /\ shutdown = FALSE /\ next = 1
    /\ creating = WarmCount
    /\ \E max \in MaxConns :
        pool = [max |-> max, conn |-> [c \in Conns |-> Fresh], idle |-> <<>>,
                notified |-> FALSE]
    /\ due = [c \in Conns |-> 0]
    /\ task = [q \in Queries |-> NoTask]
    /\ answers = [q \in Queries |-> <<>>]
    /\ troubles = Troubles

-----------------------------------------------------------------------------
(* ConnectionPool, on the value of `pool`.                                  *)

IsAlive(k) == ~k.lost /\ k.st = "open"

ShouldClose(k) == k.close \/ k.lost \/ k.exc

Reusable(k) == IsAlive(k) /\ ~ShouldClose(k)

ResetConn(k) ==
    [k EXCEPT !.hdr = FALSE, !.ok = TRUE, !.part = FALSE, !.msg = FALSE, !.exc = FALSE,
              !.close = FALSE, !.of = 0]

CloseConn(k) ==
    [k EXCEPT !.st = IF k.st = "open" THEN "closing" ELSE k.st, !.tracked = FALSE]

CloseAll(p, S) ==
    [p EXCEPT !.conn = [c \in Conns |-> IF c \in S THEN CloseConn(@[c]) ELSE @[c]]]

Notify(p) == [p EXCEPT !.notified = @ \/ main = "waiting"]

Release(p, c) ==
    LET k == p.conn[c] IN
    IF ~k.inUse THEN p
    ELSE IF ~Reusable(k) THEN Notify(CloseAll(p, {c}))
    ELSE Notify([p EXCEPT !.conn[c] = ResetConn([k EXCEPT !.inUse = FALSE]),
                          !.idle = Append(@, c)])

(* The idle stack is ordered by last_used.  Its entries up to position old  *)
(* have been idle longer than max_idle_time, those above probed for less    *)
(* than the second within which is_stale() does not probe the socket.       *)
Usable(p, i, old, probed) ==
    LET k == p.conn[p.idle[i]] IN i > old /\ IsAlive(k) /\ (i > probed \/ ~k.fin)

TopUsable(p, old, probed) ==
    Max({0} \cup {i \in DOMAIN p.idle : Usable(p, i, old, probed)})

TryGetIdle(p, old, probed) ==
    LET n == TopUsable(p, old, probed)
        dropped == {p.idle[i] : i \in (n + 1)..Len(p.idle)}
        rest == [CloseAll(p, dropped) EXCEPT !.idle = SubSeq(@, 1, n - 1)]
    IN  IF n = 0 THEN [CloseAll(p, dropped) EXCEPT !.idle = <<>>]
        ELSE [rest EXCEPT !.conn[p.idle[n]] = ResetConn([@ EXCEPT !.inUse = TRUE])]

CanCreate(p) == Cardinality(Tracked(p)) + creating < p.max

(* A lost connection that left the pool is forgotten: nothing refers to it. *)
Forget(p, c) ==
    IF p.conn[c].st = "gone" /\ ~p.conn[c].tracked THEN [p EXCEPT !.conn[c] = Fresh] ELSE p

(* An identity for a new connection.                                        *)
Unused == {c \in Conns : pool.conn[c].st = "none"}

NewConn == CHOOSE c \in Unused : TRUE

Connected(p, c) ==
    [p EXCEPT !.conn[c] = [Fresh EXCEPT !.st = "open", !.tracked = TRUE, !.inUse = TRUE]]

-----------------------------------------------------------------------------
(* Worker: warm-up and main loop.                                           *)

HandleError(q) ==
    answers' = IF shutdown THEN answers
               ELSE [answers EXCEPT ![q] = Append(@, [of |-> q, cut |-> "no"])]

(* The request is written and its response task starts: the task runs       *)
(* eagerly to read_headers(), which waits for the headers.                  *)
Write(q, c) ==
    /\ due' = [due EXCEPT ![c] = q]
    /\ task' = [task EXCEPT ![q] = [pc |-> "headers", c |-> c, fut |-> "pending"]]
    /\ main' = "recv"
    /\ next' = q + 1

(* ConnectionPool.acquire: an idle connection, else a new one, else wait.   *)
Acquire(q, p) ==
    \E old \in 0..Len(p.idle) : \E probed \in old..Len(p.idle) :
        LET n == TopUsable(p, old, probed)
            p2 == TryGetIdle(p, old, probed)
        IN  IF n # 0
            THEN /\ pool' = p2
                 /\ Write(q, p.idle[n])
                 /\ UNCHANGED creating
            ELSE /\ pool' = p2
                 /\ IF CanCreate(p2)
                    THEN main' = "connecting" /\ creating' = creating + 1
                    ELSE main' = "waiting" /\ UNCHANGED creating
                 /\ UNCHANGED <<due, task, next>>

(* recv() returns a query: prepare and fire its request.                    *)
Receive ==
    /\ main = "recv" /\ ~shutdown /\ next <= NQ
    /\ Acquire(next, pool)
    /\ UNCHANGED <<shutdown, answers, troubles>>

(* encode_query raises: the main loop logs it and goes on.                  *)
PrepareFails ==
    /\ EncodeFails
    /\ main = "recv" /\ ~shutdown /\ next <= NQ
    /\ next' = next + 1
    /\ task' = [task EXCEPT ![next].pc = "unprepared"]
    /\ UNCHANGED <<main, shutdown, creating, pool, due, answers, troubles>>

(* A released connection woke the waiter.                                   *)
WaiterResumes ==
    /\ main = "waiting" /\ pool.notified
    /\ Acquire(next, [pool EXCEPT !.notified = FALSE])
    /\ UNCHANGED <<shutdown, answers, troubles>>

ConnectDone ==
    /\ main = "connecting"
    /\ Unused # {}
    /\ pool' = Connected(pool, NewConn)
    /\ Write(next, NewConn)
    /\ creating' = creating - 1
    /\ UNCHANGED <<shutdown, answers, troubles>>

ConnectFails ==
    /\ main = "connecting" /\ troubles > 0
    /\ troubles' = troubles - 1
    /\ creating' = creating - 1
    /\ HandleError(next)
    /\ main' = "recv" /\ next' = next + 1
    /\ UNCHANGED <<shutdown, pool, due, task>>

WarmConnected ==
    /\ main = "warmup" /\ creating > 0
    /\ Unused # {}
    /\ pool' = Connected(pool, NewConn)
    /\ creating' = creating - 1
    /\ UNCHANGED <<main, shutdown, next, due, task, answers, troubles>>

WarmRefused ==
    /\ main = "warmup" /\ creating > 0 /\ troubles > 0
    /\ troubles' = troubles - 1
    /\ creating' = creating - 1
    /\ UNCHANGED <<main, shutdown, next, pool, due, task, answers>>

(* gather() returned: the connections that are still good are released to   *)
(* the idle stack, the others are closed; none left is fatal.               *)
WarmDone ==
    /\ main = "warmup" /\ creating = 0
    /\ LET good == {c \in Tracked(pool) : Reusable(pool.conn[c])} IN
       pool' = [pool EXCEPT
                   !.conn = [c \in Conns |->
                                IF c \in good THEN ResetConn([@[c] EXCEPT !.inUse = FALSE])
                                ELSE IF c \in Tracked(pool) THEN CloseConn(@[c]) ELSE @[c]],
                   !.idle = SetToSeq(good)]
    /\ main' = IF pool'.idle = <<>> THEN "exited" ELSE "recv"
    /\ UNCHANGED <<shutdown, next, creating, due, task, answers, troubles>>

-----------------------------------------------------------------------------
(* _process_response, from its wake-up to its next await.                   *)

Done == [NoTask EXCEPT !.pc = "done"]

(* Success: release, send, and release again in the finally block, with no  *)
(* suspension between them.  A buffered body may not decode.                *)
Succeed(q) ==
    LET t == task[q]
        k == pool.conn[t.c]
    IN  /\ pool' = Forget(Release(Release(pool, t.c), t.c), t.c)
        /\ task' = [task EXCEPT ![q] = Done]
        /\ \/ answers' = [answers EXCEPT ![q] =
                   Append(@, [of |-> k.of,
                              cut |-> IF k.msg THEN "no" ELSE IF q \in Streaming THEN "stream" ELSE "body"])]
           \/ q \notin Streaming /\ HandleError(q)

(* A status other than 200, once its body is read.                          *)
Rejected(q) ==
    /\ pool' = Forget(Release(Release(pool, task[q].c), task[q].c), task[q].c)
    /\ task' = [task EXCEPT ![q] = Done]
    /\ HandleError(q)

Failed(q) ==
    /\ HandleError(q)
    /\ pool' = Forget(Release(pool, task[q].c), task[q].c)
    /\ task' = [task EXCEPT ![q] = Done]

Await(q, pc) ==
    /\ task' = [task EXCEPT ![q].pc = pc, ![q].fut = "pending"]
    /\ UNCHANGED <<pool, answers>>

(* read_body() and iter_body() at the point where they look at the flags.   *)
ReadBody(q, pc, whenRead) ==
    IF pool.conn[task[q].c].msg THEN whenRead ELSE Await(q, pc)

IterBody(q) ==
    LET k == pool.conn[task[q].c] IN
    IF k.msg \/ k.lost THEN Succeed(q) ELSE Await(q, "stream")

Resume(q) ==
    LET t == task[q]
        k == pool.conn[t.c]
    IN  /\ Live(t) /\ t.fut # "pending"
        /\ IF t.fut = "error" THEN Failed(q)
           ELSE CASE t.pc = "headers" /\ ~k.ok -> ReadBody(q, "errbody", Rejected(q))
                  [] t.pc = "headers" /\ k.ok /\ q \in Streaming -> IterBody(q)
                  [] t.pc = "headers" /\ k.ok /\ q \notin Streaming -> ReadBody(q, "body", Succeed(q))
                  [] t.pc = "errbody" -> Rejected(q)
                  [] t.pc = "body" -> Succeed(q)
                  [] t.pc = "stream" -> IterBody(q)
        /\ UNCHANGED <<main, shutdown, next, creating, due, troubles>>

-----------------------------------------------------------------------------
(* HttpResponseProtocol callbacks.                                          *)

(* The task waiting on connection c gets what the callback resolves for it. *)
Waking(c, outcome) ==
    [q \in Queries |->
        IF task[q].c = c /\ Live(task[q]) /\ task[q].fut = "pending"
        THEN [task[q] EXCEPT !.fut = outcome[task[q].pc]] ELSE task[q]]

(* data_received: the packet completes the headers, adds to the body,       *)
(* completes the message, or is rejected by the parser, in this order and   *)
(* several at once.  A rejected packet fails the futures that exist; a part *)
(* of a body matters to a task that waits in iter_body() only.              *)
Packet(c, hdr, body, end, bad) ==
    LET k == pool.conn[c] IN
    /\ due[c] # 0 /\ k.st = "open" /\ ~k.fin /\ ~k.exc
    /\ k.hdr \/ hdr \/ bad
    /\ end => k.hdr \/ hdr
    /\ k.hdr => ~hdr /\ (body \/ end \/ bad)
    /\ bad => BadBytes /\ ~end
    /\ body => ~k.part /\ \E q \in Queries : task[q].c = c /\ task[q].pc = "stream"
    /\ \E status \in IF hdr THEN BOOLEAN ELSE {k.ok}, close \in IF hdr THEN BOOLEAN ELSE {k.close} :
        pool' = [pool EXCEPT !.conn[c] =
                    [k EXCEPT !.hdr = k.hdr \/ hdr, !.ok = status, !.close = close,
                              !.part = k.part \/ body, !.msg = end, !.exc = bad, !.of = due[c]]]
    /\ LET read == IF end THEN "ok" ELSE IF bad THEN "error" ELSE "pending"
       IN  task' = Waking(c, [headers |-> IF hdr THEN "ok" ELSE "error",
                              errbody |-> read, body |-> read,
                              stream |-> IF body \/ end THEN "ok" ELSE "pending"])
    /\ due' = [due EXCEPT ![c] = IF end THEN 0 ELSE @]
    /\ UNCHANGED <<main, shutdown, next, creating, answers, troubles>>

DataReceived(c) == \E hdr, body, end, bad \in BOOLEAN : Packet(c, hdr, body, end, bad)

(* The endpoint closes its side.                                            *)
EndpointCloses(c) ==
    /\ troubles > 0 /\ pool.conn[c].st = "open" /\ ~pool.conn[c].fin
    /\ troubles' = troubles - 1
    /\ pool' = [pool EXCEPT !.conn[c].fin = TRUE]
    /\ UNCHANGED <<main, shutdown, next, creating, due, task, answers>>

(* eof_received() that returns True: the transport stays half-open.         *)
EofReceived_KeepOpen(c) ==
    /\ pool.conn[c].fin /\ pool.conn[c].st = "open"
    /\ pool' = [pool EXCEPT !.conn[c].lost = TRUE]
    /\ task' = Waking(c, [headers |-> "pending", errbody |-> "pending", body |-> "pending",
                          stream |-> "ok"])
    /\ UNCHANGED <<main, shutdown, next, creating, due, answers, troubles>>

(* eof_received: it returns False, so the transport closes.                 *)
EofReceived(c) ==
    /\ pool.conn[c].fin /\ pool.conn[c].st = "open"
    /\ pool' = [pool EXCEPT !.conn[c].lost = TRUE, !.conn[c].st = "closing"]
    /\ task' = Waking(c, [headers |-> "pending", errbody |-> "pending", body |-> "pending",
                          stream |-> "ok"])
    /\ UNCHANGED <<main, shutdown, next, creating, due, answers, troubles>>

(* connection_lost() that hands a pending read_body() what has arrived.     *)
ConnectionLost_PartialBody(c) ==
    /\ pool.conn[c].st = "closing"
    /\ \A q \in Queries : task[q].c = c /\ Live(task[q]) => task[q].fut = "pending"
    /\ pool' = Forget([pool EXCEPT !.conn[c].lost = TRUE, !.conn[c].st = "gone",
                                   !.conn[c].exc = FALSE], c)
    /\ task' = Waking(c, [headers |-> "error", errbody |-> "ok", body |-> "ok",
                          stream |-> "ok"])
    /\ due' = [due EXCEPT ![c] = 0]
    /\ UNCHANGED <<main, shutdown, next, creating, answers, troubles>>

(* connection_lost is scheduled behind the wake-ups already queued.         *)
ConnectionLost(c) ==
    /\ pool.conn[c].st = "closing"
    /\ \A q \in Queries : task[q].c = c /\ Live(task[q]) => task[q].fut = "pending"
    /\ pool' = Forget([pool EXCEPT !.conn[c].lost = TRUE, !.conn[c].st = "gone",
                                   !.conn[c].exc = FALSE], c)
    /\ task' = Waking(c, [headers |-> "error", errbody |-> "error", body |-> "error",
                          stream |-> "ok"])
    /\ due' = [due EXCEPT ![c] = 0]
    /\ UNCHANGED <<main, shutdown, next, creating, answers, troubles>>

-----------------------------------------------------------------------------
(* Shutdown.                                                                *)

Shutdown ==
    /\ Shutdowns /\ ~shutdown /\ main # "exited"
    /\ shutdown' = TRUE
    /\ UNCHANGED <<main, next, creating, pool, due, task, answers, troubles>>

(* The main loop ends at its loop condition or when recv() returns None;    *)
(* _cleanup cancels the response tasks and closes the pool.                 *)
Exit ==
    /\ main = "recv" /\ shutdown
    /\ main' = "exited"
    /\ task' = [q \in Queries |-> IF Live(task[q]) THEN [task[q] EXCEPT !.pc = "cancelled"]
                                  ELSE task[q]]
    /\ pool' = [CloseAll(pool, Tracked(pool)) EXCEPT !.idle = <<>>]
    /\ UNCHANGED <<shutdown, next, creating, due, answers, troubles>>

MainLoop ==
    \/ Receive \/ PrepareFails \/ WaiterResumes \/ ConnectDone \/ ConnectFails
    \/ WarmConnected \/ WarmRefused \/ WarmDone \/ Exit

Next ==
    \/ MainLoop
    \/ Shutdown
    \/ \E q \in Queries : Resume(q)
    \/ \E c \in Conns : DataReceived(c)
    \/ \E c \in Conns : EndpointCloses(c)
    \/ \E c \in Conns : EofReceived(c)
    \/ \E c \in Conns : ConnectionLost(c)

Spec == Init /\ [][Next]_vars

(* The loop runs what is ready, and the endpoint finishes the responses it  *)
(* owes on a connection it has not closed.  At most one of the three things *)
(* a connection may have to do is possible at a time.                       *)
Completes(c) == \E hdr \in BOOLEAN : Packet(c, hdr, FALSE, TRUE, FALSE)

FairSpec ==
    /\ Spec
    /\ WF_vars(MainLoop)
    /\ \A q \in Queries : WF_vars(Resume(q))
    /\ \A c \in Conns : WF_vars(Completes(c) \/ EofReceived(c) \/ ConnectionLost(c))

-----------------------------------------------------------------------------
(* Type correctness.  A connection is tracked at most from its creation to  *)
(* its closing, and the stack holds connections, each at most once.         *)
TypeOK ==
    /\ main \in {"warmup", "recv", "connecting", "waiting", "exited"}
    /\ shutdown \in BOOLEAN /\ next \in 1..(NQ + 1)
    /\ creating \in 0..pool.max
    /\ \A c \in Conns : pool.conn[c].st \in {"none", "open", "closing", "gone"}
    /\ due \in [Conns -> 0..NQ]
    /\ pool.notified => main = "waiting"
    /\ \A i, j \in DOMAIN pool.idle : pool.idle[i] = pool.idle[j] => i = j

(* The pool never holds more connections than max_connections, counting the *)
(* ones being created, whatever closes, fails or is discarded meanwhile.    *)
CapHolds == Cardinality(Tracked(pool)) + creating <= pool.max

(* A connection serves one request at a time, and what waits in the idle    *)
(* stack for reuse owes no bytes of an earlier response: reset() throws the *)
(* parser away, so left-over bytes would be read as the next response.      *)
OneRequestPerConnection ==
    /\ \A q, r \in Queries : Live(task[q]) /\ Live(task[r]) /\ task[q].c = task[r].c => q = r
    /\ \A c \in Range(pool.idle) :
        /\ due[c] = 0 \/ ~IsAlive(pool.conn[c])
        /\ \A q \in Queries : Live(task[q]) => task[q].c # c

(* A query has at most one final result; it is made of that query's own     *)
(* response; and a buffered body is answered whole or with an error.        *)
(* Outside a shutdown, a response task that ended has sent its result.      *)
AnswerIsOwn ==
    \A q \in Queries :
        /\ ~shutdown /\ task[q].pc = "done" => answers[q] # <<>>
        /\ Len(answers[q]) <= 1
        /\ \A i \in DOMAIN answers[q] :
            /\ answers[q][i].of = q
            /\ answers[q][i].cut # "body"


(* While the main loop waits for a connection, every slot of the pool is    *)
(* held by a request that will release it: no wake-up was lost, and none is *)
(* left behind in the idle stack.                                           *)
WaiterHasReleaser ==
    main = "waiting" /\ ~pool.notified =>
        /\ pool.idle = <<>>
        /\ Cardinality(Tracked(pool)) = pool.max
        /\ \A c \in Tracked(pool) : \E q \in Queries : Live(task[q]) /\ task[q].c = c

(* The pool's bookkeeping is right in every interleaving of the main loop,  *)
(* the response tasks and the transport's callbacks.                        *)
PoolIsSound == TypeOK /\ CapHolds /\ OneRequestPerConnection /\ WaiterHasReleaser

(* A query whose request could be prepared is answered, unless the worker   *)
(* is told to stop or could not warm up; and a worker told to stop leaves   *)
(* its main loop, also when it was waiting for a connection.  A connection  *)
(* that received bytes the parser rejects may keep its request, and with it *)
(* a slot of the pool, for ever: nothing is promised after that.            *)
EveryQueryAnswered ==
    \/ <>(\E c \in Conns : pool.conn[c].exc)
    \/ <>[](\/ main = "exited"
            \/ ~shutdown /\ \A q \in Queries :
                               answers[q] # <<>> \/ task[q].pc = "unprepared")

(* The pool and the answers together: a connection serves one request at a  *)
(* time within the limits, and what a query is told is its own answer.      *)
RequestsAreSound == PoolIsSound /\ AnswerIsOwn

=============================================================================
