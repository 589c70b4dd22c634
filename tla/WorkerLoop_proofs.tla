-------------------------- MODULE WorkerLoop_proofs --------------------------
(***************************************************************************)
(* Machine-checked proofs about WorkerLoop, for every number of queries,   *)
(* every set of connections, every pool limit and warm-up.                 *)
(*                                                                         *)
(* The argument follows one connection through its life.  While a response *)
(* task holds it, it is tracked and in use, and it owes that task's query  *)
(* or nobody; when it returns to the idle stack it owes nothing, because   *)
(* the task has read the message to its end; when it is closed instead, it *)
(* leaves the pool and its slot.                                           *)
(***************************************************************************)
EXTENDS WorkerLoop, FiniteSetTheorems, WellFoundedInduction, TLAPS

\* The domains of a connection, of a response task and of an answer.
Connection ==
  [st : {"none", "open", "closing", "gone"}, tracked : BOOLEAN, inUse : BOOLEAN,
   fin : BOOLEAN, lost : BOOLEAN, hdr : BOOLEAN, ok : BOOLEAN, part : BOOLEAN,
   msg : BOOLEAN, exc : BOOLEAN, close : BOOLEAN, of : 0..NQ]

Pool == [max : MaxConns, conn : [Conns -> Connection], idle : Seq(Conns), notified : BOOLEAN]

IsTask(t) ==
  /\ t = [pc |-> t.pc, c |-> t.c, fut |-> t.fut]
  /\ t.pc \in {"none", "unprepared", "headers", "errbody", "body", "stream", "done", "cancelled"}
  /\ t.fut \in {"pending", "ok", "error"}

Types ==
  /\ main \in {"warmup", "recv", "connecting", "waiting", "exited"}
  /\ shutdown \in BOOLEAN /\ next \in 1..(NQ + 1) /\ creating \in Nat
  /\ pool \in Pool
  /\ due \in [Conns -> 0..NQ]
  /\ DOMAIN task = Queries /\ \A q \in Queries : IsTask(task[q])
  /\ answers \in [Queries -> Seq([of : 0..NQ, cut : {"no", "body", "stream"}])]

\* What holds of connection k that owes the response to query d.
ConnFits(k, d) ==
  /\ k.tracked => k.st # "none"
  /\ k.lost => k.st \in {"closing", "gone"}
  /\ k.st \in {"none", "gone"} => d = 0
  /\ k.msg => k.hdr /\ d = 0

\* What holds of a live response task t of query q over its connection k.
TaskFits(q, t, k, d) ==
  /\ k.tracked /\ k.inUse /\ d \in {0, q}
  /\ k.hdr => k.of = q
  /\ t.pc = "headers" => (t.fut = "pending" => ~k.hdr) /\ (t.fut = "ok" => k.hdr)
  /\ t.pc # "headers" => k.hdr
  /\ t.pc \in {"errbody", "body"} /\ t.fut = "ok" => k.msg
  /\ t.fut = "error" => k.exc \/ k.lost
  /\ t.pc = "stream" => q \in Streaming

\* The task of query q holds connection c.
Holds(q, c) == Live(task[q]) /\ task[q].c = c

Connections == \A c \in Conns : ConnFits(pool.conn[c], due[c])

Tasks ==
  \A q \in Queries : Live(task[q]) =>
    /\ task[q].c \in Conns
    /\ TaskFits(q, task[q], pool.conn[task[q].c], due[task[q].c])

\* A tracked connection is idle or held, never both; only a held one owes
\* something to somebody who listens.
Holders ==
  /\ \A q, r \in Queries, c \in Conns : Holds(q, c) /\ Holds(r, c) => q = r
  /\ \A c \in Range(pool.idle) : pool.conn[c].tracked /\ ~pool.conn[c].inUse
  /\ \A i, j \in DOMAIN pool.idle : pool.idle[i] = pool.idle[j] => i = j
  /\ \A c \in Conns : pool.conn[c].st = "open" /\ due[c] # 0 => \E q \in Queries : Holds(q, c)
  /\ main # "warmup" =>
       \A c \in Tracked(pool) : c \in Range(pool.idle) \/ \E q \in Queries : Holds(q, c)

\* The main loop's own part of the bookkeeping.
MainFits ==
  /\ main = "connecting" => creating = 1
  /\ main \notin {"warmup", "connecting"} => creating = 0
  /\ main = "warmup" => pool.idle = <<>> /\ \A q \in Queries : ~Live(task[q])
  /\ main \in {"connecting", "waiting"} => next <= NQ
  /\ pool.notified => main = "waiting"
  /\ CapHolds
  /\ main = "waiting" /\ ~pool.notified =>
       pool.idle = <<>> /\ Cardinality(Tracked(pool)) = pool.max

Answered ==
  \A q \in Queries :
    /\ q >= next => task[q].pc = "none"
    /\ q >= next \/ Live(task[q]) => answers[q] = <<>>
    /\ ~shutdown /\ task[q].pc = "done" => answers[q] # <<>>
    /\ Len(answers[q]) <= 1
    /\ \A i \in DOMAIN answers[q] : answers[q][i].of = q /\ answers[q][i].cut # "body"

WorkerInv == Types /\ Connections /\ Tasks /\ Holders /\ MainFits /\ Answered

-----------------------------------------------------------------------------
(***************************************************************************)
(* Connections and the pool                                                *)
(***************************************************************************)

\* The components of a pool.
LEMMA PoolParts ==
  ASSUME NEW p
  PROVE  p \in Pool => /\ p.max \in MaxConns /\ p.max \in Nat \ {0}
                       /\ p.conn \in [Conns -> Connection]
                       /\ p.idle \in Seq(Conns) /\ p.notified \in BOOLEAN
  BY WorkerAssumption DEF Pool

\* The effect of closing, of resetting and of forgetting on one connection.
LEMMA CloseConnKeeps ==
  ASSUME NEW k \in Connection
  PROVE  /\ CloseConn(k) \in Connection
         /\ ~CloseConn(k).tracked /\ CloseConn(k).st # "open"
         /\ k.st # "open" => CloseConn(k).st = k.st
         /\ k.st = "open" => CloseConn(k).st = "closing"
         /\ CloseConn(k).lost = k.lost /\ CloseConn(k).msg = k.msg
         /\ CloseConn(k).hdr = k.hdr /\ CloseConn(k).inUse = k.inUse
         /\ CloseConn(CloseConn(k)) = CloseConn(k)
  BY DEF CloseConn, Connection

LEMMA ResetConnKeeps ==
  ASSUME NEW k \in Connection, NEW b \in BOOLEAN,
         NEW r, r = ResetConn([k EXCEPT !.inUse = b])
  PROVE  /\ r \in Connection
         /\ r.st = k.st /\ r.tracked = k.tracked /\ r.lost = k.lost
         /\ r.inUse = b /\ ~r.hdr /\ ~r.msg
<1> DEFINE h == [k EXCEPT !.inUse = b]
<1>1. /\ h \in Connection /\ h.inUse = b
      /\ h.st = k.st /\ h.tracked = k.tracked /\ h.lost = k.lost
  BY DEF Connection
<1>2. r = ResetConn(h)
  OBVIOUS
<1> HIDE DEF h
<1>3. r = [h EXCEPT !.hdr = FALSE, !.ok = TRUE, !.part = FALSE, !.msg = FALSE,
                    !.exc = FALSE, !.close = FALSE, !.of = 0]
  BY <1>2 DEF ResetConn
<1>4. r \in Connection
  <2>1. 0 \in 0..NQ
    BY WorkerAssumption
  <2> QED
    BY ZenonT(60), <1>1, <1>3, <2>1 DEF Connection
<1>5. /\ r.st = h.st /\ r.tracked = h.tracked /\ r.lost = h.lost
      /\ r.inUse = h.inUse /\ r.hdr = FALSE /\ r.msg = FALSE
  BY <1>1, <1>3 DEF Connection
<1> QED
  BY <1>1, <1>4, <1>5

LEMMA FreshIsClean ==
  /\ Fresh \in Connection
  /\ ~Fresh.tracked /\ Fresh.st = "none" /\ ~Fresh.lost /\ ~Fresh.msg /\ ~Fresh.hdr
  BY WorkerAssumption DEF Fresh, Connection

\* Closing connections changes those connections and nothing else.
LEMMA CloseAllKeeps ==
  ASSUME NEW p \in Pool, NEW S
  PROVE  /\ CloseAll(p, S) \in Pool
         /\ CloseAll(p, S).max = p.max /\ CloseAll(p, S).idle = p.idle
         /\ CloseAll(p, S).notified = p.notified
         /\ \A c \in Conns : CloseAll(p, S).conn[c] =
                                IF c \in S THEN CloseConn(p.conn[c]) ELSE p.conn[c]
<1> DEFINE f == [c \in Conns |-> IF c \in S THEN CloseConn(p.conn[c]) ELSE p.conn[c]]
<1>1. p.conn \in [Conns -> Connection]
  BY PoolParts
<1>2. \A c \in Conns : f[c] \in Connection
  BY <1>1, CloseConnKeeps
<1>3. f \in [Conns -> Connection]
  BY <1>2
<1>4. CloseAll(p, S) = [p EXCEPT !.conn = f]
  BY DEF CloseAll, Pool
<1>5. \A c \in Conns : f[c] = IF c \in S THEN CloseConn(p.conn[c]) ELSE p.conn[c]
  OBVIOUS
<1> HIDE DEF f
<1> QED
  BY <1>3, <1>4, <1>5 DEF Pool

\* What releasing a connection in use does: a reusable one goes to the top of
\* the idle stack, another one is closed; the waiter is notified either way.
Released(p, r, c) ==
  /\ r \in Pool /\ r.max = p.max
  /\ r.notified = (p.notified \/ main = "waiting")
  /\ \A d \in Conns \ {c} : r.conn[d] = p.conn[d]
  /\ IF Reusable(p.conn[c])
     THEN /\ r.conn[c] = ResetConn([p.conn[c] EXCEPT !.inUse = FALSE])
          /\ r.idle = Append(p.idle, c)
     ELSE /\ r.conn[c] = CloseConn(p.conn[c])
          /\ r.idle = p.idle

LEMMA ReleaseOnce ==
  ASSUME NEW p \in Pool, NEW c \in Conns, p.conn[c].inUse
  PROVE  Released(p, Release(p, c), c)
<1> DEFINE k == p.conn[c]
<1>1. /\ p.conn \in [Conns -> Connection] /\ k \in Connection /\ p.idle \in Seq(Conns)
      /\ p.notified \in BOOLEAN /\ p.max \in MaxConns
      /\ (p.notified \/ main = "waiting") \in BOOLEAN
  BY PoolParts
<1>2. CASE ~Reusable(k)
  <2>1. Release(p, c) = [CloseAll(p, {c}) EXCEPT !.notified = @ \/ main = "waiting"]
    BY <1>2 DEF Release, Notify
  <2> DEFINE z == CloseAll(p, {c})
  <2>2. /\ z \in Pool /\ z.max = p.max /\ z.idle = p.idle /\ z.notified = p.notified
        /\ z.conn[c] = CloseConn(k) /\ \A d \in Conns \ {c} : z.conn[d] = p.conn[d]
    BY CloseAllKeeps
  <2> HIDE DEF z
  <2> QED
    BY <1>1, <1>2, <2>1, <2>2 DEF Released, Pool, z
<1>3. CASE Reusable(k)
  <2> DEFINE r == ResetConn([k EXCEPT !.inUse = FALSE])
             s == Append(p.idle, c)
             f == [p.conn EXCEPT ![c] = r]
             b == p.notified \/ main = "waiting"
  <2>1. Release(p, c) = [p EXCEPT !.conn = f, !.idle = s, !.notified = b]
    BY <1>1, <1>3 DEF Release, Notify, Pool
  <2>2. r \in Connection /\ s \in Seq(Conns) /\ f \in [Conns -> Connection] /\ b \in BOOLEAN
    <3>1. r \in Connection
      BY <1>1, ResetConnKeeps
    <3> HIDE DEF r
    <3> QED
      BY <1>1, <3>1
  <2>3. f[c] = r /\ \A d \in Conns \ {c} : f[d] = p.conn[d]
    BY <1>1
  <2> HIDE DEF f, b, s, r
  <2>4. Release(p, c) \in Pool
    BY <1>1, <2>1, <2>2 DEF Pool
  <2> QED
    BY <1>3, <2>1, <2>2, <2>3, <2>4 DEF Released, Pool, f, b, s, r
<1> QED
  BY <1>2, <1>3

\* A nonempty set of naturals with an upper bound has a greatest element.
LEMMA GreatestNat ==
  ASSUME NEW S \in SUBSET Nat, S # {}, NEW n \in Nat, \A i \in S : i <= n
  PROVE  Max(S) \in S /\ \A i \in S : i <= Max(S)
<1> DEFINE T == {j \in Nat : n - j \in S}
<1>1. T # {}
  <2>1. PICK i \in S : TRUE
    OBVIOUS
  <2>2. n - i \in Nat /\ n - (n - i) = i
    BY <2>1
  <2>3. n - i \in T
    BY <2>1, <2>2
  <2> QED
    BY <2>3
<1>2. T \subseteq Nat
  OBVIOUS
<1> HIDE DEF T
<1>3. PICK j \in T : \A i \in T : ~(<<i, j>> \in OpToRel(<, Nat))
  BY <1>1, <1>2, NatLessThanWellFounded, WFMin
<1>4. \A i \in T : ~(i < j)
  BY <1>2, <1>3 DEF OpToRel
<1>5. n - j \in S
  BY DEF T
<1>6. \A i \in S : i <= n - j
  <2> SUFFICES ASSUME NEW i \in S, ~(i <= n - j)
               PROVE  FALSE
    OBVIOUS
  <2>1. n - i \in Nat /\ n - (n - i) = i /\ i \in Nat /\ j \in Nat
    BY <1>2
  <2>2. n - i \in T
    BY <2>1 DEF T
  <2>3. ~(n - i < j)
    BY <1>4, <2>2
  <2> QED
    BY <2>1, <2>3
<1>7. \E x \in S : \A y \in S : x >= y
  <2>1. \A i \in S : n - j >= i
    BY <1>2, <1>5, <1>6
  <2> QED
    BY <1>5, <2>1
<1>8. Max(S) = CHOOSE x \in S : \A y \in S : x >= y
  BY DEF Max
<1>9. Max(S) \in S /\ \A y \in S : Max(S) >= y
  BY <1>7, <1>8
<1> QED
  BY <1>9

\* What searching the idle stack from its top leaves behind.
LEMMA TopUsableFits ==
  ASSUME NEW p \in Pool, NEW old \in Nat, NEW probed \in Nat
  PROVE  /\ TopUsable(p, old, probed) \in 0..Len(p.idle)
         /\ TopUsable(p, old, probed) # 0
              => IsAlive(p.conn[p.idle[TopUsable(p, old, probed)]])
<1> DEFINE U == {i \in DOMAIN p.idle : Usable(p, i, old, probed)}
           S == {0} \cup U
<1>1. Len(p.idle) \in Nat /\ DOMAIN p.idle = 1..Len(p.idle)
  BY PoolParts
<1>2. S \in SUBSET Nat /\ S # {} /\ \A i \in S : i <= Len(p.idle)
  BY <1>1
<1>3. TopUsable(p, old, probed) = Max(S)
  BY DEF TopUsable
<1>4. U \subseteq 1..Len(p.idle) /\ \A i \in U : IsAlive(p.conn[p.idle[i]])
  BY <1>1 DEF Usable
<1>5. S = {0} \cup U
  OBVIOUS
<1> HIDE DEF S, U
<1> DEFINE m == Max(S)
<1>6. m \in S
  BY <1>1, <1>2, GreatestNat
<1> HIDE DEF m
<1>7. m = 0 \/ m \in U
  BY <1>5, <1>6
<1>8. m \in 0..Len(p.idle) /\ (m # 0 => IsAlive(p.conn[p.idle[m]]))
  <2>1. CASE m = 0
    BY <1>1, <2>1
  <2>2. CASE m \in U
    <3>1. m \in 1..Len(p.idle)
      BY <1>4, <2>2
    <3>2. IsAlive(p.conn[p.idle[m]])
      BY <1>4, <2>2
    <3> QED
      BY <1>1, <3>1, <3>2
  <2> QED
    BY <1>7, <2>1, <2>2
<1> QED
  BY <1>3, <1>8 DEF m

\* What _try_get_idle finds, and what it has closed on the way.
Found(p, r, n) ==
  /\ r \in Pool /\ r.max = p.max /\ r.notified = p.notified
  /\ IF n = 0
     THEN /\ r.idle = <<>>
          /\ \A c \in Conns : r.conn[c] = IF c \in Range(p.idle) THEN CloseConn(p.conn[c])
                                          ELSE p.conn[c]
     ELSE /\ n \in DOMAIN p.idle /\ IsAlive(p.conn[p.idle[n]])
          /\ r.idle = SubSeq(p.idle, 1, n - 1)
          /\ r.conn[p.idle[n]] = ResetConn([p.conn[p.idle[n]] EXCEPT !.inUse = TRUE])
          /\ \A c \in Conns \ {p.idle[n]} :
               r.conn[c] = IF \E i \in (n + 1)..Len(p.idle) : c = p.idle[i]
                           THEN CloseConn(p.conn[c]) ELSE p.conn[c]

LEMMA TryGetIdleFinds ==
  ASSUME NEW p \in Pool, NEW old \in Nat, NEW probed \in Nat,
         \A i, j \in DOMAIN p.idle : p.idle[i] = p.idle[j] => i = j
  PROVE  Found(p, TryGetIdle(p, old, probed), TopUsable(p, old, probed))
<1> DEFINE n == TopUsable(p, old, probed)
           dropped == {p.idle[i] : i \in (n + 1)..Len(p.idle)}
           z == CloseAll(p, dropped)
<1>1. /\ p.idle \in Seq(Conns) /\ Len(p.idle) \in Nat /\ DOMAIN p.idle = 1..Len(p.idle)
      /\ p.conn \in [Conns -> Connection] /\ p.max \in MaxConns
  BY PoolParts
<1>2. n \in 0..Len(p.idle) /\ (n # 0 => IsAlive(p.conn[p.idle[n]]))
  BY TopUsableFits
<1>3. /\ z \in Pool /\ z.max = p.max /\ z.idle = p.idle /\ z.notified = p.notified
      /\ \A c \in Conns : z.conn[c] = IF c \in dropped THEN CloseConn(p.conn[c]) ELSE p.conn[c]
  BY CloseAllKeeps
<1>4. TryGetIdle(p, old, probed) =
        IF n = 0 THEN [z EXCEPT !.idle = <<>>]
        ELSE [[z EXCEPT !.idle = SubSeq(@, 1, n - 1)]
                EXCEPT !.conn[p.idle[n]] = ResetConn([@ EXCEPT !.inUse = TRUE])]
  BY DEF TryGetIdle
<1>5. \A c : c \in dropped <=> \E i \in (n + 1)..Len(p.idle) : c = p.idle[i]
  OBVIOUS
<1> HIDE DEF n, z, dropped
<1>6. CASE n = 0
  <2>1. dropped = Range(p.idle)
    <3>1. (n + 1)..Len(p.idle) = DOMAIN p.idle
      BY <1>1, <1>6
    <3>2. \A c : c \in Range(p.idle) <=> \E i \in DOMAIN p.idle : c = p.idle[i]
      BY DEF Range
    <3>3. \A c : c \in dropped <=> c \in Range(p.idle)
      BY <1>5, <3>1, <3>2
    <3> QED
      BY <3>3
  <2>2. <<>> \in Seq(Conns)
    OBVIOUS
  <2> DEFINE r == [z EXCEPT !.idle = <<>>]
  <2>3. r \in Pool /\ r.max = z.max /\ r.notified = z.notified /\ r.idle = <<>> /\ r.conn = z.conn
    BY <1>3, <2>2 DEF Pool
  <2>4. TryGetIdle(p, old, probed) = r
    BY <1>4, <1>6
  <2> HIDE DEF r
  <2> QED
    BY <1>3, <1>6, <2>1, <2>3, <2>4 DEF Found, n
<1>7. CASE n # 0
  <2> DEFINE c == p.idle[n]
             s == SubSeq(p.idle, 1, n - 1)
             k == ResetConn([p.conn[c] EXCEPT !.inUse = TRUE])
             f == [z.conn EXCEPT ![c] = k]
             r == [z EXCEPT !.idle = s, !.conn = f]
  <2>1. n \in DOMAIN p.idle /\ c \in Conns /\ s \in Seq(Conns)
    BY <1>1, <1>2, <1>7
  <2>2. c \notin dropped
    <3> SUFFICES ASSUME NEW i \in (n + 1)..Len(p.idle), c = p.idle[i]
                 PROVE  FALSE
      BY <1>5
    <3>1. i \in DOMAIN p.idle /\ i # n
      BY <1>1, <1>2
    <3> QED
      BY <2>1, <3>1
  <2>3. z.conn[c] = p.conn[c] /\ p.conn[c] \in Connection /\ z.conn \in [Conns -> Connection]
    BY <1>1, <1>3, <2>1, <2>2, PoolParts
  <2>4. k \in Connection
    BY ZenonT(60), <2>3, ResetConnKeeps
  <2>5. TryGetIdle(p, old, probed) = r
    BY <1>3, <1>4, <1>7, <2>3 DEF Pool
  <2> HIDE DEF k, s, c
  <2>6. f \in [Conns -> Connection] /\ f[c] = k /\ \A d \in Conns \ {c} : f[d] = z.conn[d]
    BY <2>1, <2>3, <2>4
  <2> HIDE DEF f
  <2>7. r \in Pool /\ r.max = z.max /\ r.notified = z.notified /\ r.idle = s /\ r.conn = f
    BY <1>3, <2>1, <2>6 DEF Pool
  <2> HIDE DEF r
  <2>8. \A d \in Conns \ {c} : r.conn[d] = IF \E i \in (n + 1)..Len(p.idle) : d = p.idle[i]
                                           THEN CloseConn(p.conn[d]) ELSE p.conn[d]
    BY <1>3, <1>5, <2>6, <2>7
  <2>9. Found(p, r, n)
    BY <1>2, <1>3, <1>7, <2>1, <2>6, <2>7, <2>8 DEF Found, k, s, c
  <2> QED
    BY <2>5, <2>9 DEF n
<1> QED
  BY <1>6, <1>7

\* The connections on the idle stack.
LEMMA RangeIs ==
  ASSUME NEW f, NEW x
  PROVE  x \in Range(f) <=> \E i \in DOMAIN f : f[i] = x
  BY DEF Range

LEMMA PushKeeps ==
  ASSUME NEW s \in Seq(Conns), NEW c \in Conns, c \notin Range(s),
         \A i, j \in DOMAIN s : s[i] = s[j] => i = j
  PROVE  /\ \A x : x \in Range(Append(s, c)) <=> x \in Range(s) \/ x = c
         /\ \A i, j \in DOMAIN Append(s, c) : Append(s, c)[i] = Append(s, c)[j] => i = j
<1> DEFINE t == Append(s, c)
<1>1. /\ Len(s) \in Nat /\ DOMAIN s = 1..Len(s) /\ DOMAIN t = 1..(Len(s) + 1)
      /\ t[Len(s) + 1] = c /\ \A i \in 1..Len(s) : t[i] = s[i]
  OBVIOUS
<1> HIDE DEF t
<1>2. \A i \in DOMAIN t : i \in DOMAIN s \/ i = Len(s) + 1
  BY <1>1
<1>3. \A i \in DOMAIN s : i \in DOMAIN t /\ t[i] = s[i] /\ s[i] # c
  BY <1>1, RangeIs
<1>4. Len(s) + 1 \in DOMAIN t
  BY <1>1
<1>5. \A x : x \in Range(t) <=> x \in Range(s) \/ x = c
  <2> SUFFICES ASSUME NEW x
               PROVE  (\E i \in DOMAIN t : t[i] = x) <=> (\E i \in DOMAIN s : s[i] = x) \/ x = c
    BY RangeIs
  <2> QED
    BY <1>1, <1>2, <1>3, <1>4
<1>6. \A i, j \in DOMAIN t : t[i] = t[j] => i = j
  BY <1>1, <1>2, <1>3
<1> QED
  BY <1>5, <1>6 DEF t

\* A pool that tracks no more than before takes no more slots.
LEMMA NoMoreTracked ==
  ASSUME NEW p, NEW r, Tracked(r) \subseteq Tracked(p)
  PROVE  /\ IsFiniteSet(Tracked(p)) /\ IsFiniteSet(Tracked(r))
         /\ Cardinality(Tracked(r)) \in Nat /\ Cardinality(Tracked(p)) \in Nat
         /\ Cardinality(Tracked(r)) <= Cardinality(Tracked(p))
<1>1. Tracked(p) \subseteq Conns /\ IsFiniteSet(Conns)
  BY WorkerAssumption DEF Tracked
<1>2. IsFiniteSet(Tracked(p))
  BY <1>1, FS_Subset
<1>3. IsFiniteSet(Tracked(r)) /\ Cardinality(Tracked(r)) <= Cardinality(Tracked(p))
  BY <1>2, FS_Subset
<1> QED
  BY <1>2, <1>3, FS_CardinalityType

\* A record of a task is a task; the marker of a finished one is not live.
LEMMA DoneIsTask ==
  IsTask(Done) /\ ~Live(Done) /\ Done.pc = "done"
<1> DEFINE x == CHOOSE c \in Conns : TRUE
<1>1. NoTask = [pc |-> "none", c |-> x, fut |-> "pending"]
  BY DEF NoTask
<1> HIDE DEF x
<1>2. Done = [pc |-> "done", c |-> x, fut |-> "pending"]
  BY <1>1 DEF Done
<1> QED
  BY <1>2 DEF IsTask, Live

\* What becomes of a connection that is released: an idle one, clean, or one
\* that is closed and has left the pool, forgotten if it is lost already.
LEMMA ReleaseOutcome ==
  ASSUME WorkerInv, NEW c \in Conns, pool.conn[c].inUse, pool.conn[c].tracked,
         NEW r, r = Forget(Release(pool, c), c)
  PROVE  /\ r \in Pool /\ r.max = pool.max
         /\ r.notified = (pool.notified \/ main = "waiting")
         /\ \A d \in Conns \ {c} : r.conn[d] = pool.conn[d]
         /\ r.conn[c] \in Connection
         /\ \/ /\ Reusable(pool.conn[c]) /\ r.idle = Append(pool.idle, c)
               /\ r.conn[c].st = "open" /\ r.conn[c].tracked /\ ~r.conn[c].inUse
               /\ ~r.conn[c].lost /\ ~r.conn[c].msg
            \/ /\ r.idle = pool.idle /\ ~r.conn[c].tracked /\ r.conn[c].st # "open"
               /\ ConnFits(r.conn[c], due[c])
<1> DEFINE z == Release(pool, c)
           k == pool.conn[c]
<1>1. pool \in Pool /\ k \in Connection /\ ConnFits(k, due[c]) /\ k.inUse = TRUE
  BY PoolParts DEF WorkerInv, Types, Connections, Connection
<1>2. Released(pool, z, c)
  BY <1>1, ReleaseOnce
<1>3. z \in Pool /\ z.conn \in [Conns -> Connection]
  BY <1>2, PoolParts DEF Released
<1> HIDE DEF z, k
<1>4. CASE Reusable(k)
  <2>1. z.conn[c] = ResetConn([k EXCEPT !.inUse = FALSE]) /\ z.idle = Append(pool.idle, c)
    BY <1>2, <1>4 DEF Released, k
  <2>2. k.st = "open" /\ ~k.lost /\ k.tracked
    BY <1>4 DEF Reusable, IsAlive, k
  <2>3. /\ z.conn[c].st = "open" /\ z.conn[c].tracked /\ ~z.conn[c].inUse
        /\ ~z.conn[c].lost /\ ~z.conn[c].msg
    BY <1>1, <2>1, <2>2, ResetConnKeeps
  <2>4. r = z
    BY <2>3 DEF Forget, z
  <2> QED
    BY <1>2, <1>3, <1>4, <2>1, <2>3, <2>4 DEF Released, k
<1>5. CASE ~Reusable(k)
  <2>1. z.conn[c] = CloseConn(k) /\ z.idle = pool.idle
    BY <1>2, <1>5 DEF Released, k
  <2>2. /\ ~z.conn[c].tracked /\ z.conn[c].st # "open"
        /\ ConnFits(z.conn[c], due[c])
    BY <1>1, <2>1, CloseConnKeeps DEF ConnFits, Connection
  <2>3. CASE z.conn[c].st # "gone"
    <3>1. r = z
      BY <2>3 DEF Forget, z
    <3> QED
      BY <1>2, <1>3, <2>1, <2>2, <3>1 DEF Released
  <2>4. CASE z.conn[c].st = "gone"
    <3>1. r = [z EXCEPT !.conn[c] = Fresh]
      BY <2>2, <2>4 DEF Forget, z
    <3>2. due[c] = 0
      BY <2>2, <2>4 DEF ConnFits
    <3>3. /\ r \in Pool /\ r.max = z.max /\ r.notified = z.notified /\ r.idle = z.idle
          /\ r.conn[c] = Fresh /\ \A d \in Conns \ {c} : r.conn[d] = z.conn[d]
      <4> DEFINE f == [z.conn EXCEPT ![c] = Fresh]
      <4>1. f \in [Conns -> Connection] /\ f[c] = Fresh /\ \A d \in Conns \ {c} : f[d] = z.conn[d]
        BY <1>3, FreshIsClean
      <4>2. r = [z EXCEPT !.conn = f]
        BY <1>3, <3>1 DEF Pool
      <4> HIDE DEF f
      <4> QED
        BY <1>3, <4>1, <4>2 DEF Pool
    <3>4. ConnFits(Fresh, due[c])
      BY <3>2, FreshIsClean DEF ConnFits
    <3> QED
      BY <1>2, <2>1, <3>3, <3>4, FreshIsClean DEF Released
  <2> QED
    BY <2>3, <2>4
<1> QED
  BY <1>4, <1>5

\* The second release, in the finally block, changes nothing.
LEMMA ReleaseTwice ==
  ASSUME NEW p \in Pool, NEW c \in Conns, p.conn[c].inUse,
         NEW z, z = Release(p, c)
  PROVE  Release(z, c) = z
<1> DEFINE k == p.conn[c]
<1>1. Released(p, z, c) /\ k \in Connection /\ k.inUse = TRUE
  BY ReleaseOnce, PoolParts DEF Connection
<1>2. z \in Pool /\ z.conn \in [Conns -> Connection]
  BY <1>1, PoolParts DEF Released
<1> HIDE DEF k
<1>3. CASE Reusable(k)
  <2>1. z.conn[c] = ResetConn([k EXCEPT !.inUse = FALSE])
    BY <1>1, <1>3 DEF Released, k
  <2>2. ~z.conn[c].inUse
    BY <1>1, <2>1, ResetConnKeeps
  <2> QED
    BY <2>2 DEF Release
<1>4. CASE ~Reusable(k)
  <2>1. z.conn[c] = CloseConn(k) /\ z.notified = (p.notified \/ main = "waiting")
    BY <1>1, <1>4 DEF Released, k
  <2>2. /\ z.conn[c].inUse /\ ~Reusable(z.conn[c])
        /\ CloseConn(z.conn[c]) = z.conn[c]
    BY <1>1, <2>1, CloseConnKeeps DEF Reusable, IsAlive
  <2> DEFINE f == [d \in Conns |-> IF d \in {c} THEN CloseConn(z.conn[d]) ELSE z.conn[d]]
  <2>3. f = z.conn
    BY <1>2, <2>2
  <2>4. CloseAll(z, {c}) = [z EXCEPT !.conn = f]
    BY DEF CloseAll, Pool
  <2> HIDE DEF f
  <2>5. CloseAll(z, {c}) = z
    BY <1>2, <2>3, <2>4 DEF Pool
  <2>6. (z.notified \/ main = "waiting") = z.notified /\ z.notified \in BOOLEAN
    BY <1>2, <2>1, PoolParts
  <2>7. [z EXCEPT !.notified = @ \/ main = "waiting"] = z
    BY <1>2, <2>6 DEF Pool
  <2>8. Release(z, c) = Notify(CloseAll(z, {c}))
    BY <2>2 DEF Release
  <2>9. Notify(z) = z
    BY <2>7 DEF Notify
  <2> QED
    BY <2>5, <2>8, <2>9
<1> QED
  BY <1>3, <1>4

\* A response task ends: its connection is released, its result is sent
\* unless the worker is shutting down.
LEMMA TaskEnds ==
  ASSUME WorkerInv, NEW q \in Queries, Live(task[q]),
         Reusable(pool.conn[task[q].c]) => due[task[q].c] = 0,
         pool' = Forget(Release(pool, task[q].c), task[q].c),
         task' = [task EXCEPT ![q] = Done],
         \/ shutdown /\ answers' = answers
         \/ \E cut \in {"no", "stream"} :
              answers' = [answers EXCEPT ![q] = Append(@, [of |-> q, cut |-> cut])],
         UNCHANGED <<main, shutdown, next, creating, due>>
  PROVE  WorkerInv'
<1> DEFINE c == task[q].c
<1>1. /\ Types /\ Connections /\ Tasks /\ Holders /\ MainFits /\ Answered
      /\ main # "warmup"
  BY DEF WorkerInv, MainFits
<1>2. /\ c \in Conns /\ pool.conn[c].tracked /\ pool.conn[c].inUse
      /\ Holds(q, c)
  BY <1>1 DEF Tasks, TaskFits, Holds
<1> HIDE DEF c
<1>3. /\ pool' \in Pool /\ pool'.max = pool.max
      /\ pool'.notified = (pool.notified \/ main = "waiting")
      /\ \A d \in Conns \ {c} : pool'.conn[d] = pool.conn[d]
      /\ pool'.conn[c] \in Connection
      /\ \/ /\ Reusable(pool.conn[c]) /\ pool'.idle = Append(pool.idle, c)
            /\ pool'.conn[c].st = "open" /\ pool'.conn[c].tracked /\ ~pool'.conn[c].inUse
            /\ ~pool'.conn[c].lost /\ ~pool'.conn[c].msg
         \/ /\ pool'.idle = pool.idle /\ ~pool'.conn[c].tracked /\ pool'.conn[c].st # "open"
            /\ ConnFits(pool'.conn[c], due[c])
  <2>1. pool' = Forget(Release(pool, c), c)
    BY DEF c
  <2> QED
    BY <1>2, <2>1, ReleaseOutcome
<1>4. Reusable(pool.conn[c]) => due[c] = 0
  BY DEF c
<1>5. \A r \in Queries : (Live(task'[r]) <=> Live(task[r]) /\ r # q)
                      /\ (r # q => task'[r] = task[r])
  BY <1>1, DoneIsTask DEF Types
<1>6. \A r \in Queries, d \in Conns : Holds(r, d)' <=> Holds(r, d) /\ r # q
  BY <1>5 DEF Holds
<1>7. \A r \in Queries : Live(task[r]) /\ r # q => task[r].c \in Conns \ {c}
  BY <1>1, <1>2 DEF Holders, Holds, Tasks
<1>8. c \notin Range(pool.idle)
  BY <1>1, <1>2 DEF Holders
<1>9. /\ \A x : x \in Range(pool'.idle) => x \in Range(pool.idle) \/ (x = c /\ Reusable(pool.conn[c]) /\ pool'.conn[c].tracked)
      /\ \A x : x \in Range(pool.idle) => x \in Range(pool'.idle)
      /\ pool'.conn[c].tracked => c \in Range(pool'.idle) /\ ~pool'.conn[c].inUse
      /\ \A i, j \in DOMAIN pool'.idle : pool'.idle[i] = pool'.idle[j] => i = j
  <2>1. pool.idle \in Seq(Conns) /\ \A i, j \in DOMAIN pool.idle : pool.idle[i] = pool.idle[j] => i = j
    BY <1>1, PoolParts DEF Holders, Types
  <2>2. CASE pool'.idle = pool.idle /\ ~pool'.conn[c].tracked
    BY <2>1, <2>2
  <2>3. CASE /\ Reusable(pool.conn[c]) /\ pool'.idle = Append(pool.idle, c)
             /\ pool'.conn[c].tracked /\ ~pool'.conn[c].inUse
    <3>1. /\ \A x : x \in Range(pool'.idle) <=> x \in Range(pool.idle) \/ x = c
          /\ \A i, j \in DOMAIN pool'.idle : pool'.idle[i] = pool'.idle[j] => i = j
      <4> DEFINE s == pool.idle
      <4>1. /\ s \in Seq(Conns) /\ c \notin Range(s) /\ pool'.idle = Append(s, c)
            /\ \A i, j \in DOMAIN s : s[i] = s[j] => i = j
        BY <1>8, <2>1, <2>3
      <4> HIDE DEF s
      <4>2. /\ \A x : x \in Range(Append(s, c)) <=> x \in Range(s) \/ x = c
            /\ \A i, j \in DOMAIN Append(s, c) : Append(s, c)[i] = Append(s, c)[j] => i = j
        BY <1>2, <4>1, PushKeeps
      <4> QED
        BY <4>1, <4>2 DEF s
    <3> QED
      BY <2>3, <3>1
  <2> QED
    BY <1>3, <2>2, <2>3
<1>10. Types'
  <2>1. answers' \in [Queries -> Seq([of : 0..NQ, cut : {"no", "body", "stream"}])]
    <3> DEFINE A == [of : 0..NQ, cut : {"no", "body", "stream"}]
    <3>1. answers \in [Queries -> Seq(A)]
      BY <1>1 DEF Types
    <3>2. CASE \E cut \in {"no", "stream"} :
                 answers' = [answers EXCEPT ![q] = Append(@, [of |-> q, cut |-> cut])]
      <4>1. PICK cut \in {"no", "stream"} :
                 answers' = [answers EXCEPT ![q] = Append(@, [of |-> q, cut |-> cut])]
        BY <3>2
      <4> DEFINE a == [of |-> q, cut |-> cut]
      <4>2. a \in A /\ answers' = [answers EXCEPT ![q] = Append(@, a)]
        BY <4>1, WorkerAssumption DEF Queries
      <4> HIDE DEF A, a
      <4>3. Append(answers[q], a) \in Seq(A)
        <5>1. answers[q] \in Seq(A)
          BY <3>1
        <5> QED
          BY <4>2, <5>1
      <4> DEFINE s == Append(answers[q], a)
                 S == Seq(A)
      <4>4. answers' = [answers EXCEPT ![q] = s] /\ s \in S /\ answers \in [Queries -> S]
        BY <3>1, <4>2, <4>3
      <4> HIDE DEF s, S
      <4>5. answers' \in [Queries -> S]
        BY <4>4
      <4> QED
        BY <4>5 DEF S, A
    <3> QED
      BY <3>1, <3>2
  <2>2. DOMAIN task' = Queries /\ \A r \in Queries : IsTask(task'[r])
    BY <1>1, DoneIsTask DEF Types
  <2> QED
    BY <1>1, <1>3, <2>1, <2>2 DEF Types
<1>11. Connections'
  <2> SUFFICES ASSUME NEW d \in Conns
               PROVE  ConnFits(pool'.conn[d], due[d])
    BY DEF Connections
  <2>1. CASE d # c
    BY <1>1, <1>3, <2>1 DEF Connections
  <2>2. CASE d = c
    BY <1>3, <1>4, <2>2 DEF ConnFits
  <2> QED
    BY <2>1, <2>2
<1>12. Tasks'
  BY ZenonT(60), <1>1, <1>3, <1>5, <1>7 DEF Tasks
<1>13. Holders'
  <2>1. \A r, s \in Queries, d \in Conns : Holds(r, d)' /\ Holds(s, d)' => r = s
    BY <1>1, <1>6 DEF Holders
  <2>2. \A d \in Range(pool'.idle) : pool'.conn[d].tracked /\ ~pool'.conn[d].inUse
    <3> SUFFICES ASSUME NEW d \in Range(pool'.idle)
                 PROVE  pool'.conn[d].tracked /\ ~pool'.conn[d].inUse
      OBVIOUS
    <3>1. CASE d = c
      BY <1>8, <1>9, <3>1
    <3>2. CASE d # c
      <4>1. d \in Range(pool.idle) /\ d \in Conns
        BY <1>1, <1>9, <3>2, PoolParts, RangeIs DEF Types
      <4> QED
        BY <1>1, <1>3, <3>2, <4>1 DEF Holders
    <3> QED
      BY <3>1, <3>2
  <2>3. \A d \in Conns : pool'.conn[d].st = "open" /\ due[d] # 0
                          => \E r \in Queries : Holds(r, d)'
    <3> SUFFICES ASSUME NEW d \in Conns, pool'.conn[d].st = "open", due[d] # 0
                 PROVE  \E r \in Queries : Holds(r, d)'
      OBVIOUS
    <3>1. d # c
      BY <1>3, <1>4
    <3>2. PICK r \in Queries : Holds(r, d)
      BY <1>1, <1>3, <3>1 DEF Holders
    <3>3. r # q
      BY <1>2, <3>1, <3>2 DEF Holds
    <3> QED
      BY <1>6, <3>2, <3>3
  <2>4. \A d \in Tracked(pool') : d \in Range(pool'.idle) \/ \E r \in Queries : Holds(r, d)'
    <3> SUFFICES ASSUME NEW d \in Conns, pool'.conn[d].tracked
                 PROVE  d \in Range(pool'.idle) \/ \E r \in Queries : Holds(r, d)'
      BY DEF Tracked
    <3>1. CASE d = c
      BY <1>9, <3>1
    <3>2. CASE d # c
      <4>1. d \in Range(pool.idle) \/ \E r \in Queries : Holds(r, d)
        BY <1>1, <1>3, <3>2 DEF Holders, Tracked
      <4> QED
        BY <1>2, <1>6, <1>9, <3>2, <4>1 DEF Holds
    <3> QED
      BY <3>1, <3>2
  <2> QED
    BY <1>9, <2>1, <2>2, <2>3, <2>4 DEF Holders
<1>14. MainFits'
  <2>1. Tracked(pool') \subseteq Tracked(pool)
    BY <1>2, <1>3 DEF Tracked
  <2>2. CapHolds'
    <3>1. /\ Cardinality(Tracked(pool')) \in Nat /\ Cardinality(Tracked(pool)) \in Nat
          /\ Cardinality(Tracked(pool')) <= Cardinality(Tracked(pool))
      BY <2>1, NoMoreTracked
    <3>2. pool.max \in Nat /\ creating \in Nat /\ CapHolds
      BY <1>1, PoolParts DEF MainFits, Types
    <3>3. pool'.max = pool.max /\ creating' = creating
      BY <1>3
    <3> QED
      BY <3>1, <3>2, <3>3 DEF CapHolds
  <2> QED
    BY <1>1, <1>3, <2>2, PoolParts DEF MainFits, Types
<1>15. Answered'
  <2> SUFFICES ASSUME NEW r \in Queries
               PROVE  /\ r >= next => task'[r].pc = "none"
                      /\ r >= next \/ Live(task'[r]) => answers'[r] = <<>>
                      /\ ~shutdown /\ task'[r].pc = "done" => answers'[r] # <<>>
                      /\ Len(answers'[r]) <= 1
                      /\ \A i \in DOMAIN answers'[r] :
                           answers'[r][i].of = r /\ answers'[r][i].cut # "body"
    BY DEF Answered
  <2>1. CASE r # q
    <3>1. answers'[r] = answers[r] /\ task'[r] = task[r]
      BY <1>1, <1>5, <2>1 DEF Types
    <3> QED
      BY <1>1, <3>1 DEF Answered
  <2>2. CASE r = q
    <3>1. answers[q] = <<>> /\ ~(q >= next) /\ task'[q] = Done
      <4>1. task[q].pc # "none"
        BY DEF Live
      <4> QED
        BY <1>1, <4>1 DEF Answered, Types
    <3>2. CASE shutdown /\ answers' = answers
      BY <2>2, <3>1, <3>2, DoneIsTask
    <3>3. CASE \E cut \in {"no", "stream"} :
                 answers' = [answers EXCEPT ![q] = Append(@, [of |-> q, cut |-> cut])]
      <4>1. PICK cut \in {"no", "stream"} :
                 answers' = [answers EXCEPT ![q] = Append(@, [of |-> q, cut |-> cut])]
        BY <3>3
      <4>2. answers'[q] = << [of |-> q, cut |-> cut] >>
        BY <1>1, <3>1, <4>1 DEF Types
      <4> QED
        BY <2>2, <3>1, <4>2, DoneIsTask
    <3> QED
      BY <3>2, <3>3
  <2> QED
    BY <2>1, <2>2
<1> QED
  BY <1>10, <1>11, <1>12, <1>13, <1>14, <1>15 DEF WorkerInv


\* An event on connection c changes that connection, what it owes and the
\* future its task waits for; the bookkeeping around them stays as it was.
LEMMA EventKeeps ==
  ASSUME WorkerInv, NEW c \in Conns,
         UNCHANGED <<main, shutdown, next, creating, answers>>,
         pool' \in Pool, pool'.max = pool.max, pool'.idle = pool.idle,
         pool'.notified = pool.notified,
         \A d \in Conns \ {c} : pool'.conn[d] = pool.conn[d] /\ due'[d] = due[d],
         pool'.conn[c].tracked = pool.conn[c].tracked,
         pool'.conn[c].inUse => pool.conn[c].inUse,
         pool'.conn[c].st = "open" => pool.conn[c].st = "open",
         due' \in [Conns -> 0..NQ], due'[c] \in {0, due[c]},
         ConnFits(pool'.conn[c], due'[c]),
         DOMAIN task' = Queries,
         \A q \in Queries : /\ IsTask(task'[q]) /\ task'[q].c = task[q].c
                            /\ Live(task'[q]) <=> Live(task[q])
                            /\ ~Holds(q, c) => task'[q] = task[q],
         \A q \in Queries : Holds(q, c) => TaskFits(q, task'[q], pool'.conn[c], due'[c])
  PROVE  WorkerInv'
<1>1. Types /\ Connections /\ Tasks /\ Holders /\ MainFits /\ Answered
  BY DEF WorkerInv
<1>2. \A q \in Queries, d \in Conns : Holds(q, d)' <=> Holds(q, d)
  BY DEF Holds
<1>3. \A d \in Conns : pool'.conn[d].tracked = pool.conn[d].tracked
  OBVIOUS
<1>4. Types'
  BY <1>1 DEF Types
<1>5. Connections'
  BY <1>1 DEF Connections
<1>6. Tasks'
  <2> SUFFICES ASSUME NEW q \in Queries, Live(task'[q])
               PROVE  /\ task'[q].c \in Conns
                      /\ TaskFits(q, task'[q], pool'.conn[task'[q].c], due'[task'[q].c])
    BY DEF Tasks
  <2>1. CASE Holds(q, c)
    BY <2>1 DEF Holds
  <2>2. CASE ~Holds(q, c)
    BY <1>1, <2>2 DEF Holds, Tasks
  <2> QED
    BY <2>1, <2>2
<1>7. Holders'
  <2>1. \A x \in Range(pool.idle) : x \in Conns
    BY <1>1, PoolParts, RangeIs DEF Types
  <2>2. \A d \in Range(pool'.idle) : pool'.conn[d].tracked /\ ~pool'.conn[d].inUse
    BY <1>1, <2>1 DEF Holders
  <2>3. \A d \in Conns : pool'.conn[d].st = "open" /\ due'[d] # 0
                          => \E r \in Queries : Holds(r, d)'
    BY <1>1, <1>2 DEF Holders
  <2>4. main # "warmup" => \A d \in Tracked(pool') :
          d \in Range(pool'.idle) \/ \E r \in Queries : Holds(r, d)'
    BY <1>1, <1>2, <1>3 DEF Holders, Tracked
  <2> QED
    BY <1>1, <1>2, <2>2, <2>3, <2>4 DEF Holders
<1>8. MainFits'
  <2>1. Tracked(pool') = Tracked(pool)
    BY <1>3 DEF Tracked
  <2> QED
    BY <1>1, <2>1 DEF MainFits, CapHolds
<1>9. Answered'
  <2>1. \A q \in Queries : task'[q] # task[q] => Live(task'[q]) /\ Live(task[q])
    <3> SUFFICES ASSUME NEW q \in Queries, task'[q] # task[q]
                 PROVE  Live(task'[q]) /\ Live(task[q])
      OBVIOUS
    <3>1. Holds(q, c) /\ (Live(task'[q]) <=> Live(task[q]))
      OBVIOUS
    <3> QED
      BY <3>1 DEF Holds
  <2> QED
    BY <1>1, <2>1 DEF Answered, Live
<1> QED
  BY <1>4, <1>5, <1>6, <1>7, <1>8, <1>9 DEF WorkerInv

\* The wake-up of a task that goes on waiting.
LEMMA AwaitKeeps ==
  ASSUME WorkerInv, NEW q \in Queries, NEW pc \in {"errbody", "body", "stream"},
         Live(task[q]), pool.conn[task[q].c].hdr, pc = "stream" => q \in Streaming,
         Await(q, pc), UNCHANGED <<main, shutdown, next, creating, due>>
  PROVE  WorkerInv'
<1> DEFINE c == task[q].c
<1>1. Types /\ Connections /\ Tasks /\ Holders
  BY DEF WorkerInv
<1>2. /\ c \in Conns /\ Holds(q, c) /\ TaskFits(q, task[q], pool.conn[c], due[c])
      /\ IsTask(task[q])
  BY <1>1 DEF Tasks, Types, Holds
<1>3. task' = [task EXCEPT ![q] = [task[q] EXCEPT !.pc = pc, !.fut = "pending"]]
  BY <1>1 DEF Await, Types
<1>4. task'[q] = [pc |-> pc, c |-> c, fut |-> "pending"]
  BY <1>1, <1>2, <1>3 DEF Types, IsTask
<1>5. IsTask(task'[q]) /\ task'[q].c = c /\ Live(task'[q])
  BY <1>4 DEF IsTask, Live
<1>6. \A r \in Queries \ {q} : task'[r] = task[r] /\ IsTask(task[r])
  BY <1>1, <1>3 DEF Types
<1>7. TaskFits(q, task'[q], pool.conn[c], due[c])
  BY <1>2, <1>4 DEF TaskFits
<1>8. \A r \in Queries : Holds(r, c) <=> r = q
  BY <1>1, <1>2 DEF Holders
<1> HIDE DEF c
<1>9. pool' = pool /\ due' = due /\ pool \in Pool /\ DOMAIN task' = Queries
      /\ due \in [Conns -> 0..NQ] /\ UNCHANGED answers
      /\ ConnFits(pool.conn[c], due[c])
  BY <1>1, <1>2, <1>3 DEF Await, Types, Connections
<1>10. \A r \in Queries : /\ IsTask(task'[r]) /\ task'[r].c = task[r].c
                          /\ Live(task'[r]) <=> Live(task[r])
                          /\ ~Holds(r, c) => task'[r] = task[r]
  BY <1>5, <1>6, <1>8 DEF c
<1> QED
  BY <1>2, <1>7, <1>8, <1>9, <1>10, EventKeeps

\* A response read to its end, or a stream that was cut off.
LEMMA SucceedKeeps ==
  ASSUME WorkerInv, NEW q \in Queries, Live(task[q]), pool.conn[task[q].c].hdr,
         \/ pool.conn[task[q].c].msg
         \/ q \in Streaming /\ pool.conn[task[q].c].lost,
         Succeed(q), UNCHANGED <<main, shutdown, next, creating, due>>
  PROVE  WorkerInv'
<1> DEFINE c == task[q].c
           k == pool.conn[c]
<1>1. /\ c \in Conns /\ pool \in Pool /\ k.inUse /\ k.of = q
      /\ k.msg => due[c] = 0
  BY DEF WorkerInv, Tasks, TaskFits, Types, Connections, ConnFits
<1>2. Reusable(k) => due[c] = 0
  BY <1>1 DEF Reusable, IsAlive
<1>3. pool' = Forget(Release(pool, c), c)
  BY <1>1, ReleaseTwice DEF Succeed
<1>4. task' = [task EXCEPT ![q] = Done]
  BY DEF Succeed
<1>5. \/ shutdown /\ answers' = answers
      \/ \E cut \in {"no", "stream"} :
           answers' = [answers EXCEPT ![q] = Append(@, [of |-> q, cut |-> cut])]
  BY <1>1 DEF Succeed, HandleError
<1> HIDE DEF c, k
<1> QED
  BY <1>2, <1>3, <1>4, <1>5, TaskEnds DEF c, k

LEMMA RejectedKeeps ==
  ASSUME WorkerInv, NEW q \in Queries, Live(task[q]), pool.conn[task[q].c].msg,
         Rejected(q), UNCHANGED <<main, shutdown, next, creating, due>>
  PROVE  WorkerInv'
<1> DEFINE c == task[q].c
           k == pool.conn[c]
<1>1. /\ c \in Conns /\ pool \in Pool /\ k.inUse /\ due[c] = 0
  BY DEF WorkerInv, Tasks, TaskFits, Types, Connections, ConnFits
<1>2. pool' = Forget(Release(pool, c), c)
  BY <1>1, ReleaseTwice DEF Rejected
<1>3. task' = [task EXCEPT ![q] = Done]
  BY DEF Rejected
<1>4. \/ shutdown /\ answers' = answers
      \/ \E cut \in {"no", "stream"} :
           answers' = [answers EXCEPT ![q] = Append(@, [of |-> q, cut |-> cut])]
  BY DEF Rejected, HandleError
<1> HIDE DEF c, k
<1> QED
  BY <1>1, <1>2, <1>3, <1>4, TaskEnds DEF c

LEMMA FailedKeeps ==
  ASSUME WorkerInv, NEW q \in Queries, Live(task[q]), task[q].fut = "error",
         Failed(q), UNCHANGED <<main, shutdown, next, creating, due>>
  PROVE  WorkerInv'
<1> DEFINE c == task[q].c
           k == pool.conn[c]
<1>1. k.exc \/ k.lost
  BY DEF WorkerInv, Tasks, TaskFits
<1>2. ~Reusable(k)
  BY <1>1 DEF Reusable, IsAlive, ShouldClose
<1>3. pool' = Forget(Release(pool, c), c) /\ task' = [task EXCEPT ![q] = Done]
  BY DEF Failed
<1>4. \/ shutdown /\ answers' = answers
      \/ \E cut \in {"no", "stream"} :
           answers' = [answers EXCEPT ![q] = Append(@, [of |-> q, cut |-> cut])]
  BY DEF Failed, HandleError
<1> HIDE DEF c, k
<1> QED
  BY <1>2, <1>3, <1>4, TaskEnds DEF c, k

LEMMA ResumeKeeps ==
  ASSUME WorkerInv, NEW q \in Queries, Resume(q)
  PROVE  WorkerInv'
<1> DEFINE t == task[q]
           k == pool.conn[t.c]
<1>1. /\ Live(t) /\ t.fut # "pending"
      /\ UNCHANGED <<main, shutdown, next, creating, due>>
  BY DEF Resume
<1>2. CASE t.fut = "error"
  <2>1. Failed(q)
    BY <1>2 DEF Resume
  <2> QED
    BY <1>1, <1>2, <2>1, FailedKeeps
<1>3. CASE t.fut # "error"
  <2>1. t.fut = "ok" /\ TaskFits(q, t, k, due[t.c]) /\ k.hdr
    BY <1>1, <1>3 DEF WorkerInv, Types, IsTask, Tasks, TaskFits
  <2>2. CASE t.pc = "headers" /\ ~k.ok
    <3>1. ReadBody(q, "errbody", Rejected(q))
      BY <1>3, <2>2 DEF Resume
    <3>2. (k.msg /\ Rejected(q)) \/ Await(q, "errbody")
      BY <3>1 DEF ReadBody
    <3> QED
      BY <1>1, <2>1, <3>2, RejectedKeeps, AwaitKeeps
  <2>3. CASE t.pc = "stream" \/ (t.pc = "headers" /\ k.ok /\ q \in Streaming)
    <3>1. IterBody(q) /\ q \in Streaming
      BY <1>3, <2>1, <2>3 DEF Resume, TaskFits
    <3>2. ((k.msg \/ k.lost) /\ Succeed(q)) \/ Await(q, "stream")
      BY <3>1 DEF IterBody
    <3> QED
      BY <1>1, <2>1, <3>1, <3>2, SucceedKeeps, AwaitKeeps
  <2>4. CASE t.pc = "headers" /\ k.ok /\ q \notin Streaming
    <3>1. ReadBody(q, "body", Succeed(q))
      BY <1>3, <2>4 DEF Resume
    <3>2. (k.msg /\ Succeed(q)) \/ Await(q, "body")
      BY <3>1 DEF ReadBody
    <3> QED
      BY <1>1, <2>1, <3>2, SucceedKeeps, AwaitKeeps
  <2>5. CASE t.pc = "errbody"
    <3>1. Rejected(q) /\ k.msg
      BY <1>3, <2>1, <2>5 DEF Resume, TaskFits
    <3> QED
      BY <1>1, <3>1, RejectedKeeps
  <2>6. CASE t.pc = "body"
    <3>1. Succeed(q) /\ k.msg
      BY <1>3, <2>1, <2>6 DEF Resume, TaskFits
    <3> QED
      BY <1>1, <2>1, <3>1, SucceedKeeps
  <2>7. t.pc \in {"headers", "errbody", "body", "stream"} /\ (k.ok \/ ~k.ok)
    BY <1>1 DEF Live
  <2> QED
    BY <2>2, <2>3, <2>4, <2>5, <2>6, <2>7
<1> QED
  BY <1>2, <1>3


\* What waking the task of connection c does to the tasks.
LEMMA WakingIs ==
  ASSUME WorkerInv, NEW c \in Conns, NEW outcome,
         \A pc \in {"headers", "errbody", "body", "stream"} :
           outcome[pc] \in {"pending", "ok", "error"},
         task' = Waking(c, outcome)
  PROVE  /\ DOMAIN task' = Queries
         /\ \A q \in Queries : /\ IsTask(task'[q]) /\ task'[q].c = task[q].c
                               /\ Live(task'[q]) <=> Live(task[q])
                               /\ ~Holds(q, c) => task'[q] = task[q]
         /\ \A q \in Queries : Holds(q, c) =>
              /\ task'[q].pc = task[q].pc
              /\ task'[q].fut = IF task[q].fut = "pending" THEN outcome[task[q].pc]
                                ELSE task[q].fut
<1>1. DOMAIN task' = Queries
  BY DEF Waking
<1>2. ASSUME NEW q \in Queries
      PROVE  /\ IsTask(task'[q]) /\ task'[q].c = task[q].c
             /\ Live(task'[q]) <=> Live(task[q])
             /\ ~Holds(q, c) => task'[q] = task[q]
             /\ Holds(q, c) =>
                  /\ task'[q].pc = task[q].pc
                  /\ task'[q].fut = IF task[q].fut = "pending" THEN outcome[task[q].pc]
                                    ELSE task[q].fut
  <2>1. IsTask(task[q])
    BY DEF WorkerInv, Types
  <2>2. CASE Holds(q, c) /\ task[q].fut = "pending"
    <3>1. task'[q] = [task[q] EXCEPT !.fut = outcome[task[q].pc]]
      BY <2>2 DEF Waking, Holds
    <3>2. outcome[task[q].pc] \in {"pending", "ok", "error"}
      BY <2>2 DEF Holds, Live
    <3> DEFINE o == outcome[task[q].pc]
    <3> HIDE DEF o
    <3>3. task'[q] = [pc |-> task[q].pc, c |-> task[q].c, fut |-> o]
      BY <2>1, <3>1 DEF IsTask, o
    <3>4. IsTask(task'[q]) /\ (Live(task'[q]) <=> Live(task[q]))
      BY <2>1, <3>2, <3>3 DEF IsTask, Live, o
    <3> QED
      BY <2>2, <3>3, <3>4 DEF o
  <2>3. CASE ~(Holds(q, c) /\ task[q].fut = "pending")
    <3>1. task'[q] = task[q]
      BY <2>3 DEF Waking, Holds
    <3> QED
      BY <2>1, <2>3, <3>1
  <2> QED
    BY <2>2, <2>3
<1> QED
  BY <1>1, <1>2

\* A connection whose record is replaced, and the pool around it.
WithConn(p, c, k) == [p EXCEPT !.conn[c] = k]

LEMMA ConnReplaced ==
  ASSUME NEW p \in Pool, NEW c \in Conns, NEW k \in Connection,
         NEW r, r = WithConn(p, c, k)
  PROVE  /\ r \in Pool /\ r.max = p.max /\ r.idle = p.idle /\ r.notified = p.notified
         /\ r.conn[c] = k /\ \A d \in Conns \ {c} : r.conn[d] = p.conn[d]
<1>1. p.conn \in [Conns -> Connection]
  BY PoolParts
<1> DEFINE f == [p.conn EXCEPT ![c] = k]
<1>2. f \in [Conns -> Connection] /\ f[c] = k /\ \A d \in Conns \ {c} : f[d] = p.conn[d]
  BY <1>1
<1>3. r = [p EXCEPT !.conn = f]
  BY DEF Pool, WithConn
<1> HIDE DEF f
<1> QED
  BY <1>2, <1>3 DEF Pool

\* A connection that a packet has arrived on.
Arrived(k, h, status, close, b, end, bad, d) ==
  [k EXCEPT !.hdr = h, !.ok = status, !.close = close, !.part = b,
            !.msg = end, !.exc = bad, !.of = d]

\* A packet arrives.
LEMMA PacketKeeps ==
  ASSUME WorkerInv, NEW c \in Conns, NEW hdr \in BOOLEAN, NEW body \in BOOLEAN,
         NEW end \in BOOLEAN, NEW bad \in BOOLEAN, Packet(c, hdr, body, end, bad)
  PROVE  WorkerInv'
<1> DEFINE k == pool.conn[c]
<1>1. Types /\ Connections /\ Tasks /\ Holders
  BY DEF WorkerInv
<1>2. pool \in Pool /\ k \in Connection /\ due \in [Conns -> 0..NQ] /\ due[c] \in 0..NQ
  BY <1>1, PoolParts DEF Types
<1>3. PICK status \in (IF hdr THEN BOOLEAN ELSE {k.ok}),
           close \in (IF hdr THEN BOOLEAN ELSE {k.close}) :
        pool' = [pool EXCEPT !.conn[c] =
                    [k EXCEPT !.hdr = k.hdr \/ hdr, !.ok = status, !.close = close,
                              !.part = k.part \/ body, !.msg = end, !.exc = bad, !.of = due[c]]]
  BY DEF Packet
<1>4. status \in BOOLEAN /\ close \in BOOLEAN
  BY <1>2 DEF Connection
<1> DEFINE h == k.hdr \/ hdr
           b == k.part \/ body
           l == Arrived(k, h, status, close, b, end, bad, due[c])
<1>5. pool' = WithConn(pool, c, l)
  BY <1>3 DEF WithConn, Arrived
<1>6. h \in BOOLEAN /\ b \in BOOLEAN
  BY <1>2 DEF Connection
<1>7. /\ due[c] # 0 /\ k.st = "open" /\ ~k.exc /\ (k.hdr \/ hdr \/ bad)
      /\ (end => h) /\ (k.hdr => ~hdr)
      /\ due' = [due EXCEPT ![c] = IF end THEN 0 ELSE @]
      /\ UNCHANGED <<main, shutdown, next, creating, answers>>
  BY DEF Packet
<1> DEFINE read == IF end THEN "ok" ELSE IF bad THEN "error" ELSE "pending"
           outcome == [headers |-> IF hdr THEN "ok" ELSE "error",
                       errbody |-> read, body |-> read,
                       stream |-> IF body \/ end THEN "ok" ELSE "pending"]
<1>8. task' = Waking(c, outcome)
  BY DEF Packet
<1>9. /\ outcome["headers"] = IF hdr THEN "ok" ELSE "error"
      /\ outcome["errbody"] = read /\ outcome["body"] = read
      /\ outcome["stream"] = IF body \/ end THEN "ok" ELSE "pending"
  OBVIOUS
<1>10. \A pc \in {"headers", "errbody", "body", "stream"} :
           outcome[pc] \in {"pending", "ok", "error"}
  OBVIOUS
<1> HIDE DEF outcome, h, b
<1>11. /\ l \in Connection /\ l.st = k.st /\ l.tracked = k.tracked /\ l.inUse = k.inUse
       /\ l.lost = k.lost /\ l.hdr = h /\ l.msg = end /\ l.exc = bad /\ l.of = due[c]
  <2>1. k \in Connection /\ due[c] \in 0..NQ /\ l = Arrived(k, h, status, close, b, end, bad, due[c])
    BY <1>2
  <2> DEFINE d == due[c]
  <2>2. d \in 0..NQ /\ l = Arrived(k, h, status, close, b, end, bad, d)
    BY <2>1
  <2> HIDE DEF k, l, d
  <2>3. l = [st |-> k.st, tracked |-> k.tracked, inUse |-> k.inUse, fin |-> k.fin,
             lost |-> k.lost, hdr |-> h, ok |-> status, part |-> b, msg |-> end,
             exc |-> bad, close |-> close, of |-> d]
    BY <2>1, <2>2 DEF Connection, Arrived
  <2>4. /\ k.st \in {"none", "open", "closing", "gone"} /\ k.tracked \in BOOLEAN
        /\ k.inUse \in BOOLEAN /\ k.fin \in BOOLEAN /\ k.lost \in BOOLEAN
    BY <2>1 DEF Connection
  <2>5. l \in Connection
    BY <1>4, <1>6, <2>2, <2>3, <2>4 DEF Connection
  <2>6. /\ l.st = k.st /\ l.tracked = k.tracked /\ l.inUse = k.inUse
        /\ l.lost = k.lost /\ l.hdr = h /\ l.msg = end /\ l.exc = bad /\ l.of = d
    BY <2>3
  <2> QED
    BY <2>5, <2>6 DEF d
<1>12. ConnFits(k, due[c]) /\ ~k.lost /\ ~k.msg
  BY <1>1, <1>7 DEF Connections, ConnFits
<1>13. /\ due' \in [Conns -> 0..NQ] /\ due'[c] = (IF end THEN 0 ELSE due[c])
       /\ \A d \in Conns \ {c} : due'[d] = due[d]
  <2>1. 0 \in 0..NQ
    BY WorkerAssumption
  <2> QED
    BY <1>2, <1>7, <2>1
<1> HIDE DEF l, k
<1>14. ConnFits(l, due'[c])
  BY <1>7, <1>11, <1>12, <1>13 DEF ConnFits
<1>15. /\ pool' \in Pool /\ pool'.max = pool.max /\ pool'.idle = pool.idle
       /\ pool'.notified = pool.notified
       /\ pool'.conn[c] = l /\ \A d \in Conns \ {c} : pool'.conn[d] = pool.conn[d]
  BY <1>2, <1>5, <1>11, ConnReplaced
<1>16. /\ DOMAIN task' = Queries
       /\ \A q \in Queries : /\ IsTask(task'[q]) /\ task'[q].c = task[q].c
                             /\ Live(task'[q]) <=> Live(task[q])
                             /\ ~Holds(q, c) => task'[q] = task[q]
       /\ \A q \in Queries : Holds(q, c) =>
            /\ task'[q].pc = task[q].pc
            /\ task'[q].fut = IF task[q].fut = "pending" THEN outcome[task[q].pc]
                              ELSE task[q].fut
  BY <1>8, <1>10, WakingIs
<1>17. ASSUME NEW q \in Queries, Holds(q, c)
       PROVE  TaskFits(q, task'[q], l, due'[c])
  <2>1. /\ TaskFits(q, task[q], k, due[c]) /\ IsTask(task[q])
        /\ task[q].pc \in {"headers", "errbody", "body", "stream"}
    BY <1>1, <1>17 DEF Tasks, Holds, k, Types, Live
  <2>2. /\ task'[q].pc = task[q].pc
        /\ task'[q].fut = IF task[q].fut = "pending" THEN outcome[task[q].pc]
                          ELSE task[q].fut
    BY <1>16, <1>17
  <2>3. task[q].fut # "error" /\ due[c] = q
    BY <1>7, <1>12, <2>1 DEF TaskFits
  <2>4. CASE task[q].pc = "headers"
    <3>1. task'[q].fut = IF task[q].fut = "pending" THEN (IF hdr THEN "ok" ELSE "error") ELSE "ok"
      BY <1>9, <2>1, <2>2, <2>3, <2>4 DEF IsTask
    <3> QED
      BY <1>7, <1>11, <1>13, <2>1, <2>2, <2>3, <2>4, <3>1 DEF TaskFits, h
  <2>5. CASE task[q].pc \in {"errbody", "body"}
    <3>1. task[q].fut = "pending"
      BY <1>12, <2>1, <2>3, <2>5 DEF TaskFits, IsTask
    <3>2. task'[q].fut = read
      BY <1>9, <2>2, <2>5, <3>1
    <3> QED
      BY <1>7, <1>11, <1>13, <2>1, <2>2, <2>3, <2>5, <3>2 DEF TaskFits, h
  <2>6. CASE task[q].pc = "stream"
    <3>1. task'[q].fut # "error"
      BY <1>9, <2>2, <2>3, <2>6
    <3> QED
      BY <1>7, <1>11, <1>13, <2>1, <2>2, <2>3, <2>6, <3>1 DEF TaskFits, h
  <2> QED
    BY <2>1, <2>4, <2>5, <2>6
<1>18. /\ pool'.conn[c].tracked = pool.conn[c].tracked
       /\ pool'.conn[c].inUse => pool.conn[c].inUse
       /\ pool'.conn[c].st = "open" => pool.conn[c].st = "open"
       /\ ConnFits(pool'.conn[c], due'[c]) /\ due'[c] \in {0, due[c]}
       /\ \A q \in Queries : Holds(q, c) => TaskFits(q, task'[q], pool'.conn[c], due'[c])
  BY <1>11, <1>13, <1>14, <1>15, <1>17 DEF k
<1> QED
  BY <1>7, <1>13, <1>15, <1>16, <1>18, EventKeeps


\* The endpoint closes its side: nothing moves yet.
LEMMA EndpointClosesKeeps ==
  ASSUME WorkerInv, NEW c \in Conns, EndpointCloses(c)
  PROVE  WorkerInv'
<1> DEFINE k == pool.conn[c]
           l == [k EXCEPT !.fin = TRUE]
<1>1. Types /\ Connections /\ Tasks
  BY DEF WorkerInv
<1>2. pool \in Pool /\ k \in Connection /\ ConnFits(k, due[c])
  BY <1>1, PoolParts DEF Types, Connections
<1>3. pool' = WithConn(pool, c, l)
  BY DEF EndpointCloses, WithConn
<1>4. /\ l \in Connection /\ l.st = k.st /\ l.tracked = k.tracked /\ l.inUse = k.inUse
      /\ l.lost = k.lost /\ l.hdr = k.hdr /\ l.msg = k.msg /\ l.exc = k.exc /\ l.of = k.of
  BY <1>2 DEF Connection
<1>5. UNCHANGED <<main, shutdown, next, creating, due, task, answers>>
  BY DEF EndpointCloses
<1> HIDE DEF l, k
<1>6. /\ pool' \in Pool /\ pool'.max = pool.max /\ pool'.idle = pool.idle
      /\ pool'.notified = pool.notified
      /\ pool'.conn[c] = l /\ \A d \in Conns \ {c} : pool'.conn[d] = pool.conn[d]
  BY <1>2, <1>3, <1>4, ConnReplaced
<1>7. ConnFits(l, due[c])
  BY <1>2, <1>4 DEF ConnFits
<1>8. ASSUME NEW q \in Queries, Holds(q, c)
      PROVE  TaskFits(q, task[q], l, due[c])
  <2>1. TaskFits(q, task[q], k, due[c])
    BY <1>1, <1>8 DEF Tasks, Holds, k
  <2> QED
    BY <1>4, <2>1 DEF TaskFits
<1>9. /\ due \in [Conns -> 0..NQ] /\ DOMAIN task = Queries
      /\ \A q \in Queries : IsTask(task[q])
  BY <1>1 DEF Types
<1>10. /\ pool'.conn[c].tracked = pool.conn[c].tracked
       /\ pool'.conn[c].inUse => pool.conn[c].inUse
       /\ pool'.conn[c].st = "open" => pool.conn[c].st = "open"
       /\ ConnFits(pool'.conn[c], due'[c]) /\ due'[c] \in {0, due[c]}
       /\ \A q \in Queries : Holds(q, c) => TaskFits(q, task'[q], pool'.conn[c], due'[c])
       /\ \A d \in Conns \ {c} : pool'.conn[d] = pool.conn[d] /\ due'[d] = due[d]
  BY <1>4, <1>5, <1>6, <1>7, <1>8 DEF k
<1>11. /\ due' \in [Conns -> 0..NQ] /\ DOMAIN task' = Queries
       /\ \A q \in Queries : /\ IsTask(task'[q]) /\ task'[q].c = task[q].c
                             /\ Live(task'[q]) <=> Live(task[q])
                             /\ ~Holds(q, c) => task'[q] = task[q]
  BY <1>5, <1>9
<1> QED
  BY <1>5, <1>6, <1>10, <1>11, EventKeeps

\* A task whose connection has lost the endpoint is told so.
LEMMA LostFits ==
  ASSUME NEW q, NEW t, NEW u, NEW k, NEW l, NEW d, NEW e, TaskFits(q, t, k, d),
         u.pc = t.pc, u.fut \in {t.fut, "error"} \/ (t.pc = "stream" /\ u.fut = "ok"),
         l.tracked = k.tracked, l.inUse = k.inUse, l.hdr = k.hdr, l.msg = k.msg,
         l.of = k.of, l.lost, e \in {0, d}
  PROVE  TaskFits(q, u, l, e)
  BY DEF TaskFits

\* The endpoint's end of file is read, and the transport closes.
LEMMA EofReceivedKeeps ==
  ASSUME WorkerInv, NEW c \in Conns, EofReceived(c)
  PROVE  WorkerInv'
<1> DEFINE k == pool.conn[c]
           l == [k EXCEPT !.lost = TRUE, !.st = "closing"]
           outcome == [headers |-> "pending", errbody |-> "pending", body |-> "pending",
                       stream |-> "ok"]
<1>1. Types /\ Connections /\ Tasks
  BY DEF WorkerInv
<1>2. pool \in Pool /\ k \in Connection /\ ConnFits(k, due[c]) /\ k.st = "open"
  BY <1>1, PoolParts DEF Types, Connections, EofReceived
<1>3. pool' = WithConn(pool, c, l)
  BY <1>2, PoolParts DEF EofReceived, WithConn, Pool
<1>4. /\ l \in Connection /\ l.st = "closing" /\ l.tracked = k.tracked /\ l.inUse = k.inUse
      /\ l.lost = TRUE /\ l.hdr = k.hdr /\ l.msg = k.msg /\ l.of = k.of
  BY <1>2 DEF Connection
<1>5. UNCHANGED <<main, shutdown, next, creating, due, answers>>
  BY DEF EofReceived
<1>6. task' = Waking(c, outcome)
  BY DEF EofReceived
<1>7. /\ outcome["headers"] = "pending" /\ outcome["errbody"] = "pending"
      /\ outcome["body"] = "pending" /\ outcome["stream"] = "ok"
  OBVIOUS
<1> HIDE DEF l, k, outcome
<1>8. /\ DOMAIN task' = Queries
      /\ \A q \in Queries : /\ IsTask(task'[q]) /\ task'[q].c = task[q].c
                            /\ Live(task'[q]) <=> Live(task[q])
                            /\ ~Holds(q, c) => task'[q] = task[q]
      /\ \A q \in Queries : Holds(q, c) =>
           /\ task'[q].pc = task[q].pc
           /\ task'[q].fut = IF task[q].fut = "pending" THEN outcome[task[q].pc]
                             ELSE task[q].fut
  BY <1>6, <1>7, WakingIs
<1>9. /\ pool' \in Pool /\ pool'.max = pool.max /\ pool'.idle = pool.idle
      /\ pool'.notified = pool.notified
      /\ pool'.conn[c] = l /\ \A d \in Conns \ {c} : pool'.conn[d] = pool.conn[d]
  BY <1>2, <1>3, <1>4, ConnReplaced
<1>10. ConnFits(l, due[c])
  BY <1>2, <1>4 DEF ConnFits
<1>11. ASSUME NEW q \in Queries, Holds(q, c)
       PROVE  TaskFits(q, task'[q], l, due[c])
  <2>1. TaskFits(q, task[q], k, due[c])
    BY <1>1, <1>11 DEF Tasks, Holds, k
  <2>2. /\ task'[q].pc = task[q].pc
        /\ task'[q].fut = task[q].fut \/ (task[q].pc = "stream" /\ task'[q].fut = "ok")
    <3>1. task[q].pc \in {"headers", "errbody", "body", "stream"}
      BY <1>11 DEF Holds, Live
    <3>2. /\ task'[q].pc = task[q].pc
          /\ task'[q].fut = IF task[q].fut = "pending" THEN outcome[task[q].pc]
                            ELSE task[q].fut
      BY <1>8, <1>11
    <3> QED
      BY <1>7, <3>1, <3>2
  <2> QED
    BY <1>4, <2>1, <2>2, LostFits
<1>12. /\ pool'.conn[c].tracked = pool.conn[c].tracked
       /\ pool'.conn[c].inUse => pool.conn[c].inUse
       /\ pool'.conn[c].st = "open" => pool.conn[c].st = "open"
       /\ ConnFits(pool'.conn[c], due'[c]) /\ due'[c] \in {0, due[c]}
       /\ \A q \in Queries : Holds(q, c) => TaskFits(q, task'[q], pool'.conn[c], due'[c])
       /\ \A d \in Conns \ {c} : pool'.conn[d] = pool.conn[d] /\ due'[d] = due[d]
       /\ due' \in [Conns -> 0..NQ]
  BY <1>1, <1>4, <1>5, <1>9, <1>10, <1>11 DEF k, Types
<1> QED
  BY <1>5, <1>8, <1>9, <1>12, EventKeeps

\* The transport reports the connection lost; a task that still waits for its
\* response fails, and a connection nobody refers to is forgotten.
LEMMA ConnectionLostKeeps ==
  ASSUME WorkerInv, NEW c \in Conns, ConnectionLost(c)
  PROVE  WorkerInv'
<1> DEFINE k == pool.conn[c]
           g == [k EXCEPT !.lost = TRUE, !.st = "gone", !.exc = FALSE]
           l == IF g.tracked THEN g ELSE Fresh
           outcome == [headers |-> "error", errbody |-> "error", body |-> "error",
                       stream |-> "ok"]
<1>1. Types /\ Connections /\ Tasks
  BY DEF WorkerInv
<1>2. pool \in Pool /\ k \in Connection /\ ConnFits(k, due[c])
  BY <1>1, PoolParts DEF Types, Connections
<1>3. /\ g \in Connection /\ g.st = "gone" /\ g.tracked = k.tracked /\ g.inUse = k.inUse
      /\ g.lost = TRUE /\ g.hdr = k.hdr /\ g.msg = k.msg /\ g.of = k.of
  BY <1>2 DEF Connection
<1>4. UNCHANGED <<main, shutdown, next, creating, answers>>
  BY DEF ConnectionLost
<1>5. task' = Waking(c, outcome) /\ due' = [due EXCEPT ![c] = 0]
  BY DEF ConnectionLost
<1>6. /\ outcome["headers"] = "error" /\ outcome["errbody"] = "error"
      /\ outcome["body"] = "error" /\ outcome["stream"] = "ok"
  OBVIOUS
<1> DEFINE p == WithConn(pool, c, g)
<1>7. pool' = Forget(p, c)
  BY <1>2, PoolParts DEF ConnectionLost, WithConn, Pool
<1> HIDE DEF g, k, outcome, p
<1>8. /\ p \in Pool /\ p.max = pool.max /\ p.idle = pool.idle /\ p.notified = pool.notified
      /\ p.conn[c] = g /\ \A d \in Conns \ {c} : p.conn[d] = pool.conn[d]
  BY <1>2, <1>3, ConnReplaced DEF p
<1>9. /\ pool' \in Pool /\ pool'.max = pool.max /\ pool'.idle = pool.idle
      /\ pool'.notified = pool.notified
      /\ pool'.conn[c] = l /\ \A d \in Conns \ {c} : pool'.conn[d] = pool.conn[d]
  <2>1. CASE g.tracked
    <3>1. pool' = p
      BY <1>7, <1>8, <2>1 DEF Forget
    <3> QED
      BY <1>8, <2>1, <3>1
  <2>2. CASE ~g.tracked
    <3>1. pool' = WithConn(p, c, Fresh)
      BY <1>3, <1>7, <1>8, <2>2 DEF Forget, WithConn
    <3> QED
      BY <1>8, <2>2, <3>1, FreshIsClean, ConnReplaced
  <2> QED
    BY <2>1, <2>2
<1>10. /\ DOMAIN task' = Queries
       /\ \A q \in Queries : /\ IsTask(task'[q]) /\ task'[q].c = task[q].c
                             /\ Live(task'[q]) <=> Live(task[q])
                             /\ ~Holds(q, c) => task'[q] = task[q]
       /\ \A q \in Queries : Holds(q, c) =>
            /\ task'[q].pc = task[q].pc
            /\ task'[q].fut = IF task[q].fut = "pending" THEN outcome[task[q].pc]
                              ELSE task[q].fut
  BY <1>5, <1>6, WakingIs
<1>11. /\ due' \in [Conns -> 0..NQ] /\ due'[c] = 0 /\ due'[c] \in {0, due[c]}
       /\ \A d \in Conns \ {c} : due'[d] = due[d]
  <2>1. 0 \in 0..NQ
    BY WorkerAssumption
  <2> QED
    BY <1>1, <1>5, <2>1 DEF Types
<1>12. ConnFits(l, 0)
  BY <1>3, FreshIsClean, <1>2 DEF ConnFits
<1>13. ASSUME NEW q \in Queries, Holds(q, c)
       PROVE  TaskFits(q, task'[q], l, 0)
  <2>1. TaskFits(q, task[q], k, due[c]) /\ k.tracked
    BY <1>1, <1>13 DEF Tasks, Holds, k, TaskFits
  <2>2. /\ task'[q].pc = task[q].pc
        /\ task'[q].fut \in {task[q].fut, "error"} \/ (task[q].pc = "stream" /\ task'[q].fut = "ok")
    <3>1. task[q].pc \in {"headers", "errbody", "body", "stream"}
      BY <1>13 DEF Holds, Live
    <3>2. /\ task'[q].pc = task[q].pc
          /\ task'[q].fut = IF task[q].fut = "pending" THEN outcome[task[q].pc]
                            ELSE task[q].fut
      BY <1>10, <1>13
    <3> QED
      BY <1>6, <3>1, <3>2
  <2>3. l = g
    BY <1>3, <2>1
  <2> HIDE DEF l
  <2> QED
    BY <1>3, <2>1, <2>2, <2>3, LostFits
<1>14. /\ pool'.conn[c].tracked = pool.conn[c].tracked
       /\ pool'.conn[c].inUse => pool.conn[c].inUse
       /\ pool'.conn[c].st = "open" => pool.conn[c].st = "open"
  <2>1. CASE g.tracked
    BY <1>3, <1>9, <2>1 DEF k
  <2>2. CASE ~g.tracked
    <3>1. k.tracked = FALSE
      BY <1>2, <1>3, <2>2 DEF Connection
    <3>2. Fresh.tracked = FALSE /\ Fresh.inUse = FALSE /\ Fresh.st = "none"
      BY DEF Fresh
    <3>3. pool'.conn[c] = Fresh
      BY <1>9, <2>2
    <3> QED
      BY <3>1, <3>2, <3>3 DEF k
  <2> QED
    BY <2>1, <2>2
<1> HIDE DEF l
<1>15. /\ ConnFits(pool'.conn[c], due'[c])
       /\ \A q \in Queries : Holds(q, c) => TaskFits(q, task'[q], pool'.conn[c], due'[c])
  BY <1>9, <1>11, <1>12, <1>13
<1> QED
  BY <1>4, <1>9, <1>10, <1>11, <1>14, <1>15, EventKeeps


\* A connection that is closed still fits what it owes.
LEMMA ClosedFits ==
  ASSUME NEW k \in Connection, NEW d, ConnFits(k, d)
  PROVE  ConnFits(CloseConn(k), d)
  BY CloseConnKeeps DEF ConnFits, Connection

\* The main loop has a connection for the next query and writes its request.
LEMMA WriteKeeps ==
  ASSUME WorkerInv, NEW c \in Conns, next <= NQ, main # "warmup", Write(next, c),
         UNCHANGED <<shutdown, answers>>, creating' = 0,
         pool' \in Pool, ~pool'.notified, CapHolds',
         pool'.conn[c].st = "open", pool'.conn[c].tracked, pool'.conn[c].inUse,
         ~pool'.conn[c].hdr, ~pool'.conn[c].msg, ~pool'.conn[c].lost,
         \A r \in Queries : ~Holds(r, c),
         \A d \in Conns \ {c} : \/ pool'.conn[d] = pool.conn[d]
                                \/ d \in Range(pool.idle) /\ pool'.conn[d] = CloseConn(pool.conn[d]),
         \A d \in Range(pool'.idle) :
           d \in Range(pool.idle) \ {c} /\ pool'.conn[d] = pool.conn[d],
         \A d \in Range(pool.idle) \ {c} : pool'.conn[d].tracked => d \in Range(pool'.idle),
         \A i, j \in DOMAIN pool'.idle : pool'.idle[i] = pool'.idle[j] => i = j
  PROVE  WorkerInv'
<1> DEFINE q == next
<1>1. Types /\ Connections /\ Tasks /\ Holders /\ MainFits /\ Answered
  BY DEF WorkerInv
<1>2. /\ q \in Queries /\ task[q].pc = "none" /\ ~Live(task[q]) /\ answers[q] = <<>>
      /\ NQ \in Nat /\ next \in Nat
  BY <1>1, WorkerAssumption DEF Types, Answered, Queries, Live
<1>3. /\ due' = [due EXCEPT ![c] = q] /\ main' = "recv" /\ next' = q + 1
      /\ task' = [task EXCEPT ![q] = [pc |-> "headers", c |-> c, fut |-> "pending"]]
  BY DEF Write
<1>4. /\ task'[q] = [pc |-> "headers", c |-> c, fut |-> "pending"]
      /\ DOMAIN task' = Queries
      /\ \A r \in Queries \ {q} : task'[r] = task[r]
  BY <1>1, <1>2, <1>3 DEF Types
<1>5. IsTask(task'[q]) /\ Live(task'[q]) /\ task'[q].c = c
  BY <1>4 DEF IsTask, Live
<1>6. /\ due' \in [Conns -> 0..NQ] /\ due'[c] = q
      /\ \A d \in Conns \ {c} : due'[d] = due[d]
  <2>1. q \in 0..NQ
    BY <1>2
  <2> QED
    BY <1>1, <1>3, <2>1 DEF Types
<1> HIDE DEF q
<1>7. \A r \in Queries, d \in Conns : Holds(r, d)' <=> Holds(r, d) \/ (r = q /\ d = c)
  <2> SUFFICES ASSUME NEW r \in Queries, NEW d \in Conns
               PROVE  Holds(r, d)' <=> Holds(r, d) \/ (r = q /\ d = c)
    OBVIOUS
  <2>1. CASE r = q
    <3>1. ~Holds(r, d)
      BY <1>2, <2>1 DEF Holds
    <3>2. Holds(r, d)' <=> d = c
      BY <1>5, <2>1 DEF Holds
    <3> QED
      BY <2>1, <3>1, <3>2
  <2>2. CASE r # q
    BY <1>4, <2>2 DEF Holds
  <2> QED
    BY <2>1, <2>2
<1>8. /\ pool \in Pool /\ pool.conn \in [Conns -> Connection] /\ pool.idle \in Seq(Conns)
      /\ \A d \in Range(pool.idle) : d \in Conns
  BY <1>1, PoolParts, RangeIs DEF Types
<1>9. Types'
  <2>1. \A r \in Queries : IsTask(task'[r])
    BY <1>1, <1>4, <1>5 DEF Types
  <2>2. next' \in 1..(NQ + 1)
    BY <1>1, <1>2, <1>3 DEF Types, Queries, q
  <2>3. answers' \in [Queries -> Seq([of : 0..NQ, cut : {"no", "body", "stream"}])]
    BY <1>1 DEF Types
  <2>4. shutdown' \in BOOLEAN /\ creating' \in Nat /\ main' \in {"warmup", "recv", "connecting", "waiting", "exited"}
    BY <1>1, <1>3 DEF Types
  <2> QED
    BY <1>4, <1>6, <2>1, <2>2, <2>3, <2>4 DEF Types
<1>10. Connections'
  <2> SUFFICES ASSUME NEW d \in Conns
               PROVE  ConnFits(pool'.conn[d], due'[d])
    BY DEF Connections
  <2>1. CASE d = c
    BY <2>1 DEF ConnFits
  <2>2. CASE d # c
    <3>1. ConnFits(pool.conn[d], due[d]) /\ pool.conn[d] \in Connection /\ due'[d] = due[d]
      BY <1>1, <1>6, <1>8, <2>2 DEF Connections
    <3>2. pool'.conn[d] \in {pool.conn[d], CloseConn(pool.conn[d])}
      BY <2>2
    <3> QED
      BY <3>1, <3>2, ClosedFits
  <2> QED
    BY <2>1, <2>2
<1>11. Tasks'
  <2> SUFFICES ASSUME NEW r \in Queries, Live(task'[r])
               PROVE  /\ task'[r].c \in Conns
                      /\ TaskFits(r, task'[r], pool'.conn[task'[r].c], due'[task'[r].c])
    BY DEF Tasks
  <2>1. CASE r = q
    BY <1>4, <1>6, <2>1 DEF TaskFits
  <2>2. CASE r # q
    <3>1. /\ task'[r] = task[r] /\ Live(task[r]) /\ task[r].c \in Conns
          /\ TaskFits(r, task[r], pool.conn[task[r].c], due[task[r].c])
      BY <1>1, <1>4, <2>2 DEF Tasks
    <3>2. task[r].c # c
      BY <3>1 DEF Holds
    <3>3. task[r].c \notin Range(pool.idle)
      BY <1>1, <3>1 DEF Holders, TaskFits
    <3> QED
      BY <1>6, <3>1, <3>2, <3>3
  <2> QED
    BY <2>1, <2>2
<1>12. Holders'
  <2>1. \A r, s \in Queries, d \in Conns : Holds(r, d)' /\ Holds(s, d)' => r = s
    BY <1>1, <1>7 DEF Holders
  <2>2. \A d \in Range(pool'.idle) : pool'.conn[d].tracked /\ ~pool'.conn[d].inUse
    BY <1>1 DEF Holders
  <2>3. \A d \in Conns : pool'.conn[d].st = "open" /\ due'[d] # 0
                          => \E r \in Queries : Holds(r, d)'
    <3> SUFFICES ASSUME NEW d \in Conns, pool'.conn[d].st = "open", due'[d] # 0
                 PROVE  \E r \in Queries : Holds(r, d)'
      OBVIOUS
    <3>1. CASE d = c
      BY <1>2, <1>7, <3>1
    <3>2. CASE d # c
      <4>1. pool'.conn[d] = pool.conn[d]
        BY <1>8, <3>2, CloseConnKeeps
      <4> QED
        BY <1>1, <1>6, <1>7, <3>2, <4>1 DEF Holders
    <3> QED
      BY <3>1, <3>2
  <2>4. \A d \in Tracked(pool') : d \in Range(pool'.idle) \/ \E r \in Queries : Holds(r, d)'
    <3> SUFFICES ASSUME NEW d \in Conns, pool'.conn[d].tracked
                 PROVE  d \in Range(pool'.idle) \/ \E r \in Queries : Holds(r, d)'
      BY DEF Tracked
    <3>1. CASE d = c
      BY <1>2, <1>7, <3>1
    <3>2. CASE d # c
      <4>1. pool'.conn[d] = pool.conn[d]
        BY <1>8, <3>2, CloseConnKeeps
      <4>2. d \in Range(pool.idle) \/ \E r \in Queries : Holds(r, d)
        BY <1>1, <4>1 DEF Holders, Tracked
      <4> QED
        BY <1>7, <3>2, <4>2
    <3> QED
      BY <3>1, <3>2
  <2> QED
    BY <2>1, <2>2, <2>3, <2>4 DEF Holders
<1>13. MainFits'
  BY <1>3 DEF MainFits
<1>14. Answered'
  <2> SUFFICES ASSUME NEW r \in Queries
               PROVE  /\ r >= next' => task'[r].pc = "none"
                      /\ r >= next' \/ Live(task'[r]) => answers[r] = <<>>
                      /\ ~shutdown /\ task'[r].pc = "done" => answers[r] # <<>>
    BY <1>1 DEF Answered
  <2>1. CASE r = q
    BY <1>2, <1>3, <1>4, <2>1 DEF q, Queries
  <2>2. CASE r # q
    <3>1. task'[r] = task[r] /\ (r >= next' => r >= next)
      BY <1>2, <1>3, <1>4, <2>2 DEF q, Queries
    <3> QED
      BY <1>1, <3>1 DEF Answered
  <2> QED
    BY <2>1, <2>2
<1> QED
  BY <1>9, <1>10, <1>11, <1>12, <1>13, <1>14 DEF WorkerInv

\* encode_query raised.
LEMMA PrepareFailsKeeps ==
  ASSUME WorkerInv, PrepareFails
  PROVE  WorkerInv'
<1>1. Types /\ Connections /\ Tasks /\ Holders /\ MainFits /\ Answered
  BY DEF WorkerInv
<1>2. /\ next \in Queries /\ next \in Nat /\ NQ \in Nat /\ task[next].pc = "none" /\ main = "recv"
      /\ ~Live(task[next]) /\ IsTask(task[next])
      /\ next' = next + 1 /\ task' = [task EXCEPT ![next].pc = "unprepared"]
      /\ UNCHANGED <<main, shutdown, creating, pool, due, answers>>
  BY <1>1, WorkerAssumption DEF PrepareFails, Types, Answered, Queries, Live
<1>3. /\ task'[next] = [pc |-> "unprepared", c |-> task[next].c, fut |-> task[next].fut]
      /\ DOMAIN task' = Queries /\ \A r \in Queries \ {next} : task'[r] = task[r]
  BY <1>1, <1>2 DEF Types, IsTask
<1>4. IsTask(task'[next]) /\ ~Live(task'[next]) /\ task'[next].pc = "unprepared"
  BY <1>2, <1>3 DEF IsTask, Live
<1>5. \A r \in Queries : (Live(task'[r]) <=> Live(task[r])) /\ (Live(task[r]) => task'[r] = task[r])
  BY <1>2, <1>3, <1>4
<1>6. \A r \in Queries, d \in Conns : Holds(r, d)' <=> Holds(r, d)
  BY <1>5 DEF Holds
<1>7. Types'
  <2>1. \A r \in Queries : IsTask(task'[r])
    BY <1>1, <1>3, <1>4 DEF Types
  <2>2. next' \in 1..(NQ + 1)
    BY <1>2 DEF Queries
  <2> QED
    BY <1>1, <1>2, <1>3, <2>1, <2>2 DEF Types
<1>8. Connections' /\ Tasks'
  BY <1>1, <1>2, <1>5 DEF Connections, Tasks
<1>9. Holders'
  <2>1. \A r, s \in Queries, d \in Conns : Holds(r, d)' /\ Holds(s, d)' => r = s
    BY <1>1, <1>6 DEF Holders
  <2>2. \A d \in Conns : pool.conn[d].st = "open" /\ due[d] # 0 => \E r \in Queries : Holds(r, d)'
    BY <1>1, <1>6 DEF Holders
  <2>3. main # "warmup" => \A d \in Tracked(pool) :
          d \in Range(pool.idle) \/ \E r \in Queries : Holds(r, d)'
    BY <1>1, <1>6 DEF Holders, Tracked
  <2> QED
    BY <1>1, <1>2, <2>1, <2>2, <2>3 DEF Holders
<1>10. MainFits'
  BY <1>1, <1>2, <1>5 DEF MainFits, CapHolds
<1>11. Answered'
  <2> SUFFICES ASSUME NEW r \in Queries
               PROVE  /\ r >= next' => task'[r].pc = "none"
                      /\ r >= next' \/ Live(task'[r]) => answers[r] = <<>>
                      /\ ~shutdown /\ task'[r].pc = "done" => answers[r] # <<>>
    BY <1>1, <1>2 DEF Answered
  <2>1. CASE r = next
    BY <1>2, <1>4, <2>1
  <2>2. CASE r # next
    <3>1. task'[r] = task[r] /\ (r >= next' => r >= next)
      BY <1>2, <1>3, <2>2 DEF Queries
    <3> QED
      BY <1>1, <3>1 DEF Answered
  <2> QED
    BY <2>1, <2>2
<1> QED
  BY <1>7, <1>8, <1>9, <1>10, <1>11 DEF WorkerInv

\* The connection could not be made: the query is answered with the error.
LEMMA ConnectFailsKeeps ==
  ASSUME WorkerInv, ConnectFails
  PROVE  WorkerInv'
<1>1. Types /\ Connections /\ Tasks /\ Holders /\ MainFits /\ Answered
  BY DEF WorkerInv
<1>2. /\ next \in Queries /\ next \in Nat /\ NQ \in Nat /\ task[next].pc = "none"
      /\ main = "connecting" /\ creating = 1 /\ answers[next] = <<>>
      /\ next' = next + 1 /\ creating' = 0 /\ main' = "recv"
      /\ UNCHANGED <<shutdown, pool, due, task>>
  BY <1>1, WorkerAssumption DEF ConnectFails, Types, Answered, Queries, MainFits
<1> DEFINE a == [of |-> next, cut |-> "no"]
           A == [of : 0..NQ, cut : {"no", "body", "stream"}]
<1>3. answers' = answers \/ answers' = [answers EXCEPT ![next] = <<a>>]
  BY <1>1, <1>2 DEF ConnectFails, HandleError, Types
<1>4. a \in A /\ a.of = next /\ a.cut = "no" /\ answers \in [Queries -> Seq(A)]
  <2>1. next \in 0..NQ
    BY <1>2 DEF Queries
  <2>2. answers \in [Queries -> Seq(A)]
    BY <1>1 DEF Types
  <2> QED
    BY <2>1, <2>2
<1> HIDE DEF a, A
<1>5. /\ answers' \in [Queries -> Seq(A)]
      /\ \A r \in Queries \ {next} : answers'[r] = answers[r]
      /\ answers'[next] \in {<<>>, <<a>>}
  <2>1. <<a>> \in Seq(A)
    BY <1>4
  <2> DEFINE S == Seq(A)
             s == <<a>>
  <2>2. s \in S /\ answers \in [Queries -> S] /\ (answers' = answers \/ answers' = [answers EXCEPT ![next] = s])
    BY <1>3, <1>4, <2>1
  <2> HIDE DEF S, s
  <2>3. answers' \in [Queries -> S] /\ answers'[next] \in {answers[next], s}
        /\ \A r \in Queries \ {next} : answers'[r] = answers[r]
    BY <1>2, <2>2
  <2> QED
    BY <1>2, <2>3 DEF S, s
<1>6. Types'
  <2>1. next' \in 1..(NQ + 1)
    BY <1>2 DEF Queries
  <2>2. answers' \in [Queries -> Seq([of : 0..NQ, cut : {"no", "body", "stream"}])]
    BY <1>5 DEF A
  <2> QED
    BY <1>1, <1>2, <2>1, <2>2 DEF Types
<1>7. Connections' /\ Tasks' /\ Holders'
  <2>1. \A r \in Queries, d \in Conns : Holds(r, d)' <=> Holds(r, d)
    BY <1>2 DEF Holds
  <2>2. Connections' /\ Tasks'
    BY <1>1, <1>2 DEF Connections, Tasks
  <2>3. \A r, s \in Queries, d \in Conns : Holds(r, d)' /\ Holds(s, d)' => r = s
    BY <1>1, <2>1 DEF Holders
  <2>4. \A d \in Conns : pool.conn[d].st = "open" /\ due[d] # 0 => \E r \in Queries : Holds(r, d)'
    BY <1>1, <2>1 DEF Holders
  <2>5. \A d \in Tracked(pool) : d \in Range(pool.idle) \/ \E r \in Queries : Holds(r, d)'
    BY <1>1, <1>2, <2>1 DEF Holders, Tracked
  <2>6. Holders'
    BY <1>1, <1>2, <2>3, <2>4, <2>5 DEF Holders
  <2> QED
    BY <2>2, <2>6
<1>8. MainFits'
  <2>1. Cardinality(Tracked(pool)) \in Nat /\ pool.max \in Nat
    BY <1>1, NoMoreTracked, PoolParts DEF Types
  <2>2. CapHolds'
    BY <1>1, <1>2, <2>1 DEF MainFits, CapHolds
  <2> QED
    BY <1>1, <1>2, <2>2 DEF MainFits
<1>9. Answered'
  <2> SUFFICES ASSUME NEW r \in Queries
               PROVE  /\ r >= next' => task[r].pc = "none"
                      /\ r >= next' \/ Live(task[r]) => answers'[r] = <<>>
                      /\ ~shutdown /\ task[r].pc = "done" => answers'[r] # <<>>
                      /\ Len(answers'[r]) <= 1
                      /\ \A i \in DOMAIN answers'[r] :
                           answers'[r][i].of = r /\ answers'[r][i].cut # "body"
    BY <1>2 DEF Answered
  <2>1. CASE r = next
    <3>1. ~(r >= next') /\ ~Live(task[r]) /\ task[r].pc # "done"
      BY <1>2, <2>1 DEF Live
    <3>2. CASE answers'[r] = <<>>
      BY <3>1, <3>2
    <3>3. CASE answers'[r] = <<a>>
      BY <1>4, <2>1, <3>1, <3>3
    <3> QED
      BY <1>5, <2>1, <3>2, <3>3
  <2>2. CASE r # next
    <3>1. answers'[r] = answers[r] /\ (r >= next' => r >= next)
      BY <1>2, <1>5, <2>2 DEF Queries
    <3> QED
      BY <1>1, <3>1 DEF Answered
  <2> QED
    BY <2>1, <2>2
<1> QED
  BY <1>6, <1>7, <1>8, <1>9 DEF WorkerInv


\* What is left of the idle stack below a position.
LEMMA StackBelow ==
  ASSUME NEW s \in Seq(Conns), NEW n \in DOMAIN s, NEW t, t = SubSeq(s, 1, n - 1),
         \A i, j \in DOMAIN s : s[i] = s[j] => i = j
  PROVE  /\ \A x : x \in Range(t) <=> \E i \in 1..(n - 1) : s[i] = x
         /\ \A i, j \in DOMAIN t : t[i] = t[j] => i = j
         /\ s[n] \notin Range(t)
<1>1. /\ Len(s) \in Nat /\ DOMAIN s = 1..Len(s) /\ n \in 1..Len(s)
      /\ DOMAIN t = 1..(n - 1) /\ \A i \in 1..(n - 1) : t[i] = s[i]
  OBVIOUS
<1>2. \A x : x \in Range(t) <=> \E i \in 1..(n - 1) : s[i] = x
  <2>1. \A x : x \in Range(t) <=> \E i \in DOMAIN t : t[i] = x
    BY RangeIs
  <2>2. \A x : (\E i \in DOMAIN t : t[i] = x) <=> \E i \in 1..(n - 1) : s[i] = x
    BY <1>1
  <2> QED
    BY <2>1, <2>2
<1>3. \A i \in 1..(n - 1) : i \in DOMAIN s /\ i # n
  BY <1>1
<1> QED
  BY <1>1, <1>2, <1>3

\* The main loop looks for a connection: an idle one is used, or the whole
\* stack was stale and is gone.
LEMMA AcquireKeeps ==
  ASSUME WorkerInv, main \in {"recv", "waiting"}, next <= NQ,
         NEW p \in Pool, p.max = pool.max, p.conn = pool.conn, p.idle = pool.idle, ~p.notified,
         Acquire(next, p), UNCHANGED <<shutdown, answers>>
  PROVE  WorkerInv'
<1>1. Types /\ Connections /\ Tasks /\ Holders /\ MainFits /\ Answered
  BY DEF WorkerInv
<1>a. PICK old \in 0..Len(p.idle) : \E probed \in old..Len(p.idle) :
        LET n == TopUsable(p, old, probed)
            p2 == TryGetIdle(p, old, probed)
        IN  IF n # 0
            THEN /\ pool' = p2
                 /\ Write(next, p.idle[n])
                 /\ UNCHANGED creating
            ELSE /\ pool' = p2
                 /\ IF CanCreate(p2)
                    THEN main' = "connecting" /\ creating' = creating + 1
                    ELSE main' = "waiting" /\ UNCHANGED creating
                 /\ UNCHANGED <<due, task, next>>
  BY DEF Acquire
<1>2. PICK probed \in old..Len(p.idle) :
        LET n == TopUsable(p, old, probed)
            p2 == TryGetIdle(p, old, probed)
        IN  IF n # 0
            THEN /\ pool' = p2
                 /\ Write(next, p.idle[n])
                 /\ UNCHANGED creating
            ELSE /\ pool' = p2
                 /\ IF CanCreate(p2)
                    THEN main' = "connecting" /\ creating' = creating + 1
                    ELSE main' = "waiting" /\ UNCHANGED creating
                 /\ UNCHANGED <<due, task, next>>
  BY <1>a
<1>3. /\ p.idle \in Seq(Conns) /\ Len(p.idle) \in Nat /\ p.conn \in [Conns -> Connection]
      /\ p.max \in Nat \ {0} /\ creating = 0 /\ DOMAIN p.idle = 1..Len(p.idle)
      /\ \A i, j \in DOMAIN p.idle : p.idle[i] = p.idle[j] => i = j
  BY <1>1, PoolParts DEF MainFits, Holders
<1>4. old \in Nat /\ probed \in Nat
  BY <1>3
<1> DEFINE n == TopUsable(p, old, probed)
           p2 == TryGetIdle(p, old, probed)
<1>5. Found(p, p2, n) /\ n \in 0..Len(p.idle)
  BY <1>3, <1>4, TryGetIdleFinds, TopUsableFits
<1>6. /\ pool' = p2
      /\ n # 0 => Write(next, p.idle[n]) /\ creating' = creating
      /\ n = 0 => /\ IF CanCreate(p2)
                     THEN main' = "connecting" /\ creating' = creating + 1
                     ELSE main' = "waiting" /\ creating' = creating
                  /\ UNCHANGED <<due, task, next>>
  BY <1>2
<1> HIDE DEF n, p2
<1>7. /\ \A d \in Range(pool.idle) : d \in Conns /\ pool.conn[d].tracked /\ ~pool.conn[d].inUse
      /\ \A d \in Conns : pool.conn[d] \in Connection
  BY <1>1, <1>3, RangeIs DEF Holders
<1>8. CASE n # 0
  <2> DEFINE c == p.idle[n]
  <2>1. /\ pool' \in Pool /\ pool'.max = pool.max /\ ~pool'.notified
        /\ n \in DOMAIN p.idle /\ IsAlive(pool.conn[c])
        /\ pool'.idle = SubSeq(p.idle, 1, n - 1)
        /\ pool'.conn[c] = ResetConn([pool.conn[c] EXCEPT !.inUse = TRUE])
        /\ \A d \in Conns \ {c} :
             pool'.conn[d] = IF \E i \in (n + 1)..Len(p.idle) : d = p.idle[i]
                             THEN CloseConn(pool.conn[d]) ELSE pool.conn[d]
    BY <1>5, <1>6, <1>8 DEF Found
  <2>2. /\ Write(next, c) /\ creating' = 0
    BY <1>3, <1>6, <1>8
  <2>3. c \in Conns /\ c \in Range(pool.idle)
    BY <1>3, <1>7, <2>1, RangeIs
  <2> HIDE DEF c
  <2>4. /\ pool'.conn[c].st = "open" /\ pool'.conn[c].tracked /\ pool'.conn[c].inUse
        /\ ~pool'.conn[c].hdr /\ ~pool'.conn[c].msg /\ ~pool'.conn[c].lost
    <3>1. pool.conn[c].st = "open" /\ ~pool.conn[c].lost /\ pool.conn[c].tracked
      BY <1>7, <2>1, <2>3 DEF IsAlive
    <3> DEFINE r == ResetConn([pool.conn[c] EXCEPT !.inUse = TRUE])
    <3>2. /\ r.st = pool.conn[c].st /\ r.tracked = pool.conn[c].tracked
          /\ r.lost = pool.conn[c].lost /\ r.inUse = TRUE /\ ~r.hdr /\ ~r.msg
      <4>1. pool.conn[c] \in Connection /\ TRUE \in BOOLEAN
        BY <1>7, <2>3
      <4> QED
        BY <4>1, ResetConnKeeps
    <3> HIDE DEF r
    <3>3. pool'.conn[c] = r
      BY <2>1 DEF r
    <3> QED
      BY <3>1, <3>2, <3>3
  <2>5. \A r \in Queries : ~Holds(r, c)
    BY <1>1, <1>7, <2>3 DEF Tasks, TaskFits, Holds
  <2>6. /\ \A x : x \in Range(pool'.idle) <=> \E i \in 1..(n - 1) : p.idle[i] = x
        /\ \A i, j \in DOMAIN pool'.idle : pool'.idle[i] = pool'.idle[j] => i = j
        /\ c \notin Range(pool'.idle)
    BY <1>3, <2>1, StackBelow DEF c
  <2>7. \A d \in Conns \ {c} : \/ pool'.conn[d] = pool.conn[d]
                               \/ d \in Range(pool.idle) /\ pool'.conn[d] = CloseConn(pool.conn[d])
    <3> SUFFICES ASSUME NEW d \in Conns \ {c}, pool'.conn[d] # pool.conn[d]
                 PROVE  d \in Range(pool.idle) /\ pool'.conn[d] = CloseConn(pool.conn[d])
      OBVIOUS
    <3>1. PICK i \in (n + 1)..Len(p.idle) : d = p.idle[i]
      BY <2>1
    <3>2. i \in DOMAIN p.idle
      BY <1>3, <2>1
    <3> QED
      BY <2>1, <3>1, <3>2, RangeIs
  <2>8. \A d \in Range(pool'.idle) : d \in Range(pool.idle) \ {c} /\ pool'.conn[d] = pool.conn[d]
    <3> SUFFICES ASSUME NEW d \in Range(pool'.idle)
                 PROVE  d \in Range(pool.idle) \ {c} /\ pool'.conn[d] = pool.conn[d]
      OBVIOUS
    <3>1. PICK i \in 1..(n - 1) : p.idle[i] = d
      BY <2>6
    <3>2. i \in DOMAIN p.idle /\ d # c
      BY <1>3, <2>1, <2>6, <3>1
    <3>3. d \in Range(pool.idle) /\ d \in Conns
      BY <1>7, <3>1, <3>2, RangeIs
    <3>4. ~ \E j \in (n + 1)..Len(p.idle) : d = p.idle[j]
      <4> SUFFICES ASSUME NEW j \in (n + 1)..Len(p.idle), d = p.idle[j]
                   PROVE  FALSE
        OBVIOUS
      <4>1. j \in DOMAIN p.idle /\ i # j
        BY <1>3, <2>1
      <4> QED
        BY <1>3, <3>1, <3>2, <4>1
    <3> QED
      BY <2>1, <3>2, <3>3, <3>4
  <2>9. \A d \in Range(pool.idle) \ {c} : pool'.conn[d].tracked => d \in Range(pool'.idle)
    <3> SUFFICES ASSUME NEW d \in Range(pool.idle) \ {c}, pool'.conn[d].tracked
                 PROVE  d \in Range(pool'.idle)
      OBVIOUS
    <3>1. PICK i \in DOMAIN p.idle : p.idle[i] = d
      BY RangeIs
    <3>2. ~ \E j \in (n + 1)..Len(p.idle) : d = p.idle[j]
      BY <1>7, <2>1, CloseConnKeeps
    <3>3. i \notin (n + 1)..Len(p.idle) /\ i # n
      BY <3>1, <3>2 DEF c
    <3>4. i \in 1..(n - 1)
      BY <1>3, <2>1, <3>3
    <3> QED
      BY <2>6, <3>1, <3>4
  <2>10. CapHolds'
    <3>1. Tracked(pool') \subseteq Tracked(pool)
      BY <1>7, <2>3, <2>7, CloseConnKeeps DEF Tracked
    <3> QED
      BY <1>1, <1>3, <2>1, <2>2, <3>1, NoMoreTracked DEF MainFits, CapHolds
  <2> QED
    BY <2>1, <2>2, <2>3, <2>4, <2>5, <2>6, <2>7, <2>8, <2>9, <2>10, WriteKeeps
<1>9. CASE n = 0
  <2>1. /\ pool' \in Pool /\ pool'.max = pool.max /\ ~pool'.notified /\ pool'.idle = <<>>
        /\ \A d \in Conns : pool'.conn[d] = IF d \in Range(pool.idle) THEN CloseConn(pool.conn[d])
                                            ELSE pool.conn[d]
    BY <1>5, <1>6, <1>9 DEF Found
  <2>2. /\ \/ CanCreate(pool') /\ main' = "connecting" /\ creating' = 1
           \/ ~CanCreate(pool') /\ main' = "waiting" /\ creating' = 0
        /\ UNCHANGED <<due, task, next, shutdown, answers>>
    BY <1>3, <1>6, <1>9
  <2>3. Tracked(pool') \subseteq Tracked(pool)
    BY <1>7, <2>1, CloseConnKeeps DEF Tracked
  <2>4. /\ Cardinality(Tracked(pool')) \in Nat /\ Cardinality(Tracked(pool)) \in Nat
        /\ Cardinality(Tracked(pool')) <= Cardinality(Tracked(pool))
    BY <2>3, NoMoreTracked
  <2>5. \A r \in Queries, d \in Conns : Holds(r, d)' <=> Holds(r, d)
    BY <2>2 DEF Holds
  <2>6. \A r \in Queries, d \in Conns : Holds(r, d) => pool'.conn[d] = pool.conn[d]
    BY <1>1, <2>1 DEF Holders, Tasks, TaskFits, Holds
  <2>7. Types'
    <3>1. main' \in {"warmup", "recv", "connecting", "waiting", "exited"} /\ creating' \in Nat
      BY <2>2
    <3>2. /\ shutdown' \in BOOLEAN /\ next' \in 1..(NQ + 1) /\ due' \in [Conns -> 0..NQ]
          /\ DOMAIN task' = Queries /\ \A r \in Queries : IsTask(task'[r])
          /\ answers' \in [Queries -> Seq([of : 0..NQ, cut : {"no", "body", "stream"}])]
      BY <1>1, <2>2 DEF Types
    <3> QED
      BY <2>1, <3>1, <3>2 DEF Types
  <2>8. Connections'
    BY <1>1, <1>7, <2>1, <2>2, ClosedFits DEF Connections
  <2>9. Tasks'
    BY <1>1, <2>2, <2>6 DEF Tasks, Holds
  <2>10. Holders'
    <3>1. \A r, s \in Queries, d \in Conns : Holds(r, d)' /\ Holds(s, d)' => r = s
      BY <1>1, <2>5 DEF Holders
    <3>2. Range(pool'.idle) = {}
      BY <2>1, RangeIs
    <3>3. \A d \in Conns : pool'.conn[d].st = "open" /\ due'[d] # 0
                            => \E r \in Queries : Holds(r, d)'
      BY <1>1, <1>7, <2>1, <2>2, <2>5, CloseConnKeeps DEF Holders
    <3>4. \A d \in Tracked(pool') : \E r \in Queries : Holds(r, d)'
      BY <1>1, <1>7, <2>1, <2>3, <2>5, CloseConnKeeps DEF Holders, Tracked
    <3> QED
      BY <2>1, <3>1, <3>2, <3>3, <3>4 DEF Holders
  <2>11. MainFits'
    <3>1. CanCreate(pool') => Cardinality(Tracked(pool')) < pool.max
      BY <1>3, <2>1, <2>4 DEF CanCreate
    <3>2. ~CanCreate(pool') => Cardinality(Tracked(pool')) >= pool.max
      BY <1>3, <2>1, <2>4 DEF CanCreate
    <3>3. Cardinality(Tracked(pool)) <= pool.max
      BY <1>1, <1>3, <2>4 DEF MainFits, CapHolds
    <3>4. CapHolds'
      BY <1>3, <2>1, <2>2, <2>4, <3>1, <3>3 DEF CapHolds
    <3>5. ~CanCreate(pool') => Cardinality(Tracked(pool')) = pool.max
      BY <1>3, <2>4, <3>2, <3>3
    <3> QED
      BY <2>1, <2>2, <3>4, <3>5 DEF MainFits
  <2>12. Answered'
    BY <1>1, <2>2 DEF Answered
  <2> QED
    BY <2>7, <2>8, <2>9, <2>10, <2>11, <2>12 DEF WorkerInv
<1> QED
  BY <1>8, <1>9

LEMMA ReceiveKeeps ==
  ASSUME WorkerInv, Receive
  PROVE  WorkerInv'
<1>1. pool \in Pool /\ ~pool.notified /\ main = "recv" /\ next <= NQ
  BY DEF WorkerInv, Types, MainFits, Receive
<1>2. Acquire(next, pool) /\ UNCHANGED <<shutdown, answers>>
  BY DEF Receive
<1> QED
  BY <1>1, <1>2, AcquireKeeps

LEMMA WaiterResumesKeeps ==
  ASSUME WorkerInv, WaiterResumes
  PROVE  WorkerInv'
<1> DEFINE p == [pool EXCEPT !.notified = FALSE]
<1>1. pool \in Pool /\ main = "waiting" /\ next <= NQ
  BY DEF WorkerInv, Types, MainFits, WaiterResumes
<1>2. /\ p \in Pool /\ p.max = pool.max /\ p.conn = pool.conn /\ p.idle = pool.idle
      /\ ~p.notified
  BY <1>1 DEF Pool
<1>3. Acquire(next, p) /\ UNCHANGED <<shutdown, answers>>
  BY DEF WaiterResumes
<1> HIDE DEF p
<1> QED
  BY <1>1, <1>2, <1>3, AcquireKeeps


\* The sequence made of a finite set holds its elements, each once.
LEMMA SetToSeqIs ==
  ASSUME NEW S \in SUBSET Conns, NEW s, s = SetToSeq(S)
  PROVE  /\ s \in Seq(Conns)
         /\ \A x : x \in Range(s) <=> x \in S
         /\ \A i, j \in DOMAIN s : s[i] = s[j] => i = j
<1> DEFINE n == Cardinality(S)
<1>1. IsFiniteSet(S) /\ n \in Nat /\ ExistsBijection(1..n, S)
  BY WorkerAssumption, FS_Subset, FS_CardinalityType
<1>2. \E f \in [1..n -> S] : IsInjective(f)
  BY <1>1 DEF ExistsBijection, Bijection, Injection
<1>3. s \in [1..n -> S] /\ IsInjective(s)
  <2>1. s = CHOOSE f \in [1..n -> S] : IsInjective(f)
    BY DEF SetToSeq
  <2> QED
    BY <1>2, <2>1
<1> HIDE DEF n
<1>4. Cardinality(1..n) = n
  BY <1>1, FS_Interval
<1>5. s \in Injection(1..n, S)
  BY <1>3 DEF Injection
<1>6. s \in Surjection(1..n, S)
  BY <1>1, <1>4, <1>5, FS_Injection DEF n
<1>7. \A x \in S : \E i \in 1..n : s[i] = x
  BY <1>6 DEF Surjection
<1>8. \A i, j \in DOMAIN s : s[i] = s[j] => i = j
  BY <1>3 DEF IsInjective
<1>9. \A x : x \in Range(s) <=> x \in S
  <2>1. \A x : x \in Range(s) <=> \E i \in DOMAIN s : s[i] = x
    BY RangeIs
  <2>2. DOMAIN s = 1..n /\ \A i \in 1..n : s[i] \in S
    BY <1>3
  <2> QED
    BY <1>7, <2>1, <2>2
<1>10. s \in Seq(Conns)
  BY <1>1, <1>3
<1> QED
  BY <1>8, <1>9, <1>10

\* A new connection: open, in use, and one more of those the pool tracks.
LEMMA ConnectedIs ==
  ASSUME WorkerInv, Unused # {}, NEW c, c = NewConn, NEW r, r = Connected(pool, c)
  PROVE  /\ c \in Conns /\ pool.conn[c].st = "none" /\ ~pool.conn[c].tracked /\ due[c] = 0
         /\ r \in Pool /\ r.max = pool.max /\ r.idle = pool.idle /\ r.notified = pool.notified
         /\ \A d \in Conns \ {c} : r.conn[d] = pool.conn[d]
         /\ r.conn[c] \in Connection /\ r.conn[c].st = "open" /\ r.conn[c].tracked /\ r.conn[c].inUse
         /\ ~r.conn[c].hdr /\ ~r.conn[c].msg /\ ~r.conn[c].lost
         /\ \A d \in Conns : r.conn[d].tracked <=> pool.conn[d].tracked \/ d = c
         /\ Cardinality(Tracked(pool)) \in Nat
         /\ Cardinality(Tracked(r)) = Cardinality(Tracked(pool)) + 1
         /\ c \notin Range(pool.idle) /\ \A q \in Queries : ~Holds(q, c)
<1>1. Types /\ Connections /\ Tasks /\ Holders
  BY DEF WorkerInv
<1>2. c \in Unused
  BY DEF NewConn
<1>3. /\ c \in Conns /\ pool.conn[c].st = "none" /\ pool \in Pool
      /\ pool.conn[c] \in Connection
  BY <1>1, <1>2, PoolParts DEF Unused, Types
<1>4. ~pool.conn[c].tracked /\ due[c] = 0
  BY <1>1, <1>3 DEF Connections, ConnFits
<1> DEFINE k == [Fresh EXCEPT !.st = "open", !.tracked = TRUE, !.inUse = TRUE]
<1>5. r = WithConn(pool, c, k)
  BY DEF Connected, WithConn
<1>6. /\ k \in Connection /\ k.st = "open" /\ k.tracked = TRUE /\ k.inUse = TRUE
      /\ k.hdr = FALSE /\ k.msg = FALSE /\ k.lost = FALSE
  <2>1. Fresh.hdr = FALSE /\ Fresh.msg = FALSE /\ Fresh.lost = FALSE
    BY DEF Fresh
  <2> DEFINE f == Fresh
  <2>2. f \in Connection /\ k = [f EXCEPT !.st = "open", !.tracked = TRUE, !.inUse = TRUE]
    BY FreshIsClean
  <2> HIDE DEF f, k
  <2>3. /\ k \in Connection /\ k.st = "open" /\ k.tracked = TRUE /\ k.inUse = TRUE
        /\ k.hdr = f.hdr /\ k.msg = f.msg /\ k.lost = f.lost
    BY <2>2 DEF Connection
  <2> QED
    BY <2>1, <2>3 DEF f
<1> HIDE DEF k
<1>7. /\ r \in Pool /\ r.max = pool.max /\ r.idle = pool.idle /\ r.notified = pool.notified
      /\ r.conn[c] = k /\ \A d \in Conns \ {c} : r.conn[d] = pool.conn[d]
  BY <1>3, <1>5, <1>6, ConnReplaced
<1>8. \A d \in Conns : r.conn[d].tracked <=> pool.conn[d].tracked \/ d = c
  BY <1>6, <1>7
<1>9. Tracked(r) = Tracked(pool) \cup {c} /\ c \notin Tracked(pool)
  BY <1>3, <1>4, <1>8 DEF Tracked
<1>10. IsFiniteSet(Tracked(pool)) /\ Cardinality(Tracked(pool)) \in Nat
  BY NoMoreTracked
<1>11. Cardinality(Tracked(r)) = Cardinality(Tracked(pool)) + 1
  BY <1>9, <1>10, FS_AddElement
<1>12. c \notin Range(pool.idle) /\ \A q \in Queries : ~Holds(q, c)
  BY <1>1, <1>4 DEF Holders, Tasks, TaskFits, Holds
<1> QED
  BY <1>3, <1>4, <1>6, <1>7, <1>8, <1>10, <1>11, <1>12

LEMMA ConnectDoneKeeps ==
  ASSUME WorkerInv, ConnectDone
  PROVE  WorkerInv'
<1> DEFINE c == NewConn
<1>1. /\ main = "connecting" /\ Unused # {} /\ pool' = Connected(pool, c)
      /\ Write(next, c) /\ creating' = creating - 1 /\ UNCHANGED <<shutdown, answers>>
  BY DEF ConnectDone
<1>2. /\ creating = 1 /\ next <= NQ /\ ~pool.notified /\ CapHolds /\ pool.max \in Nat
      /\ pool.idle \in Seq(Conns) /\ \A d \in Range(pool.idle) : d \in Conns
      /\ \A i, j \in DOMAIN pool.idle : pool.idle[i] = pool.idle[j] => i = j
  BY <1>1, PoolParts, RangeIs DEF WorkerInv, MainFits, Types, Holders
<1> HIDE DEF c
<1>3. /\ c \in Conns
      /\ pool' \in Pool /\ pool'.max = pool.max /\ pool'.idle = pool.idle
      /\ pool'.notified = pool.notified
      /\ \A d \in Conns \ {c} : pool'.conn[d] = pool.conn[d]
      /\ pool'.conn[c].st = "open" /\ pool'.conn[c].tracked /\ pool'.conn[c].inUse
      /\ ~pool'.conn[c].hdr /\ ~pool'.conn[c].msg /\ ~pool'.conn[c].lost
      /\ Cardinality(Tracked(pool)) \in Nat
      /\ Cardinality(Tracked(pool')) = Cardinality(Tracked(pool)) + 1
      /\ c \notin Range(pool.idle) /\ \A q \in Queries : ~Holds(q, c)
  BY <1>1, ConnectedIs DEF c
<1>4. creating' = 0 /\ CapHolds'
  BY <1>1, <1>2, <1>3 DEF CapHolds
<1>5. /\ \A d \in Conns \ {c} : \/ pool'.conn[d] = pool.conn[d]
                                \/ d \in Range(pool.idle) /\ pool'.conn[d] = CloseConn(pool.conn[d])
      /\ \A d \in Range(pool'.idle) :
           d \in Range(pool.idle) \ {c} /\ pool'.conn[d] = pool.conn[d]
      /\ \A d \in Range(pool.idle) \ {c} : pool'.conn[d].tracked => d \in Range(pool'.idle)
      /\ \A i, j \in DOMAIN pool'.idle : pool'.idle[i] = pool'.idle[j] => i = j
  <2>1. \A d \in Range(pool.idle) : d # c /\ d \in Conns \ {c}
    BY <1>2, <1>3
  <2>2. \A d \in Range(pool.idle) : pool'.conn[d] = pool.conn[d]
    BY <1>3, <2>1
  <2>3. \A i, j \in DOMAIN pool'.idle : pool'.idle[i] = pool'.idle[j] => i = j
    BY <1>2, <1>3
  <2>4. Range(pool'.idle) = Range(pool.idle)
    BY <1>3
  <2> QED
    BY <1>3, <2>1, <2>2, <2>3, <2>4
<1> QED
  BY <1>1, <1>2, <1>3, <1>4, <1>5, WriteKeeps

\* A step of the warm-up, which touches no request.
LEMMA WarmConnectedKeeps ==
  ASSUME WorkerInv, WarmConnected
  PROVE  WorkerInv'
<1> DEFINE c == NewConn
<1>1. Types /\ Connections /\ Tasks /\ Holders /\ MainFits /\ Answered
  BY DEF WorkerInv
<1>2. /\ main = "warmup" /\ Unused # {} /\ pool' = Connected(pool, c) /\ creating > 0
      /\ creating' = creating - 1
      /\ UNCHANGED <<main, shutdown, next, due, task, answers>>
  BY DEF WarmConnected
<1> HIDE DEF c
<1>3. /\ c \in Conns /\ due[c] = 0
      /\ pool' \in Pool /\ pool'.max = pool.max /\ pool'.idle = pool.idle
      /\ pool'.notified = pool.notified
      /\ \A d \in Conns \ {c} : pool'.conn[d] = pool.conn[d]
      /\ pool'.conn[c].st = "open" /\ pool'.conn[c].tracked
      /\ ~pool'.conn[c].msg /\ ~pool'.conn[c].lost
      /\ Cardinality(Tracked(pool)) \in Nat
      /\ Cardinality(Tracked(pool')) = Cardinality(Tracked(pool)) + 1
  BY <1>2, ConnectedIs DEF c
<1>4. /\ pool.idle = <<>> /\ (\A q \in Queries : ~Live(task[q])) /\ ~pool.notified
      /\ creating \in Nat /\ creating' \in Nat /\ pool.max \in Nat
  BY <1>1, <1>2, PoolParts DEF MainFits, Types
<1>5. Types'
  BY <1>1, <1>2, <1>3, <1>4 DEF Types
<1>6. Connections'
  <2> SUFFICES ASSUME NEW d \in Conns
               PROVE  ConnFits(pool'.conn[d], due[d])
    BY <1>2 DEF Connections
  <2>1. CASE d = c
    BY <1>3, <2>1 DEF ConnFits
  <2>2. CASE d # c
    BY <1>1, <1>3, <2>2 DEF Connections
  <2> QED
    BY <2>1, <2>2
<1>7. Tasks'
  BY <1>2, <1>4 DEF Tasks
<1>8. Holders'
  <2>1. \A r, s \in Queries, d \in Conns : Holds(r, d)' /\ Holds(s, d)' => r = s
    BY <1>2, <1>4 DEF Holds
  <2>2. Range(pool'.idle) = {}
    BY <1>3, <1>4, RangeIs
  <2>3. \A d \in Conns : ~(pool'.conn[d].st = "open" /\ due'[d] # 0)
    BY <1>1, <1>2, <1>3, <1>4 DEF Holders, Holds
  <2> QED
    BY <1>2, <1>3, <1>4, <2>1, <2>2, <2>3 DEF Holders
<1>9. MainFits'
  <2>1. CapHolds'
    BY <1>1, <1>2, <1>3, <1>4 DEF CapHolds, MainFits
  <2> QED
    BY <1>2, <1>3, <1>4, <2>1 DEF MainFits
<1>10. Answered'
  BY <1>1, <1>2 DEF Answered
<1> QED
  BY <1>5, <1>6, <1>7, <1>8, <1>9, <1>10 DEF WorkerInv

LEMMA WarmRefusedKeeps ==
  ASSUME WorkerInv, WarmRefused
  PROVE  WorkerInv'
<1>1. Types /\ Connections /\ Tasks /\ Holders /\ MainFits /\ Answered
  BY DEF WorkerInv
<1>2. /\ main = "warmup" /\ creating > 0 /\ creating' = creating - 1
      /\ UNCHANGED <<main, shutdown, next, pool, due, task, answers>>
  BY DEF WarmRefused
<1>3. creating \in Nat /\ creating' \in Nat /\ pool.max \in Nat /\ Cardinality(Tracked(pool)) \in Nat
  BY <1>1, <1>2, PoolParts, NoMoreTracked DEF Types
<1>4. Types'
  BY <1>1, <1>2, <1>3 DEF Types
<1>5. Connections' /\ Tasks'
  BY <1>1, <1>2 DEF Connections, Tasks
<1>6. Holders'
  <2>1. \A r, s \in Queries, d \in Conns : Holds(r, d)' /\ Holds(s, d)' => r = s
    BY <1>1, <1>2 DEF Holders, Holds
  <2>2. \A d \in Conns : pool.conn[d].st = "open" /\ due[d] # 0 => \E r \in Queries : Holds(r, d)'
    BY <1>1, <1>2 DEF Holders, Holds
  <2> QED
    BY <1>1, <1>2, <2>1, <2>2 DEF Holders
<1>7. MainFits'
  <2>1. CapHolds'
    BY <1>1, <1>2, <1>3 DEF CapHolds, MainFits
  <2> QED
    BY <1>1, <1>2, <2>1 DEF MainFits
<1>8. Answered'
  BY <1>1, <1>2 DEF Answered
<1> QED
  BY <1>4, <1>5, <1>6, <1>7, <1>8 DEF WorkerInv


\* The warm-up ends: the connections still good make up the idle stack.
LEMMA WarmDoneKeeps ==
  ASSUME WorkerInv, WarmDone
  PROVE  WorkerInv'
<1> DEFINE good == {c \in Tracked(pool) : Reusable(pool.conn[c])}
           f == [c \in Conns |->
                   IF c \in good THEN ResetConn([pool.conn[c] EXCEPT !.inUse = FALSE])
                   ELSE IF c \in Tracked(pool) THEN CloseConn(pool.conn[c]) ELSE pool.conn[c]]
           s == SetToSeq(good)
<1>1. Types /\ Connections /\ Tasks /\ Holders /\ MainFits /\ Answered
  BY DEF WorkerInv
<1>2. /\ main = "warmup" /\ creating = 0
      /\ main' \in {"exited", "recv"}
      /\ UNCHANGED <<shutdown, next, creating, due, task, answers>>
  BY DEF WarmDone
<1>3. pool' = [pool EXCEPT !.conn = f, !.idle = s]
  BY DEF WarmDone
<1>4. /\ pool \in Pool /\ pool.conn \in [Conns -> Connection] /\ pool.max \in Nat
      /\ (\A q \in Queries : ~Live(task[q])) /\ ~pool.notified
  BY <1>1, <1>2, PoolParts DEF Types, MainFits
<1>5. \A c \in Conns : c \in good <=> pool.conn[c].tracked /\ Reusable(pool.conn[c])
  BY DEF Tracked
<1>6. good \in SUBSET Conns
  BY DEF Tracked
<1>7. \A c \in Conns : c \in Tracked(pool) <=> pool.conn[c].tracked
  BY DEF Tracked
<1>8. /\ s \in Seq(Conns) /\ \A x : x \in Range(s) <=> x \in good
      /\ \A i, j \in DOMAIN s : s[i] = s[j] => i = j
  <2> HIDE DEF good
  <2> QED
    BY <1>6, SetToSeqIs
<1>9. \A c \in Conns : f[c] =
        IF c \in good THEN ResetConn([pool.conn[c] EXCEPT !.inUse = FALSE])
        ELSE IF c \in Tracked(pool) THEN CloseConn(pool.conn[c]) ELSE pool.conn[c]
  OBVIOUS
<1>10. DOMAIN f = Conns /\ f = [c \in Conns |-> f[c]]
  OBVIOUS
<1> HIDE DEF good, s, f
<1>11. ASSUME NEW c \in Conns
       PROVE  /\ f[c] \in Connection /\ ConnFits(f[c], due[c])
              /\ ~(f[c].st = "open" /\ due[c] # 0)
              /\ c \in good => f[c].tracked /\ ~f[c].inUse
              /\ f[c].tracked => c \in good
  <2>1. /\ pool.conn[c] \in Connection /\ ConnFits(pool.conn[c], due[c])
        /\ ~(pool.conn[c].st = "open" /\ due[c] # 0)
    BY <1>1, <1>4 DEF Connections, Holders, Holds
  <2> DEFINE k == pool.conn[c]
  <2>2. CASE c \in good
    <3> DEFINE r == ResetConn([k EXCEPT !.inUse = FALSE])
    <3>1. k.tracked /\ k.st = "open" /\ ~k.lost /\ k \in Connection
      BY <1>5, <2>1, <2>2 DEF Reusable, IsAlive
    <3> HIDE DEF k
    <3>2. /\ r \in Connection /\ r.st = k.st /\ r.tracked = k.tracked /\ r.lost = k.lost
          /\ r.inUse = FALSE /\ ~r.hdr /\ ~r.msg
      BY <3>1, ResetConnKeeps
    <3> HIDE DEF r
    <3>3. f[c] = r
      BY <1>9, <2>2 DEF r, k
    <3> QED
      BY <2>1, <2>2, <3>1, <3>2, <3>3 DEF ConnFits, k
  <2>3. CASE c \notin good /\ c \in Tracked(pool)
    <3>1. f[c] = CloseConn(k)
      BY <1>9, <2>3
    <3> QED
      BY <2>1, <2>3, <3>1, CloseConnKeeps, ClosedFits
  <2>4. CASE c \notin good /\ c \notin Tracked(pool)
    <3>1. f[c] = k /\ ~k.tracked
      BY <1>7, <1>9, <2>4
    <3> QED
      BY <2>1, <2>4, <3>1
  <2> QED
    BY <2>2, <2>3, <2>4
<1>12. f \in [Conns -> Connection]
  BY <1>10, <1>11
<1>13. /\ pool' \in Pool /\ pool'.max = pool.max /\ ~pool'.notified
       /\ pool'.conn = f /\ pool'.idle = s
  BY <1>3, <1>4, <1>8, <1>12 DEF Pool
<1>14. Types'
  BY <1>1, <1>2, <1>13 DEF Types
<1>15. Connections'
  BY <1>2, <1>11, <1>13 DEF Connections
<1>16. Tasks'
  BY <1>2, <1>4 DEF Tasks
<1>17. Holders'
  <2>1. \A q, r \in Queries, d \in Conns : Holds(q, d)' /\ Holds(r, d)' => q = r
    BY <1>2, <1>4 DEF Holds
  <2>2. \A d \in Range(pool'.idle) : pool'.conn[d].tracked /\ ~pool'.conn[d].inUse
    BY <1>6, <1>8, <1>11, <1>13
  <2>3. \A d \in Conns : ~(pool'.conn[d].st = "open" /\ due'[d] # 0)
    BY <1>2, <1>11, <1>13
  <2>4. \A d \in Tracked(pool') : d \in Range(pool'.idle)
    BY <1>8, <1>11, <1>13 DEF Tracked
  <2>5. \A i, j \in DOMAIN pool'.idle : pool'.idle[i] = pool'.idle[j] => i = j
    BY <1>8, <1>13
  <2> QED
    BY <2>1, <2>2, <2>3, <2>4, <2>5 DEF Holders
<1>18. MainFits'
  <2>1. Tracked(pool') \subseteq Tracked(pool)
    BY <1>5, <1>7, <1>11, <1>13 DEF Tracked
  <2>2. CapHolds'
    BY <1>1, <1>2, <1>4, <1>13, <2>1, NoMoreTracked DEF MainFits, CapHolds
  <2> QED
    BY <1>2, <1>13, <2>2 DEF MainFits
<1>19. Answered'
  BY <1>1, <1>2 DEF Answered
<1> QED
  BY <1>14, <1>15, <1>16, <1>17, <1>18, <1>19 DEF WorkerInv

LEMMA ShutdownKeeps ==
  ASSUME WorkerInv, Shutdown
  PROVE  WorkerInv'
<1>1. Types /\ Connections /\ Tasks /\ Holders /\ MainFits /\ Answered
  BY DEF WorkerInv
<1>2. shutdown' = TRUE /\ UNCHANGED <<main, next, creating, pool, due, task, answers>>
  BY DEF Shutdown
<1>3. Types' /\ Connections' /\ Tasks' /\ MainFits' /\ Answered'
  BY <1>1, <1>2 DEF Types, Connections, Tasks, MainFits, CapHolds, Answered
<1>4. Holders'
  BY <1>1, <1>2 DEF Holders, Holds
<1> QED
  BY <1>3, <1>4 DEF WorkerInv

\* The worker leaves: response tasks are cancelled, the pool is closed.
LEMMA ExitKeeps ==
  ASSUME WorkerInv, Exit
  PROVE  WorkerInv'
<1> DEFINE z == CloseAll(pool, Tracked(pool))
<1>1. Types /\ Connections /\ Tasks /\ Holders /\ MainFits /\ Answered
  BY DEF WorkerInv
<1>2. /\ main = "recv" /\ main' = "exited" /\ shutdown
      /\ pool' = [z EXCEPT !.idle = <<>>]
      /\ task' = [q \in Queries |-> IF Live(task[q]) THEN [task[q] EXCEPT !.pc = "cancelled"]
                                    ELSE task[q]]
      /\ UNCHANGED <<shutdown, next, creating, due, answers>>
  BY DEF Exit
<1>3. /\ pool \in Pool /\ pool.conn \in [Conns -> Connection] /\ pool.max \in Nat
      /\ creating = 0 /\ ~pool.notified
  BY <1>1, <1>2, PoolParts DEF Types, MainFits
<1>4. /\ z \in Pool /\ z.max = pool.max /\ z.notified = pool.notified
      /\ \A c \in Conns : z.conn[c] = IF c \in Tracked(pool) THEN CloseConn(pool.conn[c])
                                      ELSE pool.conn[c]
  BY <1>3, CloseAllKeeps
<1> HIDE DEF z
<1>5. /\ pool' \in Pool /\ pool'.max = pool.max /\ ~pool'.notified /\ pool'.idle = <<>>
      /\ pool'.conn = z.conn
  <2>1. <<>> \in Seq(Conns)
    OBVIOUS
  <2> QED
    BY <1>2, <1>3, <1>4, <2>1 DEF Pool
<1>6. ASSUME NEW q \in Queries
      PROVE  /\ IsTask(task'[q]) /\ ~Live(task'[q])
             /\ task'[q].pc \in {"none", "done"} => task'[q] = task[q]
             /\ task[q].pc = "none" => task'[q].pc = "none"
  <2>1. IsTask(task[q])
    BY <1>1 DEF Types
  <2>2. CASE Live(task[q])
    <3>1. task'[q] = [task[q] EXCEPT !.pc = "cancelled"]
      BY <1>2, <2>2
    <3>2. task'[q] = [pc |-> "cancelled", c |-> task[q].c, fut |-> task[q].fut]
      BY <2>1, <3>1 DEF IsTask
    <3> QED
      BY <2>1, <2>2, <3>2 DEF IsTask, Live
  <2>3. CASE ~Live(task[q])
    <3>1. task'[q] = task[q]
      BY <1>2, <2>3
    <3> QED
      BY <2>1, <2>3, <3>1
  <2> QED
    BY <2>2, <2>3
<1>7. \A c \in Conns : /\ ~pool'.conn[c].tracked
                       /\ pool'.conn[c].st = "open" => pool'.conn[c] = pool.conn[c]
  BY <1>3, <1>4, <1>5, CloseConnKeeps DEF Tracked
<1>8. Types'
  <2>1. DOMAIN task' = Queries
    BY <1>2
  <2> QED
    BY <1>1, <1>2, <1>5, <1>6, <2>1 DEF Types
<1>9. Connections'
  BY <1>1, <1>2, <1>3, <1>4, <1>5, ClosedFits DEF Connections
<1>10. Tasks'
  BY <1>6 DEF Tasks
<1>11. Holders'
  <2>1. \A q, r \in Queries, d \in Conns : Holds(q, d)' /\ Holds(r, d)' => q = r
    BY <1>6 DEF Holds
  <2>2. Range(pool'.idle) = {}
    BY <1>5, RangeIs
  <2>3. \A d \in Conns : ~(pool'.conn[d].st = "open" /\ due'[d] # 0)
    BY <1>1, <1>2, <1>7 DEF Holders, Tasks, TaskFits, Holds
  <2>4. Tracked(pool') = {}
    BY <1>7 DEF Tracked
  <2> QED
    BY <1>5, <2>1, <2>2, <2>3, <2>4 DEF Holders
<1>12. MainFits'
  <2>1. Tracked(pool') \subseteq Tracked(pool)
    BY <1>7 DEF Tracked
  <2>2. CapHolds'
    BY <1>1, <1>2, <1>3, <1>5, <2>1, NoMoreTracked DEF MainFits, CapHolds
  <2> QED
    BY <1>2, <1>3, <1>5, <2>2 DEF MainFits
<1>13. Answered'
  <2> SUFFICES ASSUME NEW r \in Queries
               PROVE  /\ r >= next => task'[r].pc = "none"
                      /\ r >= next \/ Live(task'[r]) => answers[r] = <<>>
                      /\ ~shutdown /\ task'[r].pc = "done" => answers[r] # <<>>
    BY <1>1, <1>2 DEF Answered
  <2> QED
    BY <1>1, <1>2, <1>6 DEF Answered
<1> QED
  BY <1>8, <1>9, <1>10, <1>11, <1>12, <1>13 DEF WorkerInv

-----------------------------------------------------------------------------
(***************************************************************************)
(* The specification                                                       *)
(***************************************************************************)

LEMMA InitWorker == Init => WorkerInv
<1> SUFFICES ASSUME Init PROVE WorkerInv
  OBVIOUS
<1>1. PICK max \in MaxConns :
        pool = [max |-> max, conn |-> [c \in Conns |-> Fresh], idle |-> <<>>, notified |-> FALSE]
  BY DEF Init
<1>2. /\ pool.max = max /\ pool.idle = <<>> /\ pool.notified = FALSE
      /\ \A c \in Conns : pool.conn[c] = Fresh
  BY <1>1
<1>3. /\ main = (IF WarmCount = 0 THEN "recv" ELSE "warmup") /\ shutdown = FALSE /\ next = 1
      /\ creating = WarmCount /\ due = [c \in Conns |-> 0]
      /\ task = [q \in Queries |-> NoTask] /\ answers = [q \in Queries |-> <<>>]
  BY DEF Init
<1>4. max \in Nat \ {0} /\ WarmCount \in 0..max /\ NQ \in Nat
  BY WorkerAssumption
<1>5. pool \in Pool
  <2>1. <<>> \in Seq(Conns) /\ FALSE \in BOOLEAN
    OBVIOUS
  <2> DEFINE f == [c \in Conns |-> Fresh]
  <2>2. f \in [Conns -> Connection] /\ pool = [max |-> max, conn |-> f, idle |-> <<>>, notified |-> FALSE]
    BY <1>1, FreshIsClean
  <2> HIDE DEF f
  <2> QED
    BY <2>1, <2>2 DEF Pool
<1>6. IsTask(NoTask) /\ ~Live(NoTask) /\ NoTask.pc = "none"
  <2> DEFINE x == CHOOSE c \in Conns : TRUE
  <2>1. NoTask = [pc |-> "none", c |-> x, fut |-> "pending"]
    BY DEF NoTask
  <2> HIDE DEF x
  <2> QED
    BY <2>1 DEF IsTask, Live
<1>7. \A q \in Queries : task[q] = NoTask /\ answers[q] = <<>>
  BY <1>3
<1>8. Types
  <2>1. due \in [Conns -> 0..NQ]
    <3>1. 0 \in 0..NQ
      BY <1>4
    <3> QED
      BY <1>3, <3>1
  <2>2. answers \in [Queries -> Seq([of : 0..NQ, cut : {"no", "body", "stream"}])]
    <3> DEFINE A == [of : 0..NQ, cut : {"no", "body", "stream"}]
    <3>1. <<>> \in Seq(A)
      OBVIOUS
    <3> DEFINE S == Seq(A)
    <3> HIDE DEF A, S
    <3>2. answers \in [Queries -> S]
      BY <1>3, <3>1 DEF S
    <3> QED
      BY <3>2 DEF S, A
  <2>3. DOMAIN task = Queries /\ \A q \in Queries : IsTask(task[q])
    BY <1>3, <1>6
  <2>4. main \in {"warmup", "recv", "connecting", "waiting", "exited"} /\ shutdown \in BOOLEAN
    BY <1>3
  <2>5. next \in 1..(NQ + 1) /\ creating \in Nat
    BY <1>3, <1>4
  <2> QED
    BY <1>5, <2>1, <2>2, <2>3, <2>4, <2>5 DEF Types
<1>9. Connections
  BY <1>2, <1>3, FreshIsClean DEF Connections, ConnFits
<1>10. Tasks
  BY <1>6, <1>7 DEF Tasks
<1>11. Tracked(pool) = {} /\ Range(pool.idle) = {}
  <2>1. Tracked(pool) = {}
    BY <1>2, FreshIsClean DEF Tracked
  <2>2. Range(pool.idle) = {}
    BY <1>2, RangeIs
  <2> QED
    BY <2>1, <2>2
<1>12. Holders
  <2>1. \A c \in Conns : due[c] = 0
    BY <1>3
  <2>2. \A q \in Queries, c \in Conns : ~Holds(q, c)
    BY <1>6, <1>7 DEF Holds
  <2> QED
    BY <1>2, <1>11, <2>1, <2>2 DEF Holders
<1>13. MainFits
  <2>1. CapHolds
    BY <1>2, <1>3, <1>4, <1>11, FS_EmptySet DEF CapHolds
  <2> QED
    BY <1>2, <1>3, <1>6, <1>7, <2>1 DEF MainFits
<1>14. Answered
  BY <1>6, <1>7 DEF Answered
<1> QED
  BY <1>8, <1>9, <1>10, <1>12, <1>13, <1>14 DEF WorkerInv

LEMMA NextKeepsWorker == WorkerInv /\ [Next]_vars => WorkerInv'
<1> SUFFICES ASSUME WorkerInv, [Next]_vars
             PROVE  WorkerInv'
  OBVIOUS
<1>1. CASE Receive
  BY <1>1, ReceiveKeeps
<1>2. CASE PrepareFails
  BY <1>2, PrepareFailsKeeps
<1>3. CASE WaiterResumes
  BY <1>3, WaiterResumesKeeps
<1>4. CASE ConnectDone
  BY <1>4, ConnectDoneKeeps
<1>5. CASE ConnectFails
  BY <1>5, ConnectFailsKeeps
<1>6. CASE WarmConnected
  BY <1>6, WarmConnectedKeeps
<1>7. CASE WarmRefused
  BY <1>7, WarmRefusedKeeps
<1>8. CASE WarmDone
  BY <1>8, WarmDoneKeeps
<1>9. CASE Exit
  BY <1>9, ExitKeeps
<1>10. CASE Shutdown
  BY <1>10, ShutdownKeeps
<1>11. CASE \E q \in Queries : Resume(q)
  BY <1>11, ResumeKeeps
<1>12. CASE \E c \in Conns : DataReceived(c)
  BY <1>12, PacketKeeps DEF DataReceived
<1>13. CASE \E c \in Conns : EndpointCloses(c)
  BY <1>13, EndpointClosesKeeps
<1>14. CASE \E c \in Conns : EofReceived(c)
  BY <1>14, EofReceivedKeeps
<1>15. CASE \E c \in Conns : ConnectionLost(c)
  BY <1>15, ConnectionLostKeeps
<1>16. CASE UNCHANGED vars
  <2>1. UNCHANGED <<main, shutdown, next, creating, pool, due, task, answers>>
    BY <1>16 DEF vars
  <2>2. Types' /\ Connections' /\ Tasks' /\ MainFits' /\ Answered'
    BY <2>1 DEF WorkerInv, Types, Connections, Tasks, MainFits, CapHolds, Answered
  <2>3. Holders'
    BY <2>1 DEF WorkerInv, Holders, Holds
  <2> QED
    BY <2>2, <2>3 DEF WorkerInv
<1> QED
  BY <1>1, <1>2, <1>3, <1>4, <1>5, <1>6, <1>7, <1>8, <1>9, <1>10, <1>11, <1>12, <1>13,
     <1>14, <1>15, <1>16 DEF Next, MainLoop

\* The inductive invariant holds in every reachable state.
THEOREM WorkerKeepsItsPool == Spec => []WorkerInv
<1>1. Init => WorkerInv
  BY InitWorker
<1>2. WorkerInv /\ [Next]_vars => WorkerInv'
  BY NextKeepsWorker
<1> QED
  BY <1>1, <1>2, PTL DEF Spec

LEMMA WorkerIsSound == WorkerInv => RequestsAreSound
<1> SUFFICES ASSUME WorkerInv PROVE RequestsAreSound
  OBVIOUS
<1>1. Types /\ Connections /\ Tasks /\ Holders /\ MainFits /\ Answered
  BY DEF WorkerInv
<1>2. /\ pool \in Pool /\ pool.max \in Nat /\ pool.idle \in Seq(Conns)
      /\ creating \in Nat /\ Cardinality(Tracked(pool)) \in Nat
      /\ \A c \in Conns : pool.conn[c] \in Connection
  BY <1>1, PoolParts, NoMoreTracked DEF Types
<1>3. CapHolds
  BY <1>1 DEF MainFits
<1>4. TypeOK
  <2>1. creating \in 0..pool.max
    BY <1>2, <1>3 DEF CapHolds
  <2>2. \A c \in Conns : pool.conn[c].st \in {"none", "open", "closing", "gone"}
    BY <1>2 DEF Connection
  <2>3. /\ pool.notified => main = "waiting"
        /\ \A i, j \in DOMAIN pool.idle : pool.idle[i] = pool.idle[j] => i = j
    BY <1>1 DEF MainFits, Holders
  <2> QED
    BY <1>1, <2>1, <2>2, <2>3 DEF TypeOK, Types
<1>5. OneRequestPerConnection
  <2>1. \A q, r \in Queries : Live(task[q]) /\ Live(task[r]) /\ task[q].c = task[r].c => q = r
    BY <1>1 DEF Holders, Holds, Tasks
  <2>2. ASSUME NEW c \in Range(pool.idle)
        PROVE  /\ due[c] = 0 \/ ~IsAlive(pool.conn[c])
               /\ \A q \in Queries : Live(task[q]) => task[q].c # c
    <3>1. c \in Conns /\ ~pool.conn[c].inUse
      BY <1>1, <1>2, RangeIs DEF Holders
    <3>2. \A q \in Queries : ~Holds(q, c)
      BY <1>1, <3>1 DEF Tasks, TaskFits, Holds
    <3> QED
      BY <1>1, <3>1, <3>2 DEF Holders, IsAlive, Holds
  <2> QED
    BY <2>1, <2>2 DEF OneRequestPerConnection
<1>6. WaiterHasReleaser
  <2> SUFFICES ASSUME main = "waiting", ~pool.notified
               PROVE  /\ pool.idle = <<>>
                      /\ Cardinality(Tracked(pool)) = pool.max
                      /\ \A c \in Tracked(pool) : \E q \in Queries : Live(task[q]) /\ task[q].c = c
    BY DEF WaiterHasReleaser
  <2>1. pool.idle = <<>> /\ Cardinality(Tracked(pool)) = pool.max
    BY <1>1 DEF MainFits
  <2>2. Range(pool.idle) = {}
    BY <2>1, RangeIs
  <2> QED
    BY <1>1, <2>1, <2>2 DEF Holders, Holds
<1>7. AnswerIsOwn
  BY <1>1 DEF Answered, AnswerIsOwn
<1> QED
  BY <1>3, <1>4, <1>5, <1>6, <1>7 DEF RequestsAreSound, PoolIsSound

\* The pool's bookkeeping is right in every interleaving of the main loop, the
\* response tasks and the transport's callbacks: a connection serves one request
\* at a time and owes nothing when it is reused, the limit holds, a waiting main
\* loop has somebody who will wake it, and what a query is told is its own answer.
THEOREM RequestsServedSoundly == Spec => []RequestsAreSound
  BY WorkerKeepsItsPool, WorkerIsSound, PTL

=============================================================================
