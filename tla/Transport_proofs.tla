-------------------------- MODULE Transport_proofs --------------------------
(***************************************************************************)
(* Machine-checked proofs about the two transports, for any number of      *)
(* senders, messages and records, and every threshold and flush interval.  *)
(***************************************************************************)
EXTENDS MCTransport, SequenceTheorems, WellFoundedInduction, TLAPS

-----------------------------------------------------------------------------
(* The channel of the workers: no wake-up is lost.                         *)

\* The types of the channel's variables, with the domains of the functions.
ChannelTypes ==
    /\ sent \in [Senders -> 0..M] /\ sclosed \in [Senders -> BOOLEAN]
    /\ sbuf \in [Senders -> Seq(1..M)] /\ wire \in [Senders -> Seq(1..M)]
    /\ got \in [Senders -> Seq(1..M)]
    /\ asleep \in [Senders -> BOOLEAN]
    /\ edge \in BOOLEAN /\ soon \in BOOLEAN /\ some \in BOOLEAN
    /\ rclosed \in BOOLEAN /\ ended \in BOOLEAN
    /\ at \in {"idle", "drain", "wake"} /\ deque \in Seq(Senders \X (1..M))
    /\ waiter \in {"none", "pending", "done"}

\* A woken consumer finds something: `some` is only set with an item in the
\* deque, and recv() does not run before the callback has returned.
WokenForSomething ==
    /\ waiter = "done" => deque # <<>> \/ rclosed
    /\ at # "idle" /\ some => deque # <<>>

\* Whenever the callback is not draining, either the descriptor or the
\* scheduled call will start it again or every pipe will signal its next
\* message; a pipe that will signal has nothing in it.
SignalWillCome ==
    /\ \A s \in Senders : asleep[s] => wire[s] = <<>>
    /\ ~faulty /\ ~rclosed /\ at = "idle" =>
         edge \/ soon \/ \A s \in Senders : asleep[s]
    /\ ~faulty /\ at = "wake" => edge \/ \A s \in Senders : asleep[s]

\* A consumer that waits although there is an item will be woken at the end
\* of the callback that is running.
WakerRuns ==
    ~faulty /\ deque # <<>> /\ waiter = "pending" => at # "idle" /\ some

\* The inductive invariant.
ChannelInv == ChannelTypes /\ WokenForSomething /\ SignalWillCome /\ WakerRuns

\* Both initial states of the channel satisfy it.
LEMMA ChannelInvInit ==
  ASSUME ChannelInit \/ ChannelIdle
  PROVE  ChannelInv
<1> USE ChannelAssumption
<1>1. <<>> \in Seq(1..M) /\ <<>> \in Seq(Senders \X (1..M))
  OBVIOUS
<1>2. ChannelTypes
  <2>1. 0 \in 0..M
    OBVIOUS
  <2>2. CASE ChannelInit
    BY <1>1, <2>1, <2>2 DEF ChannelInit, ChannelTypes
  <2>3. CASE ChannelIdle
    BY <1>1, <2>1, <2>3 DEF ChannelIdle, ChannelTypes
  <2> QED
    BY <2>2, <2>3
<1>3. WokenForSomething /\ SignalWillCome /\ WakerRuns
  BY DEF ChannelInit, ChannelIdle, WokenForSomething, SignalWillCome, WakerRuns
<1> QED
  BY <1>2, <1>3 DEF ChannelInv

\* Messages that reach a pipe keep the channel's part of the types and what is
\* known of the signals.
LEMMA ArriveKeeps ==
  ASSUME ChannelTypes, SignalWillCome,
         NEW s \in Senders, NEW ms \in Seq(1..M), Arrive(s, ms),
         UNCHANGED <<faulty, soon, at, rclosed>>
  PROVE  /\ wire' \in [Senders -> Seq(1..M)]
         /\ asleep' \in [Senders -> BOOLEAN] /\ edge' \in BOOLEAN
         /\ SignalWillCome'
<1>1. wire[s] \o ms \in Seq(1..M)
  BY ConcatProperties DEF ChannelTypes
<1>2. /\ wire' \in [Senders -> Seq(1..M)]
      /\ asleep' \in [Senders -> BOOLEAN] /\ edge' \in BOOLEAN
  BY <1>1 DEF Arrive, ChannelTypes
<1>3. SignalWillCome'
  BY <1>1 DEF Arrive, ChannelTypes, SignalWillCome
<1> QED
  BY <1>2, <1>3

\* send() and _on_writable keep the invariant: only the senders' side and the
\* pipes change.
LEMMA SenderKeeps ==
  ASSUME ChannelInv, NEW s \in Senders,
         Send(s) \/ OnWritable(s) \/ CloseSender(s)
  PROVE  ChannelInv'
<1> USE ChannelAssumption
<1> USE DEF ChannelInv
<1>1. CASE Send(s)
  <2>1. sent' \in [Senders -> 0..M] /\ sent'[s] \in 1..M
    BY <1>1 DEF Send, ChannelTypes
  <2>2. Append(sbuf[s], sent'[s]) \in Seq(1..M) /\ <<sent'[s]>> \in Seq(1..M)
    BY <2>1 DEF ChannelTypes
  <2>3. sbuf' \in [Senders -> Seq(1..M)]
    BY <1>1, <2>2 DEF Send, ChannelTypes
  <2>4. /\ wire' \in [Senders -> Seq(1..M)]
        /\ asleep' \in [Senders -> BOOLEAN] /\ edge' \in BOOLEAN
        /\ SignalWillCome'
    <3>1. CASE Arrive(s, <<sent'[s]>>)
      BY <1>1, <2>2, <3>1, ArriveKeeps DEF Send
    <3>2. CASE UNCHANGED zmqVars
      BY <1>1, <3>2 DEF Send, zmqVars, ChannelTypes, SignalWillCome
    <3> QED
      BY <1>1, <3>1, <3>2 DEF Send
  <2>5. ChannelTypes'
    BY <1>1, <2>1, <2>3, <2>4 DEF Send, ChannelTypes
  <2>6. WokenForSomething' /\ WakerRuns'
    BY <1>1 DEF Send, WokenForSomething, WakerRuns
  <2> QED
    BY <2>4, <2>5, <2>6
<1>2. CASE OnWritable(s)
  <2>1. PICK k \in 1..Len(sbuf[s]) :
          /\ Arrive(s, SubSeq(sbuf[s], 1, k))
          /\ \/ sbuf' = [sbuf EXCEPT ![s] = SubSeq(@, k + 1, Len(@))]
             \/ sbuf' = [sbuf EXCEPT ![s] = <<>>]
    BY <1>2 DEF OnWritable
  <2>2. /\ SubSeq(sbuf[s], 1, k) \in Seq(1..M)
        /\ SubSeq(sbuf[s], k + 1, Len(sbuf[s])) \in Seq(1..M)
    <3>1. sbuf[s] \in Seq(1..M)
      BY DEF ChannelTypes
    <3> QED
      BY <3>1, SubSeqProperties
  <2>3. sbuf' \in [Senders -> Seq(1..M)]
    <3>1. CASE sbuf' = [sbuf EXCEPT ![s] = SubSeq(@, k + 1, Len(@))]
      BY <2>2, <3>1 DEF ChannelTypes
    <3>2. CASE sbuf' = [sbuf EXCEPT ![s] = <<>>]
      BY <3>2 DEF ChannelTypes
    <3> QED
      BY <2>1, <3>1, <3>2
  <2>4. /\ wire' \in [Senders -> Seq(1..M)]
        /\ asleep' \in [Senders -> BOOLEAN] /\ edge' \in BOOLEAN
        /\ SignalWillCome'
    BY <1>2, <2>1, <2>2, ArriveKeeps DEF OnWritable
  <2>5. ChannelTypes'
    BY <1>2, <2>3, <2>4 DEF OnWritable, ChannelTypes
  <2>6. WokenForSomething' /\ WakerRuns'
    BY <1>2 DEF OnWritable, WokenForSomething, WakerRuns
  <2> QED
    BY <2>4, <2>5, <2>6
<1>3. CASE CloseSender(s)
  <2>1. ChannelTypes'
    BY <1>3 DEF CloseSender, zmqVars, ChannelTypes
  <2>2. WokenForSomething' /\ WakerRuns' /\ SignalWillCome'
    BY <1>3 DEF CloseSender, zmqVars, WokenForSomething, WakerRuns, SignalWillCome
  <2> QED
    BY <2>1, <2>2
<1> QED
  BY <1>1, <1>2, <1>3

\* The drain keeps it: the pipes lose messages, the deque gains them.
LEMMA DrainKeeps ==
  ASSUME ChannelInv, Readable \/ RecvAgain \/ \E s \in Senders : RecvInto(s)
  PROVE  ChannelInv'
<1> USE DEF ChannelInv
<1>1. CASE Readable
  <2>1. ChannelTypes'
    BY <1>1 DEF Readable, sendVars, zmqVars, ChannelTypes
  <2>2. WokenForSomething' /\ WakerRuns' /\ SignalWillCome'
    BY <1>1 DEF Readable, sendVars, zmqVars, WokenForSomething, WakerRuns, SignalWillCome
  <2> QED
    BY <2>1, <2>2
<1>2. CASE RecvAgain
  <2>1. ChannelTypes'
    BY <1>2 DEF RecvAgain, sendVars, ChannelTypes
  <2>2. WokenForSomething' /\ WakerRuns' /\ SignalWillCome'
    BY <1>2 DEF RecvAgain, sendVars, WokenForSomething, WakerRuns, SignalWillCome
  <2> QED
    BY <2>1, <2>2
<1>3. ASSUME NEW s \in Senders, RecvInto(s)
      PROVE  ChannelInv'
  <2>1. Head(wire[s]) \in 1..M /\ Tail(wire[s]) \in Seq(1..M)
    <3>1. wire[s] \in Seq(1..M) /\ wire[s] # <<>>
      BY <1>3 DEF RecvInto, ChannelTypes
    <3> QED
      BY <3>1, HeadTailProperties
  <2>2. /\ Append(deque, <<s, Head(wire[s])>>) \in Seq(Senders \X (1..M))
        /\ Append(deque, <<s, Head(wire[s])>>) # <<>>
    <3>1. deque \in Seq(Senders \X (1..M)) /\ <<s, Head(wire[s])>> \in Senders \X (1..M)
      BY <2>1 DEF ChannelTypes
    <3> QED
      BY ZenonT(60), <3>1, AppendProperties
  <2>3. wire' \in [Senders -> Seq(1..M)]
    BY <1>3, <2>1 DEF RecvInto, ChannelTypes
  <2>4. ChannelTypes'
    BY <1>3, <2>2, <2>3 DEF RecvInto, sendVars, ChannelTypes
  <2>5. WokenForSomething' /\ WakerRuns'
    BY <1>3, <2>2 DEF RecvInto, sendVars, ChannelTypes, WokenForSomething, WakerRuns
  <2>6. \A r \in Senders : asleep'[r] => wire'[r] = <<>>
    BY <1>3 DEF RecvInto, ChannelTypes, SignalWillCome
  <2>7. SignalWillCome'
    BY <1>3, <2>6 DEF RecvInto, SignalWillCome
  <2> QED
    BY <2>4, <2>5, <2>7
<1> QED
  BY <1>1, <1>2, <1>3

\* The end of the callback, the consumer and close() keep it.
LEMMA ReceiverKeeps ==
  ASSUME ChannelInv, Wake \/ Recv \/ CloseReceiver
  PROVE  ChannelInv'
<1> USE DEF ChannelInv
<1>1. CASE Wake
  <2>1. ChannelTypes'
    BY <1>1 DEF Wake, sendVars, ChannelTypes
  <2>2. WokenForSomething' /\ WakerRuns'
    BY <1>1 DEF Wake, sendVars, ChannelTypes, WokenForSomething, WakerRuns
  <2>3. SignalWillCome'
    BY <1>1 DEF Wake, ChannelTypes, SignalWillCome
  <2> QED
    BY <2>1, <2>2, <2>3
<1>2. CASE Recv
  <2>1. CASE deque # <<>>
    <3>1. Head(deque) \in Senders \X (1..M) /\ Tail(deque) \in Seq(Senders \X (1..M))
      BY <2>1 DEF ChannelTypes
    <3>2. Append(got[Head(deque)[1]], Head(deque)[2]) \in Seq(1..M)
      BY SMTT(60), <3>1 DEF ChannelTypes
    <3>3. ChannelTypes'
      BY <1>2, <2>1, <3>1, <3>2 DEF Recv, sendVars, zmqVars, ChannelTypes
    <3>4. WokenForSomething' /\ WakerRuns' /\ SignalWillCome'
      BY <1>2, <2>1 DEF Recv, sendVars, zmqVars, WokenForSomething, WakerRuns, SignalWillCome
    <3> QED
      BY <3>3, <3>4
  <2>2. CASE deque = <<>>
    <3>1. ChannelTypes'
      BY <1>2, <2>2 DEF Recv, sendVars, zmqVars, ChannelTypes
    <3>2. WokenForSomething' /\ WakerRuns' /\ SignalWillCome'
      BY <1>2, <2>2 DEF Recv, sendVars, zmqVars, WokenForSomething, WakerRuns, SignalWillCome
    <3> QED
      BY <3>1, <3>2
  <2> QED
    BY <2>1, <2>2
<1>3. CASE CloseReceiver
  <2>1. ChannelTypes'
    BY <1>3 DEF CloseReceiver, sendVars, zmqVars, ChannelTypes
  <2>2. WokenForSomething' /\ WakerRuns' /\ SignalWillCome'
    BY <1>3 DEF CloseReceiver, sendVars, zmqVars, WokenForSomething, WakerRuns, SignalWillCome
  <2> QED
    BY <2>1, <2>2
<1> QED
  BY <1>1, <1>2, <1>3

\* Every step of the channel keeps it.
LEMMA ChannelInvStep ==
  ASSUME ChannelInv, [ChannelNext]_channelVars
  PROVE  ChannelInv'
<1>1. CASE UNCHANGED channelVars
  BY <1>1 DEF channelVars, sendVars, zmqVars, ChannelInv, ChannelTypes,
              WokenForSomething, SignalWillCome, WakerRuns
<1> QED
  BY <1>1, SenderKeeps, DrainKeeps, ReceiverKeeps DEF ChannelNext

\* It implies what the run checks.
LEMMA ChannelInvImplies ==
  ASSUME ChannelInv
  PROVE  NoWakeupLost
<1> USE DEF ChannelInv
<1>1. ChannelTypeOK
  BY DEF ChannelTypes, WokenForSomething, ChannelTypeOK
<1>2. NeverDeaf
  BY DEF SignalWillCome, NeverDeaf
<1>3. NoLostWakeup
  BY DEF WakerRuns, NoLostWakeup
<1> QED
  BY <1>1, <1>2, <1>3 DEF NoWakeupLost

\* In every behaviour of the transports, whatever the drain of an
\* edge-triggered socket, the rescheduled callback and the consumer's recv()
\* interleave to, no message is left where nothing will look at it and no
\* consumer sleeps on a queue with an item.
THEOREM WakeupsAreNeverLost == Spec => []NoWakeupLost
<1>1. Init => ChannelInv
  BY ChannelInvInit DEF Init
<1>2. ChannelInv /\ [Next]_vars => ChannelInv'
  <2> SUFFICES ASSUME ChannelInv, [Next]_vars
               PROVE  ChannelInv'
    OBVIOUS
  <2>1. [ChannelNext]_channelVars
    BY DEF Next, vars
  <2> QED
    BY <2>1, ChannelInvStep
<1>3. ChannelInv => NoWakeupLost
  BY ChannelInvImplies
<1> QED
  BY <1>1, <1>2, <1>3, PTL DEF Spec

-----------------------------------------------------------------------------
(* What FlattenSeq, through which records are followed from queue to queue, *)
(* computes, for every sequence of sequences.                              *)

\* The order of the numbers as a relation.
Less == {p \in Nat \X Nat : p[1] < p[2]}

\* Every non-empty set of numbers has a least element: the proofs by
\* induction below look at a least counterexample.
LEMMA LeastNat ==
  ASSUME NEW T, T \subseteq Nat, T # {}
  PROVE  \E x \in T : \A y \in T : ~(y < x)
<1>1. Less = OpToRel(<, Nat)
  BY Zenon DEF Less, OpToRel
<1>2. IsWellFoundedOn(Less, Nat)
  BY <1>1, NatLessThanWellFounded, Zenon
<1>3. \E x \in T : \A y \in T : ~(<<y, x>> \in Less)
  BY <1>2, WFMin, Zenon
<1>4. \A x, y \in T : y < x => <<y, x>> \in Less
  BY SMT DEF Less
<1> QED
  BY <1>3, <1>4, Zenon

\* f holds the concatenations of the first 1, 2, ..., n sequences of ss.
RunningConcat(ss, n, f) ==
  f = [i \in 1..n |-> IF i = 1 THEN ss[i] ELSE f[i - 1] \o ss[i]]

\* An element of it.
LEMMA RunningConcatAt ==
  ASSUME NEW ss, NEW n \in Nat, NEW f, RunningConcat(ss, n, f), NEW i \in 1..n
  PROVE  f[i] = IF i = 1 THEN ss[i] ELSE f[i - 1] \o ss[i]
  BY Zenon DEF RunningConcat

\* The recursive function FlattenSeq chooses exists ...
LEMMA RunningConcatExists ==
  ASSUME NEW ss, NEW m \in Nat
  PROVE  \E f : RunningConcat(ss, m, f)
<1> DEFINE T == {n \in Nat : ~ \E f : RunningConcat(ss, n, f)}
<1>1. SUFFICES ASSUME T # {} PROVE FALSE
  OBVIOUS
<1>2. PICK n \in T : \A y \in T : ~(y < n)
  <2>1. T \subseteq Nat
    OBVIOUS
  <2> QED
    BY LeastNat, <1>1, <2>1, Zenon
<1>3. n # 0
  <2>1. RunningConcat(ss, 0, [i \in 1..0 |-> <<>>])
    BY SMT DEF RunningConcat
  <2> QED
    BY <2>1
<1>4. n \in Nat /\ n - 1 \in Nat /\ n - 1 < n
  BY <1>2, <1>3
<1>5. PICK f : RunningConcat(ss, n - 1, f)
  <2>1. n - 1 \notin T
    BY <1>2, <1>4
  <2> QED
    BY <1>4, <2>1
<1> DEFINE g == [i \in 1..n |-> IF i < n THEN f[i]
                                ELSE IF n = 1 THEN ss[1] ELSE f[n - 1] \o ss[n]]
<1>6. ASSUME NEW i \in 1..n
      PROVE  g[i] = IF i = 1 THEN ss[i] ELSE g[i - 1] \o ss[i]
  <2>1. CASE i = n
    BY <2>1, <1>4
  <2>2. CASE i < n
    <3>1. i \in 1..(n - 1)
      BY <2>2, <1>4
    <3>2. f[i] = IF i = 1 THEN ss[i] ELSE f[i - 1] \o ss[i]
      BY <1>4, <1>5, <3>1, RunningConcatAt
    <3> QED
      BY <3>2, <2>2, <1>4
  <2> QED
    BY <2>1, <2>2, <1>4
<1>7. RunningConcat(ss, n, g)
  <2>1. g = [i \in 1..n |-> g[i]]
    OBVIOUS
  <2> HIDE DEF g
  <2>2. [i \in 1..n |-> g[i]]
          = [i \in 1..n |-> IF i = 1 THEN ss[i] ELSE g[i - 1] \o ss[i]]
    BY <1>6
  <2> QED
    BY <2>1, <2>2 DEF RunningConcat
<1> QED
  BY <1>7, <1>2

\* ... so FlattenSeq is the last of the running concatenations.
LEMMA FlattenIsRunningConcat ==
  ASSUME NEW S, NEW ss \in Seq(Seq(S)), ss # <<>>
  PROVE  \E f : RunningConcat(ss, Len(ss), f) /\ FlattenSeq(ss) = f[Len(ss)]
<1>1. Len(ss) \in Nat /\ Len(ss) # 0
  BY EmptySeq
<1>2. \E f : RunningConcat(ss, Len(ss), f)
  BY RunningConcatExists, <1>1
<1> DEFINE h == CHOOSE f : RunningConcat(ss, Len(ss), f)
<1>3. RunningConcat(ss, Len(ss), h)
  BY <1>2
<1>4. FlattenSeq(ss) = h[Len(ss)]
  BY <1>1, Zenon DEF FlattenSeq, RunningConcat
<1> QED
  BY <1>3, <1>4

\* Running concatenations agree as long as the sequences do.
LEMMA RunningConcatsAgree ==
  ASSUME NEW ss, NEW tt, NEW m \in Nat, NEW n \in Nat, NEW f, NEW g,
         RunningConcat(ss, m, f), RunningConcat(tt, n, g),
         NEW k \in 1..m, k <= n, \A i \in 1..k : ss[i] = tt[i]
  PROVE  f[k] = g[k]
<1> DEFINE T == {i \in 1..k : f[i] # g[i]}
<1>1. SUFFICES ASSUME T # {} PROVE FALSE
  OBVIOUS
<1>2. PICK i \in T : \A y \in T : ~(y < i)
  <2>1. T \subseteq Nat
    OBVIOUS
  <2> QED
    BY LeastNat, <1>1, <2>1, Zenon
<1>3. i \in 1..m /\ i \in 1..n /\ ss[i] = tt[i]
  OBVIOUS
<1>4. /\ f[i] = IF i = 1 THEN ss[i] ELSE f[i - 1] \o ss[i]
      /\ g[i] = IF i = 1 THEN tt[i] ELSE g[i - 1] \o tt[i]
  BY <1>3, RunningConcatAt
<1>5. CASE i = 1
  BY <1>3, <1>4, <1>5
<1>6. CASE i # 1
  <2>1. i - 1 \in 1..k /\ i - 1 < i
    BY <1>6
  <2>2. f[i - 1] = g[i - 1]
    BY <1>2, <2>1
  <2> QED
    BY <1>3, <1>4, <1>6, <2>2
<1> QED
  BY <1>5, <1>6

\* They are sequences over the same set.
LEMMA RunningConcatType ==
  ASSUME NEW S, NEW ss \in Seq(Seq(S)), NEW f, RunningConcat(ss, Len(ss), f),
         NEW k \in 1..Len(ss)
  PROVE  f[k] \in Seq(S)
<1> DEFINE T == {i \in 1..Len(ss) : f[i] \notin Seq(S)}
<1>1. SUFFICES ASSUME T # {} PROVE FALSE
  OBVIOUS
<1>2. PICK i \in T : \A y \in T : ~(y < i)
  <2>1. T \subseteq Nat
    OBVIOUS
  <2> QED
    BY LeastNat, <1>1, <2>1, Zenon
<1>3. ss[i] \in Seq(S) /\ Len(ss) \in Nat
  OBVIOUS
<1>4. f[i] = IF i = 1 THEN ss[i] ELSE f[i - 1] \o ss[i]
  BY <1>3, RunningConcatAt
<1>5. CASE i # 1
  <2>1. i - 1 \in 1..Len(ss) /\ i - 1 < i
    BY <1>5
  <2>2. f[i - 1] \in Seq(S)
    BY <1>2, <2>1
  <2> QED
    BY <1>3, <1>4, <1>5, <2>2, ConcatProperties
<1> QED
  BY <1>3, <1>4, <1>5

\* What FlattenSeq does with the empty sequence, its type, ...
LEMMA FlattenEmpty == FlattenSeq(<<>>) = <<>>
<1>1. Len(<<>>) = 0
  OBVIOUS
<1> QED
  BY <1>1, Zenon DEF FlattenSeq

\* (the type)
LEMMA FlattenType ==
  ASSUME NEW S, NEW ss \in Seq(Seq(S))
  PROVE  FlattenSeq(ss) \in Seq(S)
<1>1. CASE ss = <<>>
  <2>1. <<>> \in Seq(S)
    OBVIOUS
  <2> QED
    BY <1>1, <2>1, FlattenEmpty
<1>2. CASE ss # <<>>
  <2>1. Len(ss) \in 1..Len(ss)
    BY <1>2, EmptySeq
  <2> QED
    BY <1>2, <2>1, FlattenIsRunningConcat, RunningConcatType
<1> QED
  BY <1>1, <1>2

\* The last running concatenation, by the one before it.
LEMMA RunningConcatLast ==
  ASSUME NEW ss, NEW n \in Nat, NEW f, RunningConcat(ss, n, f), n # 0
  PROVE  f[n] = IF n = 1 THEN ss[n] ELSE f[n - 1] \o ss[n]
<1>1. n \in 1..n
  OBVIOUS
<1> QED
  BY <1>1, RunningConcatAt

\* ... with a sequence at the end, ...
LEMMA FlattenAppend ==
  ASSUME NEW S, NEW ss \in Seq(Seq(S)), NEW x \in Seq(S)
  PROVE  FlattenSeq(Append(ss, x)) = FlattenSeq(ss) \o x
<1>1. SUFFICES ASSUME NEW tt \in Seq(Seq(S)), tt = Append(ss, x),
                      NEW n \in Nat, n = Len(ss), NEW m \in Nat, m = n + 1
               PROVE  FlattenSeq(tt) = FlattenSeq(ss) \o x
  <2>1. Append(ss, x) \in Seq(Seq(S)) /\ Len(ss) \in Nat /\ Len(ss) + 1 \in Nat
    OBVIOUS
  <2> QED
    BY <2>1
<1>2. tt # <<>> /\ Len(tt) = m /\ tt[m] = x /\ \A i \in 1..n : ss[i] = tt[i]
  BY <1>1, AppendProperties
<1>3. PICK g : RunningConcat(tt, m, g) /\ FlattenSeq(tt) = g[m]
  BY <1>2, FlattenIsRunningConcat
<1>4. CASE ss = <<>>
  <2>1. m = 1
    BY <1>1, <1>4
  <2>2. g[m] = IF m = 1 THEN tt[m] ELSE g[m - 1] \o tt[m]
    BY <2>1, <1>3, RunningConcatAt
  <2>3. FlattenSeq(ss) \o x = x
    BY <1>4, FlattenEmpty, ConcatEmptySeq
  <2> QED
    BY <1>2, <1>3, <2>1, <2>2, <2>3
<1>5. CASE ss # <<>>
  <2>1. n # 0
    BY <1>1, <1>5, EmptySeq
  <2>2. PICK f : RunningConcat(ss, n, f) /\ FlattenSeq(ss) = f[n]
    BY <1>1, <1>5, FlattenIsRunningConcat
  <2>3. f[n] = g[n]
    <3>1. n \in 1..n /\ n <= m
      BY <1>1, <2>1
    <3>2. \A i \in 1..n : ss[i] = tt[i]
      BY <1>2
    <3> QED
      BY <3>1, <3>2, <1>3, <2>2, RunningConcatsAgree
  <2>4. g[m] = g[m - 1] \o tt[m]
    <3>1. m # 0 /\ m # 1
      BY <1>1, <2>1
    <3> QED
      BY <3>1, <1>3, RunningConcatLast
  <2>5. m - 1 = n
    BY <1>1
  <2> QED
    BY <1>2, <1>3, <2>2, <2>3, <2>4, <2>5
<1> QED
  BY <1>4, <1>5

\* The induction step of the next lemma.
LEMMA FlattenConcatAppend ==
  ASSUME NEW S, NEW a \in Seq(Seq(S)), NEW d \in Seq(Seq(S)), NEW x \in Seq(S),
         FlattenSeq(a \o d) = FlattenSeq(a) \o FlattenSeq(d)
  PROVE  FlattenSeq(a \o Append(d, x)) = FlattenSeq(a) \o FlattenSeq(Append(d, x))
<1>1. a \o Append(d, x) = Append(a \o d, x) /\ a \o d \in Seq(Seq(S))
  OBVIOUS
<1>2. FlattenSeq(Append(a \o d, x)) = FlattenSeq(a \o d) \o x
  BY <1>1, FlattenAppend
<1>3. FlattenSeq(Append(d, x)) = FlattenSeq(d) \o x
  BY FlattenAppend
<1>4. FlattenSeq(a) \in Seq(S) /\ FlattenSeq(d) \in Seq(S)
  BY FlattenType
<1>5. (FlattenSeq(a) \o FlattenSeq(d)) \o x = FlattenSeq(a) \o (FlattenSeq(d) \o x)
  BY <1>4
<1> QED
  BY <1>1, <1>2, <1>3, <1>5

\* ... with a concatenation, ...
LEMMA FlattenConcat ==
  ASSUME NEW S, NEW a \in Seq(Seq(S)), NEW b \in Seq(Seq(S))
  PROVE  FlattenSeq(a \o b) = FlattenSeq(a) \o FlattenSeq(b)
<1> DEFINE Bad(c) == FlattenSeq(a \o c) # FlattenSeq(a) \o FlattenSeq(c)
           T == {n \in Nat : \E c \in Seq(Seq(S)) : Len(c) = n /\ Bad(c)}
<1>1. SUFFICES ASSUME T # {} PROVE FALSE
  <2>1. Len(b) \in Nat
    OBVIOUS
  <2> QED
    BY <2>1
<1>2. PICK n \in T : \A y \in T : ~(y < n)
  <2>1. T \subseteq Nat
    OBVIOUS
  <2> HIDE DEF T
  <2> QED
    BY LeastNat, <1>1, <2>1, Zenon
<1>3. PICK c \in Seq(Seq(S)) : Len(c) = n /\ Bad(c)
  OBVIOUS
<1>4. FlattenSeq(a) \in Seq(S)
  BY FlattenType
<1>5. CASE c = <<>>
  <2>1. a \o c = a /\ FlattenSeq(c) = <<>>
    BY <1>5, FlattenEmpty, ConcatEmptySeq
  <2>2. FlattenSeq(a) \o <<>> = FlattenSeq(a)
    BY <1>4, ConcatEmptySeq
  <2> QED
    BY <1>3, <2>1, <2>2
<1>6. CASE c # <<>>
  <2>1. PICK d \in Seq(Seq(S)), x \in Seq(S) : c = Append(d, x)
    BY <1>6, SequenceEmptyOrAppend
  <2>2. Len(d) \in Nat /\ Len(d) < n
    BY <1>3, <2>1
  <2>3. ~Bad(d)
    BY <1>2, <2>2
  <2> QED
    BY <1>3, <2>1, <2>3, FlattenConcatAppend
<1> QED
  BY <1>5, <1>6

\* ... with one sequence, ...
LEMMA FlattenSingle ==
  ASSUME NEW S, NEW x \in Seq(S)
  PROVE  FlattenSeq(<<x>>) = x
<1>1. <<x>> = Append(<<>>, x) /\ <<>> \in Seq(Seq(S))
  OBVIOUS
<1>2. FlattenSeq(<<x>>) = FlattenSeq(<<>>) \o x
  BY <1>1, FlattenAppend
<1> QED
  BY <1>2, FlattenEmpty, ConcatEmptySeq

\* ... and with the first one taken off.
LEMMA FlattenHead ==
  ASSUME NEW S, NEW ss \in Seq(Seq(S)), ss # <<>>
  PROVE  FlattenSeq(ss) = Head(ss) \o FlattenSeq(Tail(ss))
<1>1. /\ ss = <<Head(ss)>> \o Tail(ss)
      /\ Head(ss) \in Seq(S) /\ Tail(ss) \in Seq(Seq(S))
      /\ <<Head(ss)>> \in Seq(Seq(S))
  BY HeadTailProperties
<1>2. FlattenSeq(<<Head(ss)>> \o Tail(ss)) = FlattenSeq(<<Head(ss)>>) \o FlattenSeq(Tail(ss))
  BY <1>1, FlattenConcat, Zenon
<1>3. FlattenSeq(<<Head(ss)>>) = Head(ss)
  BY <1>1, FlattenSingle, Zenon
<1> QED
  BY <1>1, <1>2, <1>3, Zenon

-----------------------------------------------------------------------------
(* The event bus: records move from queue to queue without changing their  *)
(* order, so the log is the run's.                                          *)

\* The parameters of the bus are numbers.
LEMMA BusNumbers ==
  /\ N \in Nat /\ N > 0 /\ Threshold \in Nat /\ Threshold > 0
  /\ FlushInterval \in Nat /\ FlushInterval > 0 /\ Ended \in 1..N /\ Ended \in Nat
  BY BusAssumption

\* A frame carries at least one record.
Frame == Seq(1..N) \ {<<>>}

\* The types of the bus, with the bound batching puts on the buffer.
BusTypes ==
    /\ published \in 0..N /\ buffer \in Seq(1..N)
    /\ pending \in Seq(Frame) /\ frames \in Seq(Frame) /\ tasks \in Seq(Frame)
    /\ seen \in Seq(1..N) /\ file \in Seq(1..N) /\ disk \in 0..Len(file)
    /\ closed \in BOOLEAN /\ shutdown \in BOOLEAN /\ open \in BOOLEAN
    /\ stopReq \in BOOLEAN /\ exited \in BOOLEAN /\ failed \in BOOLEAN
    /\ SendErrors \/ Len(buffer) < Threshold

\* Conservation: what was processed, followed by what is on the way, is every
\* record published so far, in order.
Conserved == seen \o InTransit = [i \in 1..published |-> i]

\* A queue of frames is also a queue of sequences, to which the lemmas about
\* FlattenSeq apply.
LEMMA FramesFlatten ==
  ASSUME NEW q \in Seq(Frame)
  PROVE  q \in Seq(Seq(1..N)) /\ FlattenSeq(q) \in Seq(1..N)
<1>1. q \in Seq(Seq(1..N))
  BY DEF Frame
<1> QED
  BY <1>1, FlattenType

\* The four queues a record goes through, as sequences of records.
LEMMA QueueTypes ==
  ASSUME BusTypes
  PROVE  /\ FlattenSeq(tasks) \in Seq(1..N) /\ FlattenSeq(frames) \in Seq(1..N)
         /\ FlattenSeq(pending) \in Seq(1..N) /\ buffer \in Seq(1..N)
         /\ InTransit \in Seq(1..N)
<1>1. /\ FlattenSeq(tasks) \in Seq(1..N) /\ FlattenSeq(frames) \in Seq(1..N)
      /\ FlattenSeq(pending) \in Seq(1..N) /\ buffer \in Seq(1..N)
  BY FramesFlatten DEF BusTypes
<1> QED
  BY <1>1 DEF InTransit

\* publish() puts the record at the end of what is on the way.
LEMMA PublishMoves ==
  ASSUME BusTypes, NEW flush \in BOOLEAN, Publish(flush)
  PROVE  /\ BusTypes'
         /\ InTransit' = Append(InTransit, published')
         /\ seen' = seen /\ published' = published + 1 /\ published' \in 1..N
<1> DEFINE buf == Append(buffer, published')
<1>1. /\ published' = published + 1 /\ published' \in 1..N
      /\ UNCHANGED <<closed, tasks, seen, logVars, exited>>
  BY BusAssumption DEF Publish, BusTypes
<1>2. buf \in Seq(1..N) /\ buf \in Frame /\ Len(buf) = Len(buffer) + 1
  <2>1. buffer \in Seq(1..N)
    BY DEF BusTypes
  <2>2. buf \in Seq(1..N) /\ buf # <<>> /\ Len(buf) = Len(buffer) + 1
    BY <1>1, <2>1, AppendProperties
  <2> QED
    BY <2>2 DEF Frame
<1>3. /\ FlattenSeq(tasks) \in Seq(1..N) /\ FlattenSeq(frames) \in Seq(1..N)
      /\ FlattenSeq(pending) \in Seq(1..N) /\ buffer \in Seq(1..N)
  BY QueueTypes
<1>4. /\ buf \in Seq(1..N) /\ pending \in Seq(Seq(1..N)) /\ frames \in Seq(Seq(1..N))
  BY <1>2, FramesFlatten DEF BusTypes
<1>5. CASE buffer' = buf /\ UNCHANGED <<pending, frames>> /\ (SendErrors \/ Len(buf) < Threshold)
  <2>1. InTransit' = FlattenSeq(tasks) \o FlattenSeq(frames) \o FlattenSeq(pending) \o buf
    BY <1>1, <1>5 DEF InTransit
  <2>2. InTransit' = Append(InTransit, published')
    <3> DEFINE T == FlattenSeq(tasks)
               F == FlattenSeq(frames)
               P == FlattenSeq(pending)
               m == published'
    <3>1. /\ T \in Seq(1..N) /\ F \in Seq(1..N) /\ P \in Seq(1..N)
          /\ buffer \in Seq(1..N) /\ m \in 1..N
      BY <1>1, <1>3
    <3>2. InTransit' = T \o F \o P \o Append(buffer, m)
      BY <2>1 DEF InTransit
    <3>3. InTransit = T \o F \o P \o buffer
      BY <2>1 DEF InTransit
    <3> HIDE DEF T, F, P, m
    <3>4. T \o F \o P \o Append(buffer, m) = Append(T \o F \o P \o buffer, m)
      BY <3>1
    <3>5. InTransit' = Append(InTransit, m)
      BY <3>2, <3>3, <3>4, Zenon
    <3> QED
      BY <3>5 DEF m
  <2>3. BusTypes'
    BY <1>1, <1>2, <1>5 DEF BusTypes, logVars
  <2> QED
    BY <1>1, <2>2, <2>3
<1>6. CASE buffer' = <<>> /\ pending = <<>> /\ frames' = Append(frames, buf) /\ UNCHANGED pending
  <2>1. FlattenSeq(Append(frames, buf)) = FlattenSeq(frames) \o buf
    BY <1>4, FlattenAppend
  <2>2. InTransit' = FlattenSeq(tasks) \o (FlattenSeq(frames) \o buf) \o <<>> \o <<>>
    BY <1>1, <1>6, <2>1, FlattenEmpty DEF InTransit
  <2>3. InTransit = FlattenSeq(tasks) \o FlattenSeq(frames) \o <<>> \o buffer
    BY <1>6, FlattenEmpty DEF InTransit
  <2>4. InTransit' = Append(InTransit, published')
    <3> DEFINE T == FlattenSeq(tasks)
               F == FlattenSeq(frames)
               P == FlattenSeq(pending)
               m == published'
    <3>1. /\ T \in Seq(1..N) /\ F \in Seq(1..N) /\ P \in Seq(1..N)
          /\ buffer \in Seq(1..N) /\ m \in 1..N
      BY <1>1, <1>3
    <3>2. InTransit' = T \o (F \o Append(buffer, m)) \o <<>> \o <<>>
      BY <2>2, <2>3
    <3>3. InTransit = T \o F \o <<>> \o buffer
      BY <2>2, <2>3
    <3> HIDE DEF T, F, P, m
    <3>4. /\ T \o (F \o Append(buffer, m)) \o <<>> \o <<>> = T \o (F \o Append(buffer, m))
          /\ T \o F \o <<>> \o buffer = T \o F \o buffer
      BY <3>1
    <3>5. T \o (F \o Append(buffer, m)) = Append(T \o F \o buffer, m)
      <4>1. F \o Append(buffer, m) = Append(F \o buffer, m) /\ F \o buffer \in Seq(1..N)
        BY <3>1
      <4>2. ASSUME NEW u \in Seq(1..N) PROVE T \o Append(u, m) = Append(T \o u, m)
        BY <3>1
      <4>3. T \o (F \o buffer) = T \o F \o buffer
        BY <3>1
      <4> QED
        BY <4>1, <4>2, <4>3
    <3>6. InTransit' = Append(InTransit, m)
      BY <3>2, <3>3, <3>4, <3>5, Zenon
    <3> QED
      BY <3>6 DEF m
  <2>5. frames' \in Seq(Frame) /\ <<>> \in Seq(1..N) /\ Len(<<>>) < Threshold
    BY <1>2, <1>6, BusAssumption, AppendProperties DEF BusTypes
  <2>6. BusTypes'
    BY <1>1, <1>6, <2>5 DEF BusTypes, logVars
  <2> QED
    BY <1>1, <2>4, <2>6
<1>7. CASE buffer' = <<>> /\ pending' = Append(pending, buf) /\ UNCHANGED frames
  <2>1. FlattenSeq(Append(pending, buf)) = FlattenSeq(pending) \o buf
    BY <1>4, FlattenAppend
  <2>2. InTransit' = FlattenSeq(tasks) \o FlattenSeq(frames) \o (FlattenSeq(pending) \o buf) \o <<>>
    BY <1>1, <1>7, <2>1 DEF InTransit
  <2>3. InTransit' = Append(InTransit, published')
    <3> DEFINE T == FlattenSeq(tasks)
               F == FlattenSeq(frames)
               P == FlattenSeq(pending)
               m == published'
    <3>1. /\ T \in Seq(1..N) /\ F \in Seq(1..N) /\ P \in Seq(1..N)
          /\ buffer \in Seq(1..N) /\ m \in 1..N
      BY <1>1, <1>3
    <3>2. InTransit' = T \o F \o (P \o Append(buffer, m)) \o <<>>
      BY <2>2 DEF InTransit
    <3>3. InTransit = T \o F \o P \o buffer
      BY <2>2 DEF InTransit
    <3> HIDE DEF T, F, P, m
    <3>4. /\ T \o F \o (P \o Append(buffer, m)) \o <<>> = T \o F \o (P \o Append(buffer, m))
      BY <3>1
    <3>5. T \o F \o (P \o Append(buffer, m)) = Append(T \o F \o P \o buffer, m)
      <4>1. P \o Append(buffer, m) = Append(P \o buffer, m) /\ P \o buffer \in Seq(1..N)
        BY <3>1
      <4>2. ASSUME NEW u \in Seq(1..N), NEW w \in Seq(1..N)
            PROVE  u \o Append(w, m) = Append(u \o w, m)
        BY <3>1
      <4>3. ASSUME NEW u \in Seq(1..N) PROVE u \o (P \o buffer) = u \o P \o buffer
        BY <3>1
      <4>4. T \o F \in Seq(1..N)
        BY <3>1
      <4> QED
        BY <4>1, <4>2, <4>3, <4>4
    <3>6. InTransit' = Append(InTransit, m)
      BY <3>2, <3>3, <3>4, <3>5, Zenon
    <3> QED
      BY <3>6 DEF m
  <2>4. pending' \in Seq(Frame) /\ <<>> \in Seq(1..N) /\ Len(<<>>) < Threshold
    BY <1>2, <1>7, BusAssumption, AppendProperties DEF BusTypes
  <2>5. BusTypes'
    BY <1>1, <1>7, <2>4 DEF BusTypes, logVars
  <2> QED
    BY <1>1, <2>3, <2>5
<1>8. \/ buffer' = buf /\ UNCHANGED <<pending, frames>> /\ (SendErrors \/ Len(buf) < Threshold)
      \/ buffer' = <<>> /\ pending = <<>> /\ frames' = Append(frames, buf) /\ UNCHANGED pending
      \/ buffer' = <<>> /\ pending' = Append(pending, buf) /\ UNCHANGED frames
  <2> HIDE DEF buf
  <2>1. \/ flush \/ Len(buf) >= Threshold
        \/ buffer' = buf /\ UNCHANGED <<pending, frames>> /\ ~(Len(buf) >= Threshold)
    BY DEF Publish, buf
  <2>2. ~(Len(buf) >= Threshold) => Len(buf) < Threshold
    BY <1>2, BusAssumption
  <2>3. CASE flush \/ Len(buf) >= Threshold
    <3>1. FlushBatch(buf)
      BY <2>3 DEF Publish, buf
    <3> QED
      BY <3>1 DEF FlushBatch, SendFrame
  <2> QED
    BY <2>1, <2>2, <2>3
<1> QED
  BY <1>5, <1>6, <1>7, <1>8

\* _on_writable, close() and _on_readable leave the order on the way as it is.
LEMMA QueuesKeep ==
  ASSUME BusTypes, PublisherWritable \/ ClosePublisher \/ OnReadable
  PROVE  /\ BusTypes' /\ InTransit' = InTransit
         /\ UNCHANGED <<seen, published, logVars, exited>>
<1>1. /\ FlattenSeq(tasks) \in Seq(1..N) /\ FlattenSeq(frames) \in Seq(1..N)
      /\ FlattenSeq(pending) \in Seq(1..N) /\ buffer \in Seq(1..N)
      /\ <<>> \in Seq(1..N) /\ <<>> \in Seq(Frame) /\ Len(<<>>) < Threshold
  BY BusAssumption, QueueTypes
<1>2. /\ tasks \in Seq(Seq(1..N)) /\ frames \in Seq(Seq(1..N)) /\ pending \in Seq(Seq(1..N))
  BY FramesFlatten DEF BusTypes
<1>3. CASE PublisherWritable
  <2>1. PICK k \in 1..Len(pending) :
          /\ frames' = frames \o SubSeq(pending, 1, k)
          /\ pending' = SubSeq(pending, k + 1, Len(pending))
    BY <1>3 DEF PublisherWritable
  <2> DEFINE a == SubSeq(pending, 1, k)
             b == SubSeq(pending, k + 1, Len(pending))
  <2>2. a \in Seq(Frame) /\ b \in Seq(Frame)
    <3>1. pending \in Seq(Frame) /\ Len(pending) \in Nat
      BY DEF BusTypes
    <3>2. \A i \in 1..k : pending[i] \in Frame
      BY <3>1
    <3>3. \A i \in (k + 1)..Len(pending) : pending[i] \in Frame
      BY <3>1
    <3> QED
      BY <3>1, <3>2, <3>3, SubSeqProperties
  <2>3. pending = a \o b
    <3>1. pending \in Seq(Frame) /\ Len(pending) \in Nat
      BY DEF BusTypes
    <3>2. a \o b = SubSeq(pending, 1, Len(pending))
      BY <3>1, ConcatAdjacentSubSeq
    <3>3. SubSeq(pending, 1, Len(pending)) = pending
      BY <3>1
    <3> QED
      BY <3>2, <3>3
  <2> HIDE DEF a, b
  <2>4. /\ a \in Seq(Seq(1..N)) /\ b \in Seq(Seq(1..N))
        /\ FlattenSeq(a) \in Seq(1..N) /\ FlattenSeq(b) \in Seq(1..N)
    BY <2>2, FramesFlatten
  <2>5. FlattenSeq(frames \o a) = FlattenSeq(frames) \o FlattenSeq(a)
    BY <1>2, <2>4, FlattenConcat
  <2>6. FlattenSeq(a \o b) = FlattenSeq(a) \o FlattenSeq(b)
    BY <2>4, FlattenConcat
  <2>7. frames' = frames \o a /\ pending' = b
    BY <2>1 DEF a, b
  <2>8. UNCHANGED <<published, buffer, closed, tasks, seen, logVars, exited>>
    BY <1>3 DEF PublisherWritable
  <2>9. InTransit' = FlattenSeq(tasks) \o (FlattenSeq(frames) \o FlattenSeq(a)) \o FlattenSeq(b) \o buffer
    BY <2>5, <2>7, <2>8 DEF InTransit
  <2>10. InTransit = FlattenSeq(tasks) \o FlattenSeq(frames) \o (FlattenSeq(a) \o FlattenSeq(b)) \o buffer
    BY <2>3, <2>6 DEF InTransit
  <2>11. InTransit' = InTransit
    <3> DEFINE T == FlattenSeq(tasks)
               F == FlattenSeq(frames)
               A == FlattenSeq(a)
               B == FlattenSeq(b)
    <3>1. /\ T \in Seq(1..N) /\ F \in Seq(1..N) /\ A \in Seq(1..N) /\ B \in Seq(1..N)
          /\ buffer \in Seq(1..N)
      BY <1>1, <2>4
    <3>2. InTransit' = T \o (F \o A) \o B \o buffer
      BY <2>9
    <3>3. InTransit = T \o F \o (A \o B) \o buffer
      BY <2>10
    <3> HIDE DEF T, F, A, B
    <3>4. T \o (F \o A) \o B = T \o F \o (A \o B)
      <4>1. T \o (F \o A) = T \o F \o A /\ T \o F \in Seq(1..N)
        BY <3>1
      <4>2. ASSUME NEW u \in Seq(1..N) PROVE u \o A \o B = u \o (A \o B)
        BY <3>1
      <4> QED
        BY <4>1, <4>2
    <3> QED
      BY <3>2, <3>3, <3>4, Zenon
  <2>12. frames' \in Seq(Frame)
    BY <2>2, <2>7, ConcatProperties DEF BusTypes
  <2>13. BusTypes'
    BY <2>2, <2>7, <2>8, <2>12 DEF BusTypes, logVars
  <2> QED
    BY <2>8, <2>11, <2>13
<1>4. CASE ClosePublisher
  <2>1. /\ buffer' = <<>> /\ pending' = <<>> /\ closed' = TRUE
        /\ UNCHANGED <<published, tasks, seen, logVars, exited>>
    BY <1>4 DEF ClosePublisher
  <2> DEFINE rest == IF buffer = <<>> THEN <<>> ELSE <<buffer>>
  <2>2. frames' = frames \o pending \o rest
    BY <1>4 DEF ClosePublisher
  <2>3. rest \in Seq(Frame)
    <3>1. CASE buffer = <<>>
      BY <3>1, <1>1
    <3>2. CASE buffer # <<>>
      <4>1. buffer \in Frame
        BY <1>1, <3>2 DEF Frame
      <4> QED
        BY <3>2, <4>1
    <3> QED
      BY <3>1, <3>2
  <2>4. FlattenSeq(rest) = buffer
    <3>1. CASE buffer = <<>>
      BY <3>1, FlattenEmpty
    <3>2. CASE buffer # <<>>
      BY <3>2, <1>1, FlattenSingle
    <3> QED
      BY <3>1, <3>2
  <2> HIDE DEF rest
  <2>5. rest \in Seq(Seq(1..N)) /\ frames \o pending \in Seq(Seq(1..N))
    BY <1>2, <2>3, FramesFlatten, ConcatProperties
  <2>6. FlattenSeq(frames') = FlattenSeq(frames) \o FlattenSeq(pending) \o buffer
    <3>1. FlattenSeq(frames \o pending \o rest) = FlattenSeq(frames \o pending) \o FlattenSeq(rest)
      BY <2>5, FlattenConcat
    <3>2. FlattenSeq(frames \o pending) = FlattenSeq(frames) \o FlattenSeq(pending)
      BY <1>2, FlattenConcat
    <3> QED
      BY <2>2, <2>4, <3>1, <3>2
  <2>7. InTransit' = FlattenSeq(tasks) \o (FlattenSeq(frames) \o FlattenSeq(pending) \o buffer) \o <<>> \o <<>>
    BY <2>1, <2>6, FlattenEmpty DEF InTransit
  <2>8. InTransit' = InTransit
    <3> DEFINE T == FlattenSeq(tasks)
               F == FlattenSeq(frames)
               P == FlattenSeq(pending)
    <3>1. T \in Seq(1..N) /\ F \in Seq(1..N) /\ P \in Seq(1..N) /\ buffer \in Seq(1..N)
      BY <1>1
    <3>2. InTransit' = T \o (F \o P \o buffer) \o <<>> \o <<>>
      BY <2>7
    <3>3. InTransit = T \o F \o P \o buffer
      BY DEF InTransit
    <3> HIDE DEF T, F, P
    <3>4. T \o (F \o P \o buffer) = T \o F \o P \o buffer
      BY <3>1
    <3>5. T \o (F \o P \o buffer) \o <<>> \o <<>> = T \o (F \o P \o buffer)
      BY <3>1
    <3> QED
      BY <3>2, <3>3, <3>4, <3>5, Zenon
  <2>9. frames' \in Seq(Frame)
    <3>1. frames \o pending \in Seq(Frame)
      BY ConcatProperties DEF BusTypes
    <3> QED
      BY <2>2, <2>3, <3>1, ConcatProperties
  <2>10. BusTypes'
    BY <1>1, <2>1, <2>9 DEF BusTypes, logVars
  <2> QED
    BY <2>1, <2>8, <2>10
<1>5. CASE OnReadable
  <2> DEFINE batch == FlattenSeq(frames)
  <2>1. /\ tasks' = Append(tasks, batch) /\ frames' = <<>> /\ frames # <<>>
        /\ UNCHANGED <<pubVars, seen, logVars, exited>>
    BY <1>5 DEF OnReadable
  <2>2. batch \in Frame
    <3>1. FlattenSeq(frames) = Head(frames) \o FlattenSeq(Tail(frames))
      BY <1>2, <2>1, FlattenHead
    <3>2. Head(frames) \in Frame /\ Tail(frames) \in Seq(Frame)
      BY <2>1, HeadTailProperties DEF BusTypes
    <3>3. FlattenSeq(Tail(frames)) \in Seq(1..N)
      BY <3>2, FramesFlatten
    <3> HIDE DEF batch
    <3>4. Head(frames) \o FlattenSeq(Tail(frames)) # <<>>
      BY <3>2, <3>3, ConcatProperties, EmptySeq DEF Frame
    <3> QED
      BY <1>1, <3>1, <3>4 DEF batch, Frame
  <2>3. FlattenSeq(Append(tasks, batch)) = FlattenSeq(tasks) \o batch
    BY <1>1, <1>2, FlattenAppend
  <2>4. InTransit' = FlattenSeq(tasks) \o batch \o <<>> \o FlattenSeq(pending) \o buffer
    BY <2>1, <2>3, FlattenEmpty DEF InTransit, pubVars
  <2>5. InTransit' = InTransit
    BY <1>1, <2>4 DEF InTransit
  <2>6. tasks' \in Seq(Frame)
    BY <2>1, <2>2, AppendProperties DEF BusTypes
  <2>7. BusTypes'
    BY <1>1, <2>1, <2>6 DEF BusTypes, logVars, pubVars
  <2> QED
    BY <2>1, <2>5, <2>7 DEF pubVars
<1> QED
  BY <1>3, <1>4, <1>5

\* A process() task takes the next records: those behind the ones processed.
LEMMA RunTakesNext ==
  ASSUME BusTypes, Conserved, RunTask
  PROVE  /\ Head(tasks) \in Frame /\ Head(tasks) \in Seq(1..N)
         /\ Len(seen) \in Nat /\ Len(Head(tasks)) \in Nat
         /\ \A i \in 1..Len(Head(tasks)) : Head(tasks)[i] = Len(seen) + i
         /\ \A i \in 1..Len(seen) : seen[i] = i
         /\ seen' = seen \o Head(tasks) /\ seen' \in Seq(1..N)
         /\ tasks' \in Seq(Frame)
         /\ InTransit = Head(tasks) \o InTransit' /\ InTransit' \in Seq(1..N)
         /\ Conserved'
         /\ UNCHANGED <<pubVars, frames, exited>>
<1> DEFINE h == Head(tasks)
<1>1. /\ tasks # <<>> /\ ~exited /\ tasks' = Tail(tasks) /\ seen' = seen \o h
      /\ UNCHANGED <<pubVars, frames, exited>>
  BY DEF RunTask
<1>2. h \in Frame /\ Tail(tasks) \in Seq(Frame)
  BY <1>1, HeadTailProperties DEF BusTypes
<1>3. /\ FlattenSeq(Tail(tasks)) \in Seq(1..N) /\ FlattenSeq(frames) \in Seq(1..N)
      /\ FlattenSeq(pending) \in Seq(1..N) /\ buffer \in Seq(1..N) /\ h \in Seq(1..N)
  BY <1>2, FramesFlatten, QueueTypes DEF Frame
<1>4. FlattenSeq(tasks) = h \o FlattenSeq(Tail(tasks))
  BY <1>1, FramesFlatten, FlattenHead DEF BusTypes
<1>5. InTransit = h \o InTransit' /\ InTransit' \in Seq(1..N)
  <2> DEFINE T == FlattenSeq(Tail(tasks))
             F == FlattenSeq(frames)
             P == FlattenSeq(pending)
             rest == T \o F \o P \o buffer
  <2>1. /\ T \in Seq(1..N) /\ F \in Seq(1..N) /\ P \in Seq(1..N)
        /\ buffer \in Seq(1..N) /\ h \in Seq(1..N)
    BY <1>3
  <2>2. InTransit = h \o T \o F \o P \o buffer
    BY <1>4 DEF InTransit
  <2>3. InTransit' = rest
    BY <1>1 DEF InTransit, pubVars
  <2> HIDE DEF T, F, P, h
  <2>4. h \o T \o F \o P \o buffer = h \o (T \o F \o P \o buffer)
    <3>1. h \o T \o F = h \o (T \o F) /\ T \o F \in Seq(1..N)
      BY <2>1
    <3>2. ASSUME NEW u \in Seq(1..N)
          PROVE  h \o u \o P = h \o (u \o P) /\ u \o P \in Seq(1..N)
      BY <2>1
    <3>3. ASSUME NEW u \in Seq(1..N) PROVE h \o u \o buffer = h \o (u \o buffer)
      BY <2>1
    <3> QED
      BY SMTT(60), <3>1, <3>2, <3>3
  <2>5. rest \in Seq(1..N)
    BY <2>1
  <2> QED
    BY <2>2, <2>3, <2>4, <2>5
<1>6. seen \in Seq(1..N) /\ published \in 0..N
  BY DEF BusTypes
<1> DEFINE r == InTransit'
<1>7. seen \o (h \o r) = [i \in 1..published |-> i]
  BY <1>5 DEF Conserved
<1>8. r \in Seq(1..N) /\ InTransit = h \o r
  BY <1>5
<1> HIDE DEF r, h
<1>9. seen \o (h \o r) = (seen \o h) \o r /\ seen \o h \in Seq(1..N)
  <2>1. seen \in Seq(1..N) /\ h \in Seq(1..N) /\ r \in Seq(1..N)
    BY <1>3, <1>6, <1>8
  <2> QED
    BY <2>1
<1>10. /\ Len(seen) \in Nat /\ Len(h) \in Nat /\ Len(r) \in Nat
       /\ Len(seen \o h) = Len(seen) + Len(h)
       /\ \A i \in 1..Len(seen) : (seen \o h)[i] = seen[i]
       /\ \A i \in 1..Len(h) : (seen \o h)[Len(seen) + i] = h[i]
  BY <1>3, <1>6, <1>8
<1>11. \A i \in 1..(Len(seen) + Len(h)) : (seen \o h)[i] = i
  <2>1. ASSUME NEW a \in Seq(1..N), a \o r = [i \in 1..published |-> i]
        PROVE  \A i \in 1..Len(a) : a[i] = i
    <3>1. Len(a \o r) = Len(a) + Len(r) /\ \A i \in 1..Len(a) : (a \o r)[i] = a[i]
      BY <1>8, ConcatProperties
    <3>2. Len([i \in 1..published |-> i]) = published
      BY <1>6
    <3>3. Len(a \o r) = published
      BY <2>1, <3>2, Zenon
    <3>4. Len(a) \in Nat /\ Len(a) <= published
      BY <1>10, <3>1, <3>3
    <3>5. \A i \in 1..published : (a \o r)[i] = i
      BY <2>1, Zenon
    <3> QED
      BY <1>6, <3>1, <3>4, <3>5
  <2> QED
    BY <1>7, <1>9, <1>10, <2>1
<1>12. /\ \A i \in 1..Len(h) : h[i] = Len(seen) + i
       /\ \A i \in 1..Len(seen) : seen[i] = i
  BY <1>10, <1>11
<1>13. Conserved'
  <2>1. published' = published
    BY <1>1 DEF pubVars
  <2>2. seen' \o r = [i \in 1..published |-> i]
    BY <1>1, <1>7, <1>9 DEF h
  <2> QED
    BY <2>1, <2>2 DEF Conserved, r
<1> QED
  BY <1>1, <1>2, <1>3, <1>8, <1>9, <1>10, <1>12, <1>13 DEF h, r

\* Of consecutive records, those up to ENDED are a prefix.
LEMMA UptoIsPrefix ==
  ASSUME NEW items \in Seq(1..N), NEW k \in Nat,
         \A i \in 1..Len(items) : items[i] = k + i
  PROVE  /\ Ended \in Range(items) <=> Ended \in (k + 1)..(k + Len(items))
         /\ Upto(items) = SubSeq(items, 1, IF Ended \in (k + 1)..(k + Len(items))
                                           THEN Ended - k ELSE Len(items))
<1>1. DOMAIN items = 1..Len(items) /\ Len(items) \in Nat /\ Ended \in Nat
  BY BusAssumption
<1>2. Ended \in Range(items) <=> Ended \in (k + 1)..(k + Len(items))
  <2>1. ASSUME NEW i \in 1..Len(items), items[i] = Ended
        PROVE  Ended \in (k + 1)..(k + Len(items))
    BY <1>1, <2>1
  <2>2. ASSUME Ended \in (k + 1)..(k + Len(items))
        PROVE  Ended - k \in 1..Len(items) /\ items[Ended - k] = Ended
    BY <1>1, <2>2
  <2> QED
    BY <1>1, <2>1, <2>2 DEF Range
<1>3. CASE Ended \in (k + 1)..(k + Len(items))
  <2> DEFINE First(i) == items[i] = Ended /\ \A j \in 1..(i - 1) : items[j] # Ended
  <2>1. Ended - k \in DOMAIN items /\ First(Ended - k)
    BY <1>1, <1>3
  <2>2. \A i \in DOMAIN items : First(i) => i = Ended - k
    BY <1>1, <1>3
  <2> HIDE DEF First
  <2>3. (CHOOSE i \in DOMAIN items : First(i)) = Ended - k
    BY <2>1, <2>2, Zenon
  <2>4. Upto(items) = SubSeq(items, 1, CHOOSE i \in DOMAIN items : First(i))
    BY <1>2, <1>3, Zenon DEF Upto, First
  <2> QED
    BY <1>2, <1>3, <2>3, <2>4
<1>4. CASE Ended \notin (k + 1)..(k + Len(items))
  <2>1. Upto(items) = items
    BY <1>2, <1>4, Zenon DEF Upto
  <2>2. SubSeq(items, 1, Len(items)) = items
    BY <1>1
  <2> QED
    BY <1>2, <1>4, <2>1, <2>2
<1> QED
  BY <1>3, <1>4

\* RecordWriter.write() leaves fewer than flush_interval records unflushed.
LEMMA FlushedBound ==
  ASSUME NEW n \in Nat, disk \in 0..n
  PROVE  /\ Flushed(n) \in 0..n /\ n - Flushed(n) < FlushInterval
         /\ n = disk => Flushed(n) = disk
<1> DEFINE d == n - disk
           q == d \div FlushInterval
<1>1. FlushInterval \in Nat /\ FlushInterval > 0 /\ d \in Nat
  BY BusAssumption
<1>2. q \in Nat /\ d = FlushInterval * q + (d % FlushInterval)
      /\ d % FlushInterval \in 0..(FlushInterval - 1)
  BY <1>1
<1>3. FlushInterval * q = q * FlushInterval /\ q * FlushInterval \in Int
  BY <1>1, <1>2
<1>4. d = 0 => q * FlushInterval = 0
  <2> HIDE DEF d
  <2>1. ASSUME d = 0 PROVE q = 0
    BY <1>1, <2>1
  <2> QED
    BY <1>1, <2>1
<1>5. Flushed(n) = disk + q * FlushInterval
  BY DEF Flushed
<1>6. q * FlushInterval >= 0
  BY <1>1, <1>2
<1> DEFINE p == q * FlushInterval
<1>7. p \in Int /\ p >= 0 /\ d - p \in 0..(FlushInterval - 1) /\ (d = 0 => p = 0)
  <2>1. d = p + (d % FlushInterval)
    BY <1>2, <1>3
  <2> HIDE DEF p, q
  <2> QED
    BY <1>1, <1>2, <1>3, <1>4, <1>6, <2>1 DEF p
<1> HIDE DEF p, q
<1> QED
  BY <1>1, <1>5, <1>7 DEF p

\* What is known of the log while it is written: as long as no writer has
\* raised, it is what was processed and, from ENDED on, exactly the records
\* up to ENDED, all of them on disk.
LogHolds ==
    /\ ~shutdown /\ ~exited => open
    /\ Len(file) - disk < FlushInterval
    /\ \A i \in DOMAIN file : file[i] <= Len(seen) /\ \A j \in 1..(i - 1) : file[j] < file[i]
    /\ ~failed /\ ~shutdown => file = seen /\ Len(seen) < Ended
    /\ ~failed /\ shutdown =>
         Len(file) = Ended /\ disk = Ended /\ \A i \in DOMAIN file : file[i] = i

\* The inductive invariant of the bus.
BusInv == BusTypes /\ Conserved /\ LogHolds

\* The bus starts with empty queues and an empty log.
LEMMA BusInvInit ==
  ASSUME BusInit
  PROVE  BusInv /\ InTransit = <<>>
<1>1. /\ <<>> \in Seq(1..N) /\ <<>> \in Seq(Frame) /\ Len(<<>>) = 0
      /\ 0 \in 0..N /\ Threshold > 0 /\ FlushInterval > 0 /\ Ended > 0
  BY BusAssumption
<1>2. BusTypes
  <2>1. /\ 0 \in 0..Len(<<>>) /\ Len(<<>>) < Threshold
        /\ TRUE \in BOOLEAN /\ FALSE \in BOOLEAN
    BY <1>1
  <2> QED
    BY <1>1, <2>1, Zenon DEF BusInit, BusTypes
<1>3. InTransit = <<>> /\ seen = <<>>
  BY FlattenEmpty DEF BusInit, InTransit
<1>4. Conserved
  <2>1. [i \in 1..0 |-> i] = <<>>
    OBVIOUS
  <2> QED
    BY <1>3, <2>1 DEF BusInit, Conserved
<1>5. LogHolds
  BY <1>1 DEF BusInit, LogHolds
<1> QED
  BY <1>2, <1>3, <1>4, <1>5 DEF BusInv

\* items are the records that follow the first k.
Following(items, k) == \A i \in 1..Len(items) : items[i] = k + i

\* f is ascending and holds none but the first k.
AscendingTo(f, k) ==
    \A i \in DOMAIN f : f[i] <= k /\ \A j \in 1..(i - 1) : f[j] < f[i]

\* g is f with the u records behind the first k.
Grown(f, g, u, k) ==
    /\ g \in Seq(1..N) /\ Len(g) = Len(f) + u
    /\ \A i \in 1..Len(f) : g[i] = f[i]
    /\ \A i \in 1..u : g[Len(f) + i] = k + i

\* Writing a prefix of the next records keeps the log in order.
LEMMA FileGrows ==
  ASSUME NEW f \in Seq(1..N), NEW k \in Nat, AscendingTo(f, k),
         NEW items \in Seq(1..N), Following(items, k), NEW u \in 0..Len(items),
         NEW g, g = f \o SubSeq(items, 1, u)
  PROVE  Grown(f, g, u, k) /\ AscendingTo(g, k + Len(items))
<1> USE DEF Following, AscendingTo
<1>1. /\ SubSeq(items, 1, u) \in Seq(1..N) /\ Len(SubSeq(items, 1, u)) = u
      /\ \A i \in 1..u : SubSeq(items, 1, u)[i] = items[i]
  <2>1. u \in Int /\ 1 \in Int /\ Len(items) \in Nat
    OBVIOUS
  <2>2. ASSUME NEW i \in 1..u PROVE items[i] \in 1..N
    <3>1. i \in 1..Len(items)
      BY <2>1
    <3> QED
      BY <3>1, BusNumbers
  <2> QED
    BY <2>1, <2>2, SubSeqProperties
<1>2. /\ g \in Seq(1..N) /\ Len(g) = Len(f) + u /\ Len(f) \in Nat
      /\ \A i \in 1..Len(f) : g[i] = f[i]
      /\ \A i \in 1..u : g[Len(f) + i] = items[i]
  <2> DEFINE t == SubSeq(items, 1, u)
  <2>1. g = f \o t /\ t \in Seq(1..N) /\ Len(t) = u /\ \A i \in 1..u : t[i] = items[i]
    BY <1>1
  <2> HIDE DEF t
  <2>2. Len(f) \in Nat /\ u \in Nat
    OBVIOUS
  <2>3. /\ g \in Seq(1..N) /\ Len(g) = Len(f) + u
        /\ \A i \in 1..(Len(f) + u) : g[i] = IF i <= Len(f) THEN f[i] ELSE t[i - Len(f)]
    <3>1. /\ f \o t \in Seq(1..N) /\ Len(f \o t) = Len(f) + Len(t)
          /\ \A i \in 1..(Len(f) + Len(t)) :
               (f \o t)[i] = IF i <= Len(f) THEN f[i] ELSE t[i - Len(f)]
      BY <2>1, ConcatProperties
    <3> QED
      BY <2>1, <3>1, Zenon
  <2>4. ASSUME NEW i \in 1..u PROVE g[Len(f) + i] = items[i]
    <3>1. Len(f) + i \in 1..(Len(f) + u) /\ ~(Len(f) + i <= Len(f)) /\ Len(f) + i - Len(f) = i
      BY <2>2
    <3> QED
      BY <2>1, <2>3, <3>1
  <2> QED
    BY <2>2, <2>3, <2>4
<1>3. \A i \in 1..u : g[Len(f) + i] = k + i
  BY <1>2
<1>4. \A i \in DOMAIN g : \/ i \in 1..Len(f)
                          \/ i - Len(f) \in 1..u /\ g[i] = k + (i - Len(f))
  BY <1>2, <1>3
<1>5. \A i \in 1..Len(f) : g[i] \in Nat /\ g[i] <= k
  <2>1. \A i \in 1..Len(f) : f[i] \in Nat /\ f[i] <= k
    BY BusNumbers
  <2> QED
    BY <1>2, <2>1
<1>6. ASSUME NEW i \in DOMAIN g
      PROVE  g[i] <= k + Len(items) /\ \A j \in 1..(i - 1) : g[j] < g[i]
  <2>1. CASE i \in 1..Len(f)
    BY <1>2, <1>5, <2>1
  <2>2. CASE i - Len(f) \in 1..u /\ g[i] = k + (i - Len(f))
    <3>1. g[i] <= k + Len(items)
      BY <2>2
    <3>2. ASSUME NEW j \in 1..(i - 1) PROVE g[j] < g[i]
      <4>1. j \in DOMAIN g
        BY <1>2
      <4>2. CASE j \in 1..Len(f)
        BY SMTT(60), <1>5, <2>2, <4>2
      <4>3. CASE j - Len(f) \in 1..u /\ g[j] = k + (j - Len(f))
        BY <1>2, <2>2, <4>3
      <4> QED
        BY <1>4, <4>1, <4>2, <4>3
    <3> QED
      BY <3>1, <3>2
  <2> QED
    BY <1>4, <2>1, <2>2
<1> QED
  BY <1>2, <1>3, <1>6 DEF Grown

\* process(), whether it ends or raises, keeps the invariant.
LEMMA RunTaskKeeps ==
  ASSUME BusInv, RunTask
  PROVE  BusInv'
<1> DEFINE items == Head(tasks)
           k == Len(seen)
<1>1. /\ items \in Frame /\ items \in Seq(1..N) /\ k \in Nat /\ Len(items) \in Nat
      /\ \A i \in 1..Len(items) : items[i] = k + i
      /\ \A i \in 1..k : seen[i] = i
      /\ seen' = seen \o items /\ seen' \in Seq(1..N) /\ tasks' \in Seq(Frame)
      /\ Conserved' /\ UNCHANGED <<pubVars, frames, exited>>
  BY RunTakesNext DEF BusInv
<1>2. Len(seen') = k + Len(items)
  BY <1>1, ConcatProperties DEF BusInv, BusTypes
<1>3. /\ file \in Seq(1..N) /\ Len(file) \in Nat /\ disk \in 0..Len(file)
      /\ Len(file) - disk < FlushInterval
      /\ \A i \in DOMAIN file : file[i] <= k /\ \A j \in 1..(i - 1) : file[j] < file[i]
  BY DEF BusInv, BusTypes, LogHolds
<1>4. ~exited /\ (Process(items) \/ ProcessRaises(items))
  BY DEF RunTask
<1>5. Ended \in Nat /\ Ended > 0 /\ FlushInterval \in Nat /\ FlushInterval > 0
  BY BusAssumption
<1> DEFINE last == IF Ended \in (k + 1)..(k + Len(items)) THEN Ended - k ELSE Len(items)
<1>6. /\ Ended \in Range(items) <=> Ended \in (k + 1)..(k + Len(items))
      /\ Upto(items) = SubSeq(items, 1, last) /\ last \in 0..Len(items)
  <2>1. last \in 0..Len(items)
    BY <1>1, <1>5
  <2> QED
    BY <1>1, <2>1, UptoIsPrefix
<1>7. /\ published' = published /\ buffer' = buffer /\ pending' = pending
      /\ frames' = frames /\ closed' = closed /\ exited' = exited
  BY <1>1 DEF pubVars
<1>8. ASSUME NEW u \in 0..Len(items), file' = file \o SubSeq(items, 1, u)
      PROVE  /\ file' \in Seq(1..N) /\ Len(file') = Len(file) + u
             /\ \A i \in 1..Len(file) : file'[i] = file[i]
             /\ \A i \in 1..u : file'[Len(file) + i] = k + i
             /\ \A i \in DOMAIN file' : /\ file'[i] <= Len(seen')
                                        /\ \A j \in 1..(i - 1) : file'[j] < file'[i]
             /\ Flushed(Len(file')) \in 0..Len(file')
             /\ Len(file') - Flushed(Len(file')) < FlushInterval
  <2> DEFINE g == file'
  <2> HIDE DEF k, items
  <2>1. /\ g \in Seq(1..N) /\ Len(g) = Len(file) + u
        /\ \A i \in 1..Len(file) : g[i] = file[i]
        /\ \A i \in 1..u : g[Len(file) + i] = k + i
        /\ \A i \in DOMAIN g : /\ g[i] <= k + Len(items)
                               /\ \A j \in 1..(i - 1) : g[j] < g[i]
    <3>1. g = file \o SubSeq(items, 1, u)
      BY <1>8
    <3>2. Following(items, k)
      BY <1>1 DEF Following
    <3>3. AscendingTo(file, k)
      BY <1>3 DEF AscendingTo
    <3>4. k \in Nat /\ items \in Seq(1..N) /\ file \in Seq(1..N) /\ u \in 0..Len(items)
      BY <1>1, <1>3
    <3> HIDE DEF g
    <3>5. Grown(file, g, u, k) /\ AscendingTo(g, k + Len(items))
      BY <3>1, <3>2, <3>3, <3>4, FileGrows, Zenon
    <3> QED
      BY <3>5 DEF Grown, AscendingTo
  <2>2. Len(g) \in Nat /\ disk \in 0..Len(g)
    BY <1>3, <2>1
  <2>3. Flushed(Len(g)) \in 0..Len(g) /\ Len(g) - Flushed(Len(g)) < FlushInterval
    <3> HIDE DEF g
    <3> QED
      BY <2>2, FlushedBound
  <2> QED
    BY <1>2, <2>1, <2>3
<1>9. CASE Process(items) /\ shutdown
  <2>1. /\ shutdown' = shutdown /\ open' = open /\ stopReq' = stopReq /\ failed' = failed
        /\ file' = file \o <<>> /\ disk' = Flushed(Len(file'))
    BY <1>9 DEF Process, BusInv, BusTypes
  <2>2. file' = file
    BY <1>3, <2>1
  <2>3. disk' \in 0..Len(file) /\ Len(file) - disk' < FlushInterval
        /\ (Len(file) = disk => disk' = disk)
    <3>1. disk' = Flushed(Len(file))
      BY <2>1, <2>2
    <3> QED
      BY <1>3, <3>1, FlushedBound
  <2>4. BusTypes'
    BY <1>1, <1>7, <2>1, <2>2, <2>3 DEF BusInv, BusTypes
  <2>5. \A i \in DOMAIN file' : /\ file'[i] <= Len(seen')
                                /\ \A j \in 1..(i - 1) : file'[j] < file'[i]
    <3>1. \A i \in DOMAIN file : file[i] \in Nat
      BY <1>3, BusNumbers
    <3> QED
      BY <1>1, <1>2, <1>3, <2>2, <3>1
  <2>6. ~failed => Len(file) = Ended /\ disk = Ended /\ \A i \in DOMAIN file : file[i] = i
    BY <1>9 DEF BusInv, LogHolds
  <2>7. LogHolds'
    BY <1>9, <2>1, <2>2, <2>3, <2>5, <2>6 DEF LogHolds
  <2> QED
    BY <1>1, <2>4, <2>7 DEF BusInv
<1>10. CASE Process(items) /\ ~shutdown
  <2>1. open
    BY <1>4, <1>10 DEF BusInv, LogHolds
  <2>2. /\ file' = file \o SubSeq(items, 1, last) /\ failed' = failed
        /\ shutdown' = (Ended \in (k + 1)..(k + Len(items)))
        /\ open' = ~shutdown' /\ stopReq' = (stopReq \/ shutdown')
        /\ disk' = IF shutdown' THEN Len(file') ELSE Flushed(Len(file'))
    <3>1. /\ file' = file \o Upto(items) /\ failed' = failed
          /\ shutdown' = (shutdown \/ (~shutdown /\ Ended \in Range(items)))
          /\ open' = (open /\ ~(~shutdown /\ Ended \in Range(items)))
          /\ stopReq' = (stopReq \/ (~shutdown /\ Ended \in Range(items)))
          /\ disk' = IF ~shutdown /\ Ended \in Range(items)
                     THEN Len(file') ELSE Flushed(Len(file'))
      BY <1>10, <2>1, Zenon DEF Process
    <3>2. shutdown' = (Ended \in Range(items))
      BY <1>10, <3>1
    <3>3. /\ open' = ~shutdown' /\ stopReq' = (stopReq \/ shutdown')
          /\ disk' = IF shutdown' THEN Len(file') ELSE Flushed(Len(file'))
      BY <1>10, <2>1, <3>1, <3>2, Zenon
    <3>4. shutdown' = (Ended \in (k + 1)..(k + Len(items)))
      BY <1>6, <3>2
    <3>5. file' = file \o SubSeq(items, 1, last)
      BY <1>6, <3>1, Zenon
    <3> QED
      BY <3>1, <3>3, <3>4, <3>5, Zenon
  <2>3. /\ file' \in Seq(1..N) /\ Len(file') = Len(file) + last
        /\ \A i \in 1..Len(file) : file'[i] = file[i]
        /\ \A i \in 1..last : file'[Len(file) + i] = k + i
        /\ \A i \in DOMAIN file' : /\ file'[i] <= Len(seen')
                                   /\ \A j \in 1..(i - 1) : file'[j] < file'[i]
        /\ Flushed(Len(file')) \in 0..Len(file')
        /\ Len(file') - Flushed(Len(file')) < FlushInterval
    BY <1>6, <1>8, <2>2
  <2>4. disk' \in 0..Len(file') /\ Len(file') - disk' < FlushInterval
    BY <1>3, <1>5, <1>6, <2>2, <2>3
  <2>5. open' \in BOOLEAN /\ shutdown' \in BOOLEAN /\ stopReq' \in BOOLEAN /\ failed' \in BOOLEAN
    BY <2>2 DEF BusInv, BusTypes
  <2>6. BusTypes'
    BY <1>1, <1>7, <2>3, <2>4, <2>5 DEF BusInv, BusTypes
  <2>7. ~failed => file = seen /\ k < Ended
    BY <1>10 DEF BusInv, LogHolds
  <2>8. ASSUME ~failed', ~shutdown' PROVE file' = seen' /\ Len(seen') < Ended
    <3>1. last = Len(items) /\ Ended \notin (k + 1)..(k + Len(items))
      BY <2>2, <2>8
    <3>2. SubSeq(items, 1, Len(items)) = items
      BY <1>1
    <3>3. file' = seen'
      BY <1>1, <2>2, <2>7, <2>8, <3>1, <3>2
    <3> QED
      BY <1>1, <1>2, <1>5, <2>2, <2>7, <2>8, <3>1, <3>3
  <2>9. ASSUME ~failed', shutdown'
        PROVE  Len(file') = Ended /\ disk' = Ended /\ \A i \in DOMAIN file' : file'[i] = i
    <3>1. last = Ended - k /\ Len(file) = k /\ \A i \in 1..k : file[i] = i
      BY <1>1, <2>2, <2>7, <2>9
    <3>2. Len(file') = Ended /\ DOMAIN file' = 1..Ended
      BY <1>1, <1>5, <2>3, <3>1
    <3>3. ASSUME NEW i \in 1..Ended PROVE file'[i] = i
      <4>1. CASE i <= k
        <5>1. i \in 1..Len(file)
          BY <1>1, <3>1, <4>1
        <5>2. file'[i] = file[i] /\ file[i] = i
          BY <2>3, <3>1, <5>1
        <5> QED
          BY <5>2
      <4>2. CASE i > k
        <5>1. i - k \in 1..last /\ k + (i - k) = i
          BY <1>1, <1>5, <3>1, <4>2
        <5>2. file'[Len(file) + (i - k)] = k + (i - k)
          BY <2>3, <5>1
        <5> QED
          BY <3>1, <5>1, <5>2
      <4> QED
        BY <1>1, <4>1, <4>2
    <3> QED
      BY <2>2, <2>9, <3>2, <3>3
  <2>10. LogHolds'
    BY <2>2, <2>3, <2>4, <2>8, <2>9 DEF LogHolds
  <2> QED
    BY <1>1, <2>6, <2>10 DEF BusInv
<1>11. CASE ProcessRaises(items)
  <2>1. PICK u \in 0..Len(items) : file' = file \o SubSeq(items, 1, u)
    <3>1. PICK i \in 1..Len(Upto(items)) : file' = file \o SubSeq(items, 1, i - 1)
      BY <1>11 DEF ProcessRaises
    <3>2. Len(Upto(items)) = last
      <4>1. ASSUME NEW j \in 1..last PROVE items[j] \in 1..N
        <5>1. j \in 1..Len(items)
          BY <1>1, <1>6
        <5> QED
          BY <1>1, <5>1, BusNumbers
      <4>2. last \in Int /\ 1 \in Int
        BY <1>6
      <4>3. Len(SubSeq(items, 1, last)) = IF 1 <= last THEN last - 1 + 1 ELSE 0
        BY <4>1, <4>2, SubSeqProperties
      <4> QED
        BY <1>6, <4>3
    <3>3. i - 1 \in 0..Len(items)
      BY <1>6, <3>2
    <3> QED
      BY <3>1, <3>3
  <2>2. /\ disk' = Flushed(Len(file')) /\ shutdown' \in BOOLEAN /\ failed' = TRUE
        /\ open /\ UNCHANGED <<open, stopReq>>
    BY <1>11 DEF ProcessRaises
  <2>3. /\ file' \in Seq(1..N)
        /\ \A i \in DOMAIN file' : /\ file'[i] <= Len(seen')
                                   /\ \A j \in 1..(i - 1) : file'[j] < file'[i]
        /\ Flushed(Len(file')) \in 0..Len(file')
        /\ Len(file') - Flushed(Len(file')) < FlushInterval
    BY <1>8, <2>1
  <2>4. BusTypes'
    BY <1>1, <1>7, <2>2, <2>3 DEF BusInv, BusTypes
  <2>5. LogHolds'
    BY <2>2, <2>3 DEF LogHolds
  <2> QED
    BY <1>1, <2>4, <2>5 DEF BusInv
<1> QED
  BY <1>4, <1>9, <1>10, <1>11

\* The records processed are the first ones published.
LEMMA SeenAreFirst ==
  ASSUME BusTypes, Conserved
  PROVE  \A i \in 1..Len(seen) : seen[i] = i
<1> DEFINE r == InTransit
<1>1. seen \in Seq(1..N) /\ r \in Seq(1..N) /\ published \in 0..N /\ N \in Nat
  BY QueueTypes, BusNumbers DEF BusTypes
<1>2. seen \o r = [i \in 1..published |-> i]
  BY DEF Conserved
<1> HIDE DEF r
<1>3. /\ Len(seen \o r) = Len(seen) + Len(r) /\ Len(seen) \in Nat /\ Len(r) \in Nat
      /\ \A i \in 1..Len(seen) : (seen \o r)[i] = seen[i]
  BY <1>1, ConcatProperties
<1>4. Len([i \in 1..published |-> i]) = published
  BY <1>1
<1>5. Len(seen \o r) = published
  BY <1>2, <1>4, Zenon
<1>6. \A i \in 1..published : (seen \o r)[i] = i
  BY <1>2, Zenon
<1> QED
  BY <1>1, <1>3, <1>5, <1>6

\* publish() adds the next number at the end of what was published.
LEMMA PublishConserves ==
  ASSUME BusTypes, Conserved, NEW flush \in BOOLEAN, Publish(flush)
  PROVE  Conserved'
<1> DEFINE r == InTransit
           m == published'
           r2 == InTransit'
<1>1. /\ seen \in Seq(1..N) /\ r \in Seq(1..N) /\ published \in 0..N /\ N \in Nat
      /\ m \in 1..N /\ m = published + 1 /\ r2 = Append(r, m) /\ seen' = seen
  BY QueueTypes, PublishMoves, BusNumbers DEF BusTypes
<1>2. seen \o r = [i \in 1..published |-> i]
  BY DEF Conserved
<1> HIDE DEF r, m, r2
<1>3. seen \o r2 = Append(seen \o r, m) /\ seen \o r2 \in Seq(1..N)
  <2>1. seen \o Append(r, m) = Append(seen \o r, m)
    BY <1>1
  <2>2. seen \o Append(r, m) \in Seq(1..N)
    BY <1>1
  <2> QED
    BY <1>1, <2>1, <2>2, Zenon
<1>4. Append([i \in 1..published |-> i], published + 1) = [i \in 1..(published + 1) |-> i]
  <2>1. published \in Nat
    BY <1>1
  <2> DEFINE a == [i \in 1..published |-> i]
             b == [i \in 1..(published + 1) |-> i]
  <2>2. a \in Seq(Nat) /\ b \in Seq(Nat) /\ Len(a) = published /\ Len(b) = published + 1
    BY <2>1
  <2>3. \A i \in 1..published : a[i] = i
    BY <2>1
  <2>4. \A i \in 1..(published + 1) : b[i] = i
    BY <2>1
  <2> HIDE DEF a, b
  <2>5. /\ Append(a, published + 1) \in Seq(Nat) /\ Len(Append(a, published + 1)) = published + 1
        /\ \A i \in 1..published : Append(a, published + 1)[i] = a[i]
        /\ Append(a, published + 1)[published + 1] = published + 1
    BY <2>1, <2>2, AppendProperties
  <2>6. \A i \in 1..(published + 1) : Append(a, published + 1)[i] = b[i]
    BY <2>1, <2>3, <2>4, <2>5
  <2>7. Append(a, published + 1) = b
    BY <2>2, <2>5, <2>6, SeqEqual
  <2> QED
    BY <2>7 DEF a, b
<1>5. seen \o r2 = [i \in 1..m |-> i]
  BY <1>1, <1>2, <1>3, <1>4, Zenon
<1> QED
  BY <1>1, <1>5 DEF Conserved, r2, m

\* Every step of the bus keeps the invariant.
LEMMA BusInvStep ==
  ASSUME BusInv, [BusNext]_busVars
  PROVE  BusInv'
<1>1. ASSUME NEW flush \in BOOLEAN, Publish(flush) PROVE BusInv'
  <2>1. BusTypes' /\ Conserved'
    BY <1>1, PublishMoves, PublishConserves DEF BusInv
  <2>2. UNCHANGED <<seen, logVars, exited>>
    BY <1>1 DEF Publish
  <2>3. LogHolds'
    BY <2>2 DEF BusInv, LogHolds, logVars
  <2> QED
    BY <2>1, <2>3 DEF BusInv
<1>2. CASE PublisherWritable \/ ClosePublisher \/ OnReadable
  <2>1. /\ BusTypes' /\ InTransit' = InTransit
        /\ UNCHANGED <<seen, published, logVars, exited>>
    BY <1>2, QueuesKeep DEF BusInv
  <2>2. Conserved'
    BY <2>1 DEF BusInv, Conserved
  <2>3. LogHolds'
    BY <2>1 DEF BusInv, LogHolds, logVars
  <2> QED
    BY <2>1, <2>2, <2>3 DEF BusInv
<1>3. CASE RunTask
  BY <1>3, RunTaskKeeps
<1>4. CASE RequestStop
  <2>1. /\ open' = FALSE /\ stopReq' = FALSE /\ exited' = TRUE
        /\ disk' = IF open THEN Len(file) ELSE disk
        /\ UNCHANGED <<pubVars, frames, tasks, seen, shutdown, file, failed>>
    BY <1>4 DEF RequestStop
  <2>2. file \in Seq(1..N) /\ Len(file) \in Nat /\ FlushInterval > 0 /\ FlushInterval \in Nat
    BY BusNumbers DEF BusInv, BusTypes
  <2>3. BusTypes'
    <3>1. disk \in 0..Len(file) /\ Len(file) \in 0..Len(file)
      BY <2>2 DEF BusInv, BusTypes
    <3>2. disk' \in 0..Len(file')
      BY <2>1, <3>1
    <3>3. /\ published' = published /\ buffer' = buffer /\ pending' = pending
          /\ closed' = closed
      BY <2>1 DEF pubVars
    <3> QED
      BY <2>1, <3>2, <3>3 DEF BusInv, BusTypes
  <2>4. Conserved'
    BY <2>1 DEF BusInv, Conserved, InTransit, pubVars
  <2>5. LogHolds'
    BY <2>1, <2>2 DEF BusInv, LogHolds, BusTypes
  <2> QED
    BY <2>3, <2>4, <2>5 DEF BusInv
<1>5. CASE UNCHANGED busVars
  <2>1. /\ BusTypes' = BusTypes /\ InTransit' = InTransit /\ LogHolds' = LogHolds
        /\ seen' = seen /\ published' = published
    BY <1>5 DEF busVars, pubVars, logVars, BusTypes, InTransit, LogHolds
  <2> QED
    BY <2>1 DEF BusInv, Conserved
<1> QED
  BY <1>1, <1>2, <1>3, <1>4, <1>5 DEF BusNext, Stop, Sigterm

\* The invariant implies what the run checks.
LEMMA BusInvImplies ==
  ASSUME BusInv
  PROVE  LogIsTheRun
<1>1. BusTypeOK
  <2>1. /\ FlattenSeq(frames) \in Seq(1..N) /\ FlattenSeq(pending) \in Seq(1..N)
        /\ buffer \in Seq(1..N)
    BY QueueTypes DEF BusInv
  <2>2. \A i \in DOMAIN tasks : tasks[i] # <<>>
    BY DEF BusInv, BusTypes, Frame
  <2> QED
    BY <2>1, <2>2 DEF BusInv, BusTypes, BusTypeOK
<1>2. \A i \in 1..Len(seen) : seen[i] = i
  BY SeenAreFirst DEF BusInv
<1>3. file \in Seq(1..N) /\ seen \in Seq(1..N) /\ Ended \in Nat
  BY BusNumbers DEF BusInv, BusTypes
<1>4. ASSUME ~failed
      PROVE  /\ \A i \in DOMAIN file : file[i] = i /\ i <= Ended
             /\ shutdown => disk = Ended
  <2>1. CASE shutdown
    BY <1>3, <1>4, <2>1 DEF BusInv, LogHolds
  <2>2. CASE ~shutdown
    BY <1>2, <1>3, <1>4, <2>2 DEF BusInv, LogHolds
  <2> QED
    BY <2>1, <2>2
<1> QED
  BY <1>1, <1>4 DEF LogIsTheRun, BusInv, LogHolds

\* The log is the run's: whatever is batched, pending, delayed or closed, and
\* whenever the logger is told to stop, the records on file are in the order
\* they were published, none missing, twice or behind ENDED unless a writer
\* has raised, and ENDED is on disk when the logger ends by itself.
THEOREM EventsAreLogged == Spec => []LogIsTheRun
<1>1. Init => BusInv
  BY BusInvInit DEF Init
<1>2. BusInv /\ [Next]_vars => BusInv'
  <2>1. ASSUME BusInv, [Next]_vars PROVE [BusNext]_busVars
    BY <2>1 DEF Next, vars
  <2> QED
    BY <2>1, BusInvStep
<1>3. BusInv => LogIsTheRun
  BY BusInvImplies
<1> QED
  BY <1>1, <1>2, <1>3, PTL DEF Spec

-----------------------------------------------------------------------------
(* Both transports implement InOrderChannel.                                *)

\* A step of the bus is a send, a delivery of the next records or invisible.
LEMMA BusStepRefines ==
  ASSUME BusInv, [BusNext]_busVars
  PROVE  [Bus!Next]_(Bus!vars)
<1> DEFINE p == "publisher"
           transit == [s \in {p} |-> InTransit]
           del == [s \in {p} |-> seen]
<1>1. ASSUME NEW flush \in BOOLEAN, Publish(flush) PROVE Bus!Next
  <2>1. /\ InTransit' = Append(InTransit, published') /\ seen' = seen
        /\ published' \in 1..N
    BY <1>1, PublishMoves DEF BusInv
  <2>2. Bus!Send(p, published')
    BY <2>1 DEF Bus!Send
  <2> QED
    BY <2>1, <2>2 DEF Bus!Next
<1>2. CASE InTransit' = InTransit /\ seen' = seen
  BY <1>2 DEF Bus!vars
<1>3. CASE RunTask
  <2> DEFINE h == Head(tasks)
             r == InTransit'
             n == Len(h)
  <2>1. /\ h \in Seq(1..N) /\ h # <<>> /\ r \in Seq(1..N)
        /\ InTransit = h \o r /\ seen' = seen \o h
    BY <1>3, RunTakesNext DEF BusInv, Frame
  <2> HIDE DEF h, r
  <2>2. n \in Nat /\ n > 0 /\ n \in 1..Len(h \o r) /\ Len(h \o r) = n + Len(r) /\ Len(r) \in Nat
    BY <2>1, EmptySeq
  <2>3. SubSeq(h \o r, 1, n) = h
    BY <2>1, <2>2
  <2>4. SubSeq(h \o r, n + 1, Len(h \o r)) = r
    BY <2>1, <2>2
  <2>5. n \in 1..Len(InTransit) /\ SubSeq(InTransit, 1, n) = h
        /\ SubSeq(InTransit, n + 1, Len(InTransit)) = r
    BY <2>1, <2>2, <2>3, <2>4
  <2>6. Bus!Deliver(p, n)
    BY <2>1, <2>5 DEF Bus!Deliver, r
  <2> QED
    BY <2>5, <2>6 DEF Bus!Next
<1>4. CASE PublisherWritable \/ ClosePublisher \/ OnReadable
  BY <1>2, <1>4, QueuesKeep DEF BusInv
<1>5. CASE RequestStop \/ UNCHANGED busVars
  <2>1. InTransit' = InTransit /\ seen' = seen
    BY <1>5 DEF RequestStop, busVars, pubVars, InTransit
  <2> QED
    BY <1>2, <2>1
<1> QED
  BY <1>1, <1>3, <1>4, <1>5 DEF BusNext, Stop, Sigterm

\* It starts as the channel does.
LEMMA BusInitRefines ==
  ASSUME BusInit
  PROVE  Bus!Init
  BY BusInvInit DEF Bus!Init, BusInit

\* The messages of s in a sequence of received ones, one sequence per item.
Own(d, s) == [i \in DOMAIN d |-> IF d[i][1] = s THEN <<d[i][2]>> ELSE <<>>]

\* What is on the way from s.
OnTheWay(s) == OfSender(s) \o wire[s] \o sbuf[s]

\* An item's own part.
OwnPart(item, s) == IF item[1] = s THEN <<item[2]>> ELSE <<>>

\* OfSender in terms of Own, and the types.
LEMMA OwnTypes ==
  ASSUME NEW d \in Seq(Senders \X (1..M)), NEW s
  PROVE  /\ Own(d, s) \in Seq(Seq(1..M)) /\ Len(Own(d, s)) = Len(d)
         /\ FlattenSeq(Own(d, s)) \in Seq(1..M)
<1>1. M \in Nat /\ Len(d) \in Nat /\ DOMAIN d = 1..Len(d)
  BY ChannelAssumption
<1>2. ASSUME NEW i \in 1..Len(d)
      PROVE  (IF d[i][1] = s THEN <<d[i][2]>> ELSE <<>>) \in Seq(1..M)
  <2>1. d[i] \in Senders \X (1..M)
    BY <1>1
  <2>2. d[i][2] \in 1..M
    BY <2>1
  <2>3. <<d[i][2]>> \in Seq(1..M) /\ <<>> \in Seq(1..M)
    BY <2>2
  <2> QED
    BY <2>3
<1>3. Own(d, s) \in Seq(Seq(1..M)) /\ Len(Own(d, s)) = Len(d)
  BY <1>1, <1>2 DEF Own
<1> QED
  BY <1>3, FlattenType

\* A message that is received is the last of its sender's.
LEMMA OwnAppend ==
  ASSUME NEW d \in Seq(Senders \X (1..M)), NEW s, NEW item \in Senders \X (1..M)
  PROVE  FlattenSeq(Own(Append(d, item), s)) = FlattenSeq(Own(d, s)) \o OwnPart(item, s)
<1>1. M \in Nat /\ Len(d) \in Nat /\ DOMAIN d = 1..Len(d)
  BY ChannelAssumption
<1> DEFINE e == Append(d, item)
           x == OwnPart(item, s)
<1>2. /\ e \in Seq(Senders \X (1..M)) /\ Len(e) = Len(d) + 1
      /\ \A i \in 1..Len(d) : e[i] = d[i]
      /\ e[Len(d) + 1] = item
  BY AppendProperties
<1>3. x \in Seq(1..M) /\ Own(d, s) \in Seq(Seq(1..M)) /\ Len(Own(d, s)) = Len(d)
      /\ Own(e, s) \in Seq(Seq(1..M)) /\ Len(Own(e, s)) = Len(d) + 1
  <2>1. <<item[2]>> \in Seq(1..M) /\ <<>> \in Seq(1..M)
    OBVIOUS
  <2>2. x \in Seq(1..M)
    BY <2>1 DEF OwnPart
  <2>3. Own(d, s) \in Seq(Seq(1..M)) /\ Len(Own(d, s)) = Len(d)
    BY OwnTypes
  <2> HIDE DEF e
  <2>4. Own(e, s) \in Seq(Seq(1..M)) /\ Len(Own(e, s)) = Len(e)
    BY <1>2, OwnTypes
  <2> QED
    BY <1>2, <2>2, <2>3, <2>4
<1>4. \A i \in 1..(Len(d) + 1) : Own(e, s)[i] = OwnPart(e[i], s)
  BY <1>1, <1>2 DEF Own, OwnPart
<1>5. \A i \in 1..Len(d) : Own(d, s)[i] = OwnPart(d[i], s)
  BY <1>1 DEF Own, OwnPart
<1> DEFINE a == Append(Own(d, s), x)
<1>6. /\ a \in Seq(Seq(1..M)) /\ Len(a) = Len(d) + 1
      /\ \A i \in 1..Len(d) : a[i] = Own(d, s)[i]
      /\ a[Len(d) + 1] = x
  <2> DEFINE o == Own(d, s)
  <2>1. o \in Seq(Seq(1..M)) /\ Len(o) = Len(d) /\ x \in Seq(1..M) /\ a = Append(o, x)
    BY <1>3
  <2> HIDE DEF o, x, a
  <2>2. /\ a \in Seq(Seq(1..M)) /\ Len(a) = Len(o) + 1
        /\ \A i \in 1..Len(o) : a[i] = o[i]
        /\ a[Len(o) + 1] = x
    BY <2>1, AppendProperties
  <2> QED
    BY <2>1, <2>2 DEF o
<1> HIDE DEF a, e, x
<1>7. \A i \in 1..(Len(d) + 1) : Own(e, s)[i] = a[i]
  <2> TAKE i \in 1..(Len(d) + 1)
  <2>1. CASE i = Len(d) + 1
    BY <1>2, <1>4, <1>6, <2>1 DEF x
  <2>2. CASE i \in 1..Len(d)
    BY <1>2, <1>4, <1>5, <1>6, <2>2
  <2> QED
    BY <1>1, <2>1, <2>2
<1>8. Own(e, s) = a
  BY <1>3, <1>6, <1>7, SeqEqual
<1>9. FlattenSeq(a) = FlattenSeq(Own(d, s)) \o x
  BY <1>3, FlattenAppend DEF a
<1> QED
  BY <1>8, <1>9 DEF e, x

\* The first received message is the first of its sender's.
LEMMA OwnHead ==
  ASSUME NEW d \in Seq(Senders \X (1..M)), NEW s, d # <<>>
  PROVE  FlattenSeq(Own(d, s)) = OwnPart(Head(d), s) \o FlattenSeq(Own(Tail(d), s))
<1>1. M \in Nat /\ Len(d) \in Nat /\ DOMAIN d = 1..Len(d) /\ Len(d) # 0
  BY ChannelAssumption, EmptySeq
<1> DEFINE t == Tail(d)
           o == Own(d, s)
<1>2. /\ t \in Seq(Senders \X (1..M)) /\ Len(t) = Len(d) - 1
      /\ \A i \in 1..Len(t) : t[i] = d[i + 1]
  BY HeadTailProperties
<1>3. o \in Seq(Seq(1..M)) /\ Len(o) = Len(d) /\ o # <<>>
      /\ Own(t, s) \in Seq(Seq(1..M)) /\ Len(Own(t, s)) = Len(d) - 1
  BY <1>1, <1>2, OwnTypes, EmptySeq
<1>4. \A i \in 1..Len(d) : o[i] = OwnPart(d[i], s)
  BY <1>1 DEF Own, OwnPart
<1>5. \A i \in 1..(Len(d) - 1) : Own(t, s)[i] = OwnPart(t[i], s)
  BY <1>1, <1>2 DEF Own, OwnPart
<1>6. Head(d) = d[1]
  BY <1>1
<1> HIDE DEF t, o
<1>7. /\ Tail(o) \in Seq(Seq(1..M)) /\ Len(Tail(o)) = Len(d) - 1
      /\ \A i \in 1..(Len(d) - 1) : Tail(o)[i] = o[i + 1]
      /\ Head(o) = o[1]
  BY <1>1, <1>3, HeadTailProperties
<1>8. Head(o) = OwnPart(Head(d), s)
  BY <1>1, <1>4, <1>6, <1>7
<1>9. \A i \in 1..(Len(d) - 1) : Tail(o)[i] = Own(t, s)[i]
  <2> TAKE i \in 1..(Len(d) - 1)
  <2>1. i + 1 \in 1..Len(d)
    BY <1>1
  <2> QED
    BY <1>2, <1>4, <1>5, <1>7, <2>1
<1>10. Tail(o) = Own(t, s)
  BY <1>3, <1>7, <1>9, SeqEqual
<1>11. FlattenSeq(o) = Head(o) \o FlattenSeq(Tail(o))
  BY <1>3, FlattenHead
<1> QED
  BY <1>8, <1>10, <1>11 DEF o, t

\* The types of the queues a message goes through.
LEMMA OnTheWayTypes ==
  ASSUME ChannelTypes, NEW s \in Senders
  PROVE  /\ OfSender(s) = FlattenSeq(Own(deque, s))
         /\ OfSender(s) \in Seq(1..M) /\ wire[s] \in Seq(1..M) /\ sbuf[s] \in Seq(1..M)
         /\ OnTheWay(s) \in Seq(1..M)
<1>1. OfSender(s) = FlattenSeq(Own(deque, s))
  BY Zenon DEF OfSender, Own
<1>2. OfSender(s) \in Seq(1..M) /\ wire[s] \in Seq(1..M) /\ sbuf[s] \in Seq(1..M)
  BY <1>1, OwnTypes DEF ChannelTypes
<1>3. OnTheWay(s) \in Seq(1..M)
  BY <1>2 DEF OnTheWay
<1> QED
  BY <1>1, <1>2, <1>3

\* How what is on the way may change for the step to be one of the channel's:
\* not at all, ...
LEMMA ChannelStutters ==
  ASSUME got' = got, \A x \in Senders : OnTheWay(x)' = OnTheWay(x)
  PROVE  UNCHANGED Channel!vars
  BY DEF Channel!vars, OnTheWay

\* ... a message more, ...
LEMMA ChannelSends ==
  ASSUME NEW s \in Senders, NEW m \in 1..M, got' = got,
         OnTheWay(s)' = Append(OnTheWay(s), m),
         \A x \in Senders \ {s} : OnTheWay(x)' = OnTheWay(x)
  PROVE  Channel!Next
<1>1. Channel!Send(s, m)
  BY DEF Channel!Send, OnTheWay
<1> QED
  BY <1>1 DEF Channel!Next

\* ... cut off behind some message, ...
LEMMA ChannelCuts ==
  ASSUME NEW s \in Senders, NEW n \in 0..Len(OnTheWay(s)), got' = got,
         OnTheWay(s)' = SubSeq(OnTheWay(s), 1, n),
         \A x \in Senders \ {s} : OnTheWay(x)' = OnTheWay(x)
  PROVE  Channel!Next
<1>1. Channel!Cut(s, n)
  BY DEF Channel!Cut, OnTheWay
<1> QED
  BY <1>1 DEF Channel!Next, OnTheWay

\* ... without one message, ...
LEMMA ChannelLoses ==
  ASSUME NEW s \in Senders, NEW n \in 1..Len(OnTheWay(s)), got' = got,
         OnTheWay(s)' = SubSeq(OnTheWay(s), 1, n - 1)
                          \o SubSeq(OnTheWay(s), n + 1, Len(OnTheWay(s))),
         \A x \in Senders \ {s} : OnTheWay(x)' = OnTheWay(x)
  PROVE  Channel!Next
<1>1. Channel!Lose(s, n)
  BY DEF Channel!Lose, OnTheWay
<1> QED
  BY <1>1 DEF Channel!Next, OnTheWay

\* ... or without the first, which was delivered.
LEMMA ChannelDelivers ==
  ASSUME NEW s \in Senders, 1 \in 1..Len(OnTheWay(s)),
         got' = [got EXCEPT ![s] = @ \o SubSeq(OnTheWay(s), 1, 1)],
         OnTheWay(s)' = SubSeq(OnTheWay(s), 1 + 1, Len(OnTheWay(s))),
         \A x \in Senders \ {s} : OnTheWay(x)' = OnTheWay(x)
  PROVE  Channel!Next
<1>1. Channel!Deliver(s, 1)
  BY DEF Channel!Deliver, OnTheWay
<1> QED
  BY <1>1 DEF Channel!Next, OnTheWay

\* A step that leaves the received messages alone leaves those of each sender.
LEMMA OfSenderKept ==
  ASSUME deque' = deque
  PROVE  \A x \in Senders : OfSender(x)' = OfSender(x)
  BY DEF OfSender

\* send() is a send of the channel, or the message is dropped.
LEMMA SendRefines ==
  ASSUME ChannelInv, NEW s \in Senders, Send(s)
  PROVE  [Channel!Next]_(Channel!vars)
<1> DEFINE o == OfSender(s)
           w == wire[s]
           b == sbuf[s]
           m == sent'[s]
<1>1. /\ o \in Seq(1..M) /\ w \in Seq(1..M) /\ b \in Seq(1..M)
      /\ \A x \in Senders : OfSender(x)' = OfSender(x)
  BY OnTheWayTypes, OfSenderKept DEF ChannelInv, Send
<1>2. m \in 1..M /\ got' = got
  BY ChannelAssumption DEF Send, ChannelInv, ChannelTypes
<1>3. wire \in [Senders -> Seq(1..M)] /\ sbuf \in [Senders -> Seq(1..M)]
  BY DEF ChannelInv, ChannelTypes
<1>4. CASE b = <<>> /\ Arrive(s, <<m>>) /\ UNCHANGED sbuf
  <2>1. wire' = [wire EXCEPT ![s] = w \o <<m>>]
    BY <1>4 DEF Arrive
  <2>2. \A x \in Senders \ {s} : OnTheWay(x)' = OnTheWay(x)
    BY <1>1, <1>3, <1>4, <2>1 DEF OnTheWay
  <2>3. OnTheWay(s)' = o \o (w \o <<m>>) \o <<>> /\ OnTheWay(s) = o \o w \o <<>>
    BY <1>1, <1>3, <1>4, <2>1 DEF OnTheWay
  <2>4. OnTheWay(s)' = Append(OnTheWay(s), m)
    <3> HIDE DEF o, w, b, m
    <3>1. o \o (w \o <<m>>) \o <<>> = o \o (w \o <<m>>) /\ o \o w \o <<>> = o \o w
      BY <1>1, <1>2
    <3>2. o \o (w \o <<m>>) = Append(o \o w, m)
      BY <1>1, <1>2
    <3> QED
      BY <2>3, <3>1, <3>2, Zenon
  <2> QED
    BY <1>2, <2>2, <2>4, ChannelSends
<1>5. CASE UNCHANGED <<sbuf, zmqVars>>
  <2>1. \A x \in Senders : OnTheWay(x)' = OnTheWay(x)
    BY <1>1, <1>5 DEF OnTheWay, zmqVars
  <2> QED
    BY <1>2, <2>1, ChannelStutters
<1>6. CASE sbuf' = [sbuf EXCEPT ![s] = Append(@, m)] /\ UNCHANGED zmqVars
  <2>1. \A x \in Senders \ {s} : OnTheWay(x)' = OnTheWay(x)
    BY <1>1, <1>3, <1>6 DEF OnTheWay, zmqVars
  <2>2. OnTheWay(s)' = o \o w \o Append(b, m) /\ OnTheWay(s) = o \o w \o b
    BY <1>1, <1>3, <1>6 DEF OnTheWay, zmqVars
  <2>3. OnTheWay(s)' = Append(OnTheWay(s), m)
    <3> HIDE DEF o, w, b, m
    <3>1. o \o w \o Append(b, m) = Append(o \o w \o b, m)
      BY <1>1, <1>2
    <3> QED
      BY <2>2, <3>1, Zenon
  <2> QED
    BY <1>2, <2>1, <2>3, ChannelSends
<1> QED
  BY <1>4, <1>5, <1>6 DEF Send

\* _on_writable moves messages on, or drops the end of the buffer.
LEMMA WritableRefines ==
  ASSUME ChannelInv, NEW s \in Senders, OnWritable(s)
  PROVE  [Channel!Next]_(Channel!vars)
<1> DEFINE o == OfSender(s)
           w == wire[s]
           q == sbuf[s]
<1>1. /\ o \in Seq(1..M) /\ w \in Seq(1..M) /\ q \in Seq(1..M) /\ Len(q) \in Nat
      /\ \A x \in Senders : OfSender(x)' = OfSender(x)
  BY OnTheWayTypes, OfSenderKept DEF ChannelInv, OnWritable
<1>2. wire \in [Senders -> Seq(1..M)] /\ sbuf \in [Senders -> Seq(1..M)] /\ M \in Nat
  BY ChannelAssumption DEF ChannelInv, ChannelTypes
<1>3. PICK k \in 1..Len(q) :
        /\ wire' = [wire EXCEPT ![s] = w \o SubSeq(q, 1, k)]
        /\ \/ sbuf' = [sbuf EXCEPT ![s] = SubSeq(q, k + 1, Len(q))]
           \/ sbuf' = [sbuf EXCEPT ![s] = <<>>]
  BY DEF OnWritable, Arrive
<1> DEFINE a == SubSeq(q, 1, k)
           b == SubSeq(q, k + 1, Len(q))
<1>4. a \in Seq(1..M) /\ b \in Seq(1..M) /\ q = a \o b
  <2> HIDE DEF q
  <2>1. a \in Seq(1..M) /\ b \in Seq(1..M)
    <3>1. ASSUME NEW i \in 1..Len(q) PROVE q[i] \in 1..M
      BY <1>1, <1>2
    <3>2. \A i \in 1..k : q[i] \in 1..M
      BY <1>1, <3>1
    <3>3. \A i \in (k + 1)..Len(q) : q[i] \in 1..M
      BY <1>1, <3>1
    <3> QED
      BY <1>1, <3>2, <3>3, SubSeqProperties
  <2>2. a \o b = SubSeq(q, 1, Len(q))
    BY <1>1, ConcatAdjacentSubSeq
  <2>3. SubSeq(q, 1, Len(q)) = q
    BY <1>1
  <2> QED
    BY <2>1, <2>2, <2>3
<1>5. /\ OnTheWay(s) = o \o w \o (a \o b)
      /\ OnTheWay(s)' = o \o (w \o a) \o sbuf'[s]
      /\ sbuf'[s] = b \/ sbuf'[s] = <<>>
      /\ \A x \in Senders \ {s} : OnTheWay(x)' = OnTheWay(x)
      /\ got' = got
  <2>1. OnTheWay(s) = o \o w \o q
    BY DEF OnTheWay
  <2>2. wire'[s] = w \o a /\ OfSender(s)' = o
    BY <1>1, <1>2, <1>3
  <2>3. \A x \in Senders \ {s} : wire'[x] = wire[x] /\ sbuf'[x] = sbuf[x]
    BY <1>2, <1>3
  <2>4. sbuf'[s] = b \/ sbuf'[s] = <<>>
    BY <1>2, <1>3
  <2>5. got' = got
    BY DEF OnWritable
  <2> HIDE DEF o, w, q, a, b
  <2> QED
    BY <1>1, <1>4, <2>1, <2>2, <2>3, <2>4, <2>5, Zenon DEF OnTheWay
<1> HIDE DEF o, w, q, a, b
<1>6. o \o (w \o a) \o b = o \o w \o (a \o b)
  <2>1. o \o (w \o a) = o \o w \o a /\ o \o w \in Seq(1..M)
    BY SMTT(60), <1>1, <1>4
  <2>2. ASSUME NEW u \in Seq(1..M) PROVE u \o a \o b = u \o (a \o b)
    BY <1>4
  <2> QED
    BY <2>1, <2>2
<1>7. CASE sbuf'[s] = b
  <2>1. OnTheWay(s)' = OnTheWay(s)
    BY <1>5, <1>6, <1>7, Zenon
  <2> QED
    BY <1>5, <2>1, ChannelStutters
<1>8. CASE sbuf'[s] = <<>>
  <2> DEFINE v == o \o (w \o a)
  <2>1. v \in Seq(1..M) /\ v \o <<>> = v
    BY <1>1, <1>4
  <2>2. OnTheWay(s)' = v /\ OnTheWay(s) = v \o b
    BY <1>5, <1>6, <1>8, <2>1, Zenon
  <2> HIDE DEF v
  <2>3. Len(v) \in 0..Len(v \o b) /\ SubSeq(v \o b, 1, Len(v)) = v
    BY <1>4, <2>1
  <2> QED
    BY <1>5, <2>2, <2>3, ChannelCuts
<1> QED
  BY <1>5, <1>7, <1>8

\* close() of a sender drops its buffer: the end of what is on the way.
LEMMA CloseRefines ==
  ASSUME ChannelInv, NEW s \in Senders, CloseSender(s)
  PROVE  [Channel!Next]_(Channel!vars)
<1> DEFINE o == OfSender(s)
           w == wire[s]
           b == sbuf[s]
           v == o \o w
<1>1. /\ o \in Seq(1..M) /\ w \in Seq(1..M) /\ b \in Seq(1..M)
      /\ \A x \in Senders : OfSender(x)' = OfSender(x)
  BY OnTheWayTypes, OfSenderKept DEF ChannelInv, CloseSender
<1>2. sbuf' = [sbuf EXCEPT ![s] = <<>>] /\ wire' = wire /\ got' = got
  BY DEF CloseSender, zmqVars
<1>3. sbuf \in [Senders -> Seq(1..M)]
  BY DEF ChannelInv, ChannelTypes
<1>4. \A x \in Senders \ {s} : OnTheWay(x)' = OnTheWay(x)
  BY <1>1, <1>2, <1>3 DEF OnTheWay
<1>5. OnTheWay(s) = v \o b /\ OnTheWay(s)' = v \o <<>>
  BY <1>1, <1>2, <1>3 DEF OnTheWay
<1>6. v \in Seq(1..M)
  BY <1>1
<1> HIDE DEF o, w, b, v
<1>7. v \o <<>> = v /\ Len(v) \in 0..Len(v \o b) /\ SubSeq(v \o b, 1, Len(v)) = v
  BY <1>1, <1>6
<1> QED
  BY <1>2, <1>4, <1>5, <1>7, ChannelCuts

\* A concatenation is split where its parts meet.
LEMMA SplitWhereJoined ==
  ASSUME NEW S, NEW u \in Seq(S), NEW v \in Seq(S), NEW n \in Nat, n = Len(u)
  PROVE  /\ Len(u \o v) \in Nat /\ n <= Len(u \o v)
         /\ SubSeq(u \o v, 1, n) = u
         /\ SubSeq(u \o v, n + 1, Len(u \o v)) = v
<1>1. Len(u \o v) = n + Len(v) /\ Len(v) \in Nat
  OBVIOUS
<1>2. SubSeq(u \o v, 1, n) = u
  OBVIOUS
<1>3. SubSeq(u \o v, n + 1, Len(u \o v)) = v
  OBVIOUS
<1> QED
  BY <1>1, <1>2, <1>3

\* A received message moves to the deque, or is dropped when it is bad.
LEMMA RecvIntoRefines ==
  ASSUME ChannelInv, NEW s \in Senders, RecvInto(s)
  PROVE  [Channel!Next]_(Channel!vars)
<1> DEFINE o == OfSender(s)
           m == Head(wire[s])
           t == Tail(wire[s])
           b == sbuf[s]
<1>1. wire[s] # <<>> /\ wire' = [wire EXCEPT ![s] = t] /\ sbuf' = sbuf /\ got' = got
  BY DEF RecvInto, sendVars
<1>2. wire \in [Senders -> Seq(1..M)] /\ deque \in Seq(Senders \X (1..M))
  BY DEF ChannelInv, ChannelTypes
<1>3. o \in Seq(1..M) /\ b \in Seq(1..M) /\ wire[s] \in Seq(1..M)
  BY OnTheWayTypes DEF ChannelInv
<1>4. m \in 1..M /\ t \in Seq(1..M) /\ wire[s] = <<m>> \o t
  <2> DEFINE q == wire[s]
  <2>1. q \in Seq(1..M) /\ q # <<>> /\ m = Head(q) /\ t = Tail(q)
    BY <1>1, <1>3
  <2> HIDE DEF q, m, t
  <2>2. m \in 1..M /\ t \in Seq(1..M)
    BY <2>1, HeadTailProperties
  <2>3. q = <<m>> \o t
    BY <2>1, <2>2
  <2> QED
    BY <2>2, <2>3 DEF q
<1>5. OnTheWay(s) = o \o (<<m>> \o t) \o b
  BY <1>4 DEF OnTheWay
<1>6. CASE deque' = Append(deque, <<s, m>>)
  <2>1. <<s, m>> \in Senders \X (1..M) /\ deque' \in Seq(Senders \X (1..M))
    BY <1>2, <1>4, <1>6
  <2>2. ASSUME NEW x \in Senders
        PROVE  OfSender(x)' = OfSender(x) \o OwnPart(<<s, m>>, x)
    <3>1. OfSender(x)' = FlattenSeq(Own(deque', x))
      BY Zenon DEF OfSender, Own
    <3>2. OfSender(x) = FlattenSeq(Own(deque, x))
      BY Zenon DEF OfSender, Own
    <3>3. FlattenSeq(Own(Append(deque, <<s, m>>), x))
            = FlattenSeq(Own(deque, x)) \o OwnPart(<<s, m>>, x)
      BY <1>2, <2>1, OwnAppend
    <3> QED
      BY <1>6, <3>1, <3>2, <3>3, Zenon
  <2>3. ASSUME NEW x \in Senders \ {s} PROVE OnTheWay(x)' = OnTheWay(x)
    <3>1. OwnPart(<<s, m>>, x) = <<>>
      BY DEF OwnPart
    <3>2. OfSender(x) \in Seq(1..M)
      BY OnTheWayTypes DEF ChannelInv
    <3>3. OfSender(x)' = OfSender(x)
      BY <2>2, <3>1, <3>2, ConcatEmptySeq
    <3>4. wire'[x] = wire[x]
      BY <1>1, <1>2
    <3> QED
      BY <1>1, <3>3, <3>4 DEF OnTheWay
  <2>4. OnTheWay(s)' = (o \o <<m>>) \o t \o b
    <3>1. OwnPart(<<s, m>>, s) = <<m>>
      BY DEF OwnPart
    <3>2. OfSender(s)' = o \o <<m>> /\ wire'[s] = t
      BY <1>1, <1>2, <2>2, <3>1
    <3> QED
      BY <1>1, <3>2, Zenon DEF OnTheWay
  <2>5. OnTheWay(s)' = OnTheWay(s)
    <3> HIDE DEF o, m, t, b
    <3>1. (o \o <<m>>) \o t = o \o (<<m>> \o t)
      BY <1>3, <1>4
    <3> QED
      BY <1>5, <2>4, <3>1, Zenon
  <2> QED
    BY <1>1, <2>3, <2>5, ChannelStutters
<1>7. CASE deque' = deque
  <2>1. \A x \in Senders : OfSender(x)' = OfSender(x)
    BY <1>7, OfSenderKept
  <2>2. \A x \in Senders \ {s} : OnTheWay(x)' = OnTheWay(x)
    BY <1>1, <1>2, <2>1 DEF OnTheWay
  <2>3. wire'[s] = t
    BY <1>1, <1>2
  <2>4. OnTheWay(s)' = o \o t \o b
    BY <1>1, <2>1, <2>3 DEF OnTheWay
  <2> DEFINE n == Len(o) + 1
             z == o \o (<<m>> \o t) \o b
  <2> HIDE DEF o, m, t, b
  <2>5. n \in Nat /\ n - 1 = Len(o) /\ n \in 1..Len(z)
        /\ Len(z) = Len(o) + 1 + Len(t) + Len(b)
    BY <1>3, <1>4
  <2>6. /\ o \o <<m>> \in Seq(1..M) /\ n = Len(o \o <<m>>) /\ t \o b \in Seq(1..M)
        /\ z = (o \o <<m>>) \o (t \o b)
    <3>1. /\ o \o <<m>> \in Seq(1..M) /\ n = Len(o \o <<m>>) /\ t \o b \in Seq(1..M)
      BY <1>3, <1>4
    <3>2. o \o (<<m>> \o t) = (o \o <<m>>) \o t
      BY <1>3, <1>4
    <3>3. ASSUME NEW u \in Seq(1..M) PROVE (u \o t) \o b = u \o (t \o b)
      BY <1>3, <1>4
    <3> QED
      BY <3>1, <3>2, <3>3
  <2>7. SubSeq(z, 1, n - 1) = o
    BY <1>3, <1>4, <2>5
  <2>8. SubSeq(z, n + 1, Len(z)) = t \o b
    <3> DEFINE u == o \o <<m>>
               v == t \o b
    <3>1. u \in Seq(1..M) /\ v \in Seq(1..M) /\ n = Len(u) /\ n \in Nat /\ z = u \o v
      BY <2>5, <2>6
    <3> HIDE DEF u, v, z, n
    <3>2. SubSeq(z, n + 1, Len(z)) = v
      BY <3>1, SplitWhereJoined
    <3> QED
      BY <3>2 DEF v
  <2>9. o \o t \o b = o \o (t \o b)
    BY <1>3, <1>4
  <2>10. OnTheWay(s)' = SubSeq(z, 1, n - 1) \o SubSeq(z, n + 1, Len(z))
    BY <2>4, <2>7, <2>8, <2>9, Zenon
  <2>11. OnTheWay(s) = z
    BY <1>5
  <2> HIDE DEF n, z
  <2> QED
    BY <1>1, <2>2, <2>5, <2>10, <2>11, ChannelLoses
<1> QED
  BY <1>6, <1>7 DEF RecvInto

\* recv() delivers the first message of its sender.
LEMMA RecvRefines ==
  ASSUME ChannelInv, Recv
  PROVE  [Channel!Next]_(Channel!vars)
<1>1. wire' = wire /\ sbuf' = sbuf
  BY DEF Recv, sendVars, zmqVars
<1>2. CASE deque = <<>>
  <2>1. deque' = deque /\ got' = got
    BY <1>2 DEF Recv
  <2>2. \A x \in Senders : OnTheWay(x)' = OnTheWay(x)
    BY <1>1, <2>1, OfSenderKept DEF OnTheWay
  <2> QED
    BY <2>1, <2>2, ChannelStutters
<1>3. CASE deque # <<>>
  <2>1. /\ deque \in Seq(Senders \X (1..M)) /\ Head(deque) \in Senders \X (1..M)
        /\ Tail(deque) \in Seq(Senders \X (1..M))
    BY <1>3, HeadTailProperties DEF ChannelInv, ChannelTypes
  <2>2. PICK s \in Senders, m \in 1..M : Head(deque) = <<s, m>>
    BY <2>1
  <2>3. deque' = Tail(deque) /\ got' = [got EXCEPT ![s] = Append(@, m)]
    BY <1>3, <2>2 DEF Recv
  <2> DEFINE item == <<s, m>>
             o == FlattenSeq(Own(Tail(deque), s))
             w == wire[s]
             b == sbuf[s]
  <2>4. ASSUME NEW x \in Senders
        PROVE  OfSender(x) = OwnPart(item, x) \o OfSender(x)' /\ OfSender(x)' \in Seq(1..M)
               /\ OfSender(x)' = FlattenSeq(Own(Tail(deque), x))
    <3>1. OfSender(x)' = FlattenSeq(Own(Tail(deque), x))
      BY <2>3, Zenon DEF OfSender, Own
    <3>2. OfSender(x) = FlattenSeq(Own(deque, x))
      BY Zenon DEF OfSender, Own
    <3>3. FlattenSeq(Own(Tail(deque), x)) \in Seq(1..M)
      BY <2>1, OwnTypes
    <3>4. FlattenSeq(Own(deque, x)) = OwnPart(item, x) \o FlattenSeq(Own(Tail(deque), x))
      BY <1>3, <2>1, <2>2, OwnHead
    <3> QED
      BY <3>1, <3>2, <3>3, <3>4
  <2>5. ASSUME NEW x \in Senders \ {s} PROVE OnTheWay(x)' = OnTheWay(x)
    <3>1. OwnPart(item, x) = <<>>
      BY DEF OwnPart
    <3>2. OfSender(x)' = OfSender(x)
      BY <2>4, <3>1, ConcatEmptySeq
    <3> QED
      BY <1>1, <3>2 DEF OnTheWay
  <2>6. OnTheWay(s)' = o \o w \o b /\ OnTheWay(s) = (<<m>> \o o) \o w \o b
    <3>1. OwnPart(item, s) = <<m>>
      BY DEF OwnPart
    <3>2. OfSender(s)' = o /\ OfSender(s) = <<m>> \o o
      BY <2>4, <3>1
    <3> QED
      BY <1>1, <3>2 DEF OnTheWay
  <2>7. o \in Seq(1..M) /\ w \in Seq(1..M) /\ b \in Seq(1..M)
    BY <2>1, OwnTypes DEF ChannelInv, ChannelTypes
  <2>8. got \in [Senders -> Seq(1..M)]
    BY DEF ChannelInv, ChannelTypes
  <2> DEFINE z == o \o w \o b
  <2> HIDE DEF item, o, w, b
  <2>9. z \in Seq(1..M) /\ (<<m>> \o o) \o w \o b = <<m>> \o z
    <3>1. (<<m>> \o o) \o w = <<m>> \o (o \o w) /\ o \o w \in Seq(1..M)
      BY <2>7
    <3>2. ASSUME NEW u \in Seq(1..M)
          PROVE  (<<m>> \o u) \o b = <<m>> \o (u \o b) /\ u \o b \in Seq(1..M)
      BY <2>7
    <3> QED
      BY <3>1, <3>2
  <2>10. OnTheWay(s)' = z /\ OnTheWay(s) = <<m>> \o z
    BY <2>6, <2>9, Zenon
  <2> HIDE DEF z
  <2>11. /\ 1 \in 1..Len(<<m>> \o z) /\ SubSeq(<<m>> \o z, 1, 1) = <<m>>
         /\ SubSeq(<<m>> \o z, 1 + 1, Len(<<m>> \o z)) = z
    <3> DEFINE u == <<m>>
               n == 1
    <3>1. u \in Seq(1..M) /\ n \in Nat /\ n = Len(u) /\ z \in Seq(1..M)
      BY <2>9
    <3> HIDE DEF u, n
    <3>2. /\ Len(u \o z) \in Nat /\ n <= Len(u \o z)
          /\ SubSeq(u \o z, 1, n) = u
          /\ SubSeq(u \o z, n + 1, Len(u \o z)) = z
      BY <3>1, SplitWhereJoined
    <3> QED
      BY <3>2 DEF u, n
  <2>12. Append(got[s], m) = got[s] \o <<m>>
    BY <2>8, AppendIsConcat
  <2>13. got' = [got EXCEPT ![s] = @ \o SubSeq(OnTheWay(s), 1, 1)]
    BY <2>3, <2>10, <2>11, <2>12
  <2>14. /\ 1 \in 1..Len(OnTheWay(s))
         /\ OnTheWay(s)' = SubSeq(OnTheWay(s), 1 + 1, Len(OnTheWay(s)))
    BY <2>10, <2>11, Zenon
  <2> QED
    BY <2>5, <2>13, <2>14, ChannelDelivers
<1> QED
  BY <1>2, <1>3

\* A step of the worker channel is one of the channel's or invisible.
LEMMA WorkerStepRefines ==
  ASSUME ChannelInv, [ChannelNext]_channelVars
  PROVE  [Channel!Next]_(Channel!vars)
<1>1. ASSUME UNCHANGED <<sbuf, wire, deque, got>>
      PROVE  UNCHANGED Channel!vars
  <2>1. \A x \in Senders : OnTheWay(x)' = OnTheWay(x)
    BY <1>1, OfSenderKept DEF OnTheWay
  <2> QED
    BY <1>1, <2>1, ChannelStutters
<1>2. CASE Readable \/ RecvAgain \/ Wake \/ CloseReceiver \/ UNCHANGED channelVars
  <2>1. UNCHANGED <<sbuf, wire, deque, got>>
    BY <1>2 DEF Readable, RecvAgain, Wake, CloseReceiver, channelVars, sendVars, zmqVars
  <2> QED
    BY <1>1, <2>1
<1> QED
  BY <1>2, SendRefines, WritableRefines, CloseRefines, RecvIntoRefines, RecvRefines
     DEF ChannelNext

\* It starts as the channel does.
LEMMA WorkerInitRefines ==
  ASSUME ChannelInit \/ ChannelIdle
  PROVE  Channel!Init
<1>1. ASSUME NEW s \in Senders PROVE OfSender(s) \o wire[s] \o sbuf[s] = <<>>
  <2>1. OfSender(s) = <<>>
    <3>1. deque = <<>>
      BY DEF ChannelInit, ChannelIdle
    <3>2. [i \in DOMAIN deque |-> IF deque[i][1] = s THEN <<deque[i][2]>> ELSE <<>>] = <<>>
      BY <3>1
    <3> QED
      BY <3>2, FlattenEmpty, Zenon DEF OfSender
  <2>2. wire[s] = <<>> /\ sbuf[s] = <<>>
    BY DEF ChannelInit, ChannelIdle
  <2> QED
    BY <2>1, <2>2
<1>2. got = [s \in Senders |-> <<>>]
  BY DEF ChannelInit, ChannelIdle
<1> QED
  BY <1>1, <1>2 DEF Channel!Init

\* Both transports are the channel the session, the aggregator and the worker
\* loop rely on: in order, nothing twice, and on the bus nothing lost.
THEOREM TransportsRefineChannel == Spec => TransportsAreInOrder
<1>1. Init => /\ BusInv /\ Bus!Init /\ ChannelInv /\ Channel!Init
  BY BusInvInit, BusInitRefines, ChannelInvInit, WorkerInitRefines DEF Init
<1>2. [Next]_vars => [BusNext]_busVars /\ [ChannelNext]_channelVars
  BY DEF Next, vars
<1>3. BusInv /\ [Next]_vars => BusInv' /\ [Bus!Next]_(Bus!vars)
  BY <1>2, BusInvStep, BusStepRefines
<1>4. ChannelInv /\ [Next]_vars => ChannelInv' /\ [Channel!Next]_(Channel!vars)
  BY <1>2, ChannelInvStep, WorkerStepRefines
<1> QED
  BY <1>1, <1>3, <1>4, PTL
     DEF Spec, TransportsAreInOrder, BusRefinesChannel, WorkersRefineChannel,
         Bus!Spec, Channel!Spec

=============================================================================
