--------------------------- MODULE WorkerChannel ---------------------------
(***************************************************************************)
(* The PUSH/PULL transport between the main process and the workers:       *)
(* _ZmqSenderTransport at each sender and one _ZmqReceiverTransport, over  *)
(* ZMQ sockets whose file descriptor is edge-triggered.                    *)
(*                                                                         *)
(* Source: async_utils/transport/zmq/transport.py.  The requests of a      *)
(* worker have one sender; the responses have one per worker.              *)
(*                                                                         *)
(* Of ZMQ itself the model keeps what the code has to work with: a pipe    *)
(* signals the descriptor only when a message arrives after the receiver   *)
(* has found the pipe empty, and a receive or a look at zmq.EVENTS         *)
(* consumes the signal.                                                    *)
(***************************************************************************)
EXTENDS Naturals, Sequences, SequencesExt

CONSTANTS
    Senders,
    M,            \* messages per sender, numbered 1..M
    Undecodable,  \* messages the decoder rejects
    Oversized,    \* messages longer than the receive buffer
    Closing       \* the transports may be closed during the run

ASSUME ChannelAssumption ==
    /\ M \in Nat \ {0} /\ Closing \in BOOLEAN
    /\ Undecodable \subseteq 1..M /\ Oversized \subseteq 1..M

VARIABLES
    faulty,   \* in this run sends may fail and messages may be bad
    sent,     \* send() calls so far, per sender
    sbuf,     \* the sender's _buffer
    sclosed,  \* the sender's _closing
    wire,     \* messages in the pipe of a sender
    asleep,   \* the receiver has found that pipe empty
    edge,     \* the descriptor is readable
    soon,     \* _soon_call is scheduled
    at,       \* where _on_readable is: "idle", "drain" or "wake"
    some,     \* its count is not 0
    deque,    \* _deque, as <<sender, message>>
    waiter,   \* _waiter: "none", "pending" or "done"
    rclosed,  \* the receiver's _closing
    ended,    \* recv() has returned None
    got       \* messages recv() has returned, per sender

sendVars == <<sent, sbuf, sclosed>>
zmqVars == <<wire, asleep, edge>>
channelVars == <<faulty, sendVars, zmqVars, soon, at, some, deque, waiter, rclosed, ended, got>>

(* A pipe that was just attached has signalled the descriptor.              *)
ChannelInit ==
    /\ faulty \in BOOLEAN
    /\ sent = [s \in Senders |-> 0] /\ sbuf = [s \in Senders |-> <<>>]
    /\ sclosed = [s \in Senders |-> FALSE]
    /\ wire = [s \in Senders |-> <<>>] /\ asleep = [s \in Senders |-> FALSE] /\ edge = TRUE
    /\ soon = FALSE /\ at = "idle" /\ some = FALSE
    /\ deque = <<>> /\ waiter = "none" /\ rclosed = FALSE /\ ended = FALSE
    /\ got = [s \in Senders |-> <<>>]

(* A channel nobody sends on: its receiver waits.                           *)
ChannelIdle ==
    /\ faulty = FALSE
    /\ sent = [s \in Senders |-> 0] /\ sbuf = [s \in Senders |-> <<>>]
    /\ sclosed = [s \in Senders |-> FALSE]
    /\ wire = [s \in Senders |-> <<>>] /\ asleep = [s \in Senders |-> TRUE] /\ edge = FALSE
    /\ soon = FALSE /\ at = "idle" /\ some = FALSE
    /\ deque = <<>> /\ waiter = "pending" /\ rclosed = FALSE /\ ended = FALSE
    /\ got = [s \in Senders |-> <<>>]

-----------------------------------------------------------------------------
(* The senders.                                                             *)

(* Messages reach the pipe.                                                 *)
Arrive(s, ms) ==
    /\ wire' = [wire EXCEPT ![s] = @ \o ms]
    /\ edge' = (edge \/ asleep[s])
    /\ asleep' = [asleep EXCEPT ![s] = FALSE]

(* send(): directly when nothing is buffered and the socket takes it; an    *)
(* error of the socket is logged and the message dropped.                   *)
Send(s) ==
    /\ sent[s] < M /\ ~sclosed[s]
    /\ sent' = [sent EXCEPT ![s] = @ + 1]
    /\ \/ sbuf[s] = <<>> /\ Arrive(s, <<sent'[s]>>) /\ UNCHANGED sbuf
       \/ sbuf[s] = <<>> /\ faulty /\ UNCHANGED <<sbuf, zmqVars>>
       \/ sbuf' = [sbuf EXCEPT ![s] = Append(@, sent'[s])] /\ UNCHANGED zmqVars
    /\ UNCHANGED <<faulty, sclosed, soon, at, some, deque, waiter, rclosed, ended, got>>

(* _on_writable: the socket takes k buffered messages; an error clears the  *)
(* rest of the buffer.                                                      *)
OnWritable(s) ==
    /\ sbuf[s] # <<>> /\ ~sclosed[s]
    /\ \E k \in 1..Len(sbuf[s]) :
        /\ Arrive(s, SubSeq(sbuf[s], 1, k))
        /\ \/ sbuf' = [sbuf EXCEPT ![s] = SubSeq(@, k + 1, Len(@))]
           \/ faulty /\ sbuf' = [sbuf EXCEPT ![s] = <<>>]
    /\ UNCHANGED <<faulty, sent, sclosed, soon, at, some, deque, waiter, rclosed, ended, got>>

CloseSender(s) ==
    /\ Closing /\ ~sclosed[s]
    /\ sclosed' = [sclosed EXCEPT ![s] = TRUE]
    /\ sbuf' = [sbuf EXCEPT ![s] = <<>>]
    /\ UNCHANGED <<faulty, sent, zmqVars, soon, at, some, deque, waiter, rclosed, ended, got>>

-----------------------------------------------------------------------------
(* The receiver.  _on_readable runs to its end before anything else of the  *)
(* receiving process; the senders go on meanwhile.                          *)

Readable ==
    /\ at = "idle" /\ (edge \/ soon) /\ ~rclosed
    /\ at' = "drain" /\ some' = FALSE /\ soon' = FALSE
    /\ UNCHANGED <<faulty, sendVars, zmqVars, deque, waiter, rclosed, ended, got>>

(* A message is taken from a pipe and decoded.  One that does not decode    *)
(* ends the drain; one that was truncated raises out of the callback.       *)
RecvInto(s) ==
    /\ at = "drain" /\ wire[s] # <<>>
    /\ wire' = [wire EXCEPT ![s] = Tail(@)] /\ edge' \in {edge, FALSE}
    /\ LET m == Head(wire[s]) IN
       \/ /\ ~faulty \/ m \notin Undecodable \cup Oversized
          /\ deque' = Append(deque, <<s, m>>) /\ some' = TRUE /\ UNCHANGED at
       \/ /\ faulty /\ m \in Undecodable \ Oversized
          /\ at' = "wake" /\ UNCHANGED <<deque, some>>
       \/ /\ faulty /\ m \in Oversized
          /\ at' = "idle" /\ UNCHANGED <<deque, some>>
    /\ UNCHANGED <<faulty, sendVars, asleep, soon, waiter, rclosed, ended, got>>

(* zmq.Again.                                                               *)
RecvAgain ==
    /\ at = "drain" /\ \A s \in Senders : wire[s] = <<>>
    /\ asleep' = [s \in Senders |-> TRUE] /\ edge' = FALSE
    /\ at' = "wake"
    /\ UNCHANGED <<faulty, sendVars, wire, soon, some, deque, waiter, rclosed, ended, got>>

(* EVENTS is read and nothing rescheduled.                                  *)
Wake_NoReschedule ==
    /\ at = "wake"
    /\ at' = "idle"
    /\ waiter' = IF some /\ waiter = "pending" THEN "done" ELSE waiter
    /\ edge' = (~some /\ edge)
    /\ asleep' = IF some THEN [s \in Senders |-> wire[s] = <<>>] ELSE asleep
    /\ UNCHANGED <<faulty, sendVars, wire, soon, some, deque, rclosed, ended, got>>

(* The end of the callback, when something was received: the waiter is      *)
(* woken, and the callback rescheduled when zmq.EVENTS, which consumes the  *)
(* signal, shows messages that came meanwhile.                              *)
Wake ==
    /\ at = "wake"
    /\ at' = "idle"
    /\ waiter' = IF some /\ waiter = "pending" THEN "done" ELSE waiter
    /\ edge' = (~some /\ edge)
    /\ asleep' = IF some THEN [s \in Senders |-> wire[s] = <<>>] ELSE asleep
    /\ soon' = (some /\ \E s \in Senders : wire[s] # <<>>)
    /\ UNCHANGED <<faulty, sendVars, wire, some, deque, rclosed, ended, got>>

(* recv(), called or resumed: an item, None when closed, or a new waiter.   *)
Recv ==
    /\ at = "idle" /\ waiter # "pending" /\ ~ended
    /\ IF deque # <<>>
       THEN LET item == Head(deque) IN
            /\ deque' = Tail(deque) /\ waiter' = "none"
            /\ got' = [got EXCEPT ![item[1]] = Append(@, item[2])]
            /\ UNCHANGED ended
       ELSE /\ ended' = rclosed /\ waiter' = IF rclosed THEN "none" ELSE "pending"
            /\ UNCHANGED <<deque, got>>
    /\ UNCHANGED <<faulty, sendVars, zmqVars, soon, at, some, rclosed>>

(* close() that leaves the waiter pending.                                  *)
CloseReceiver_NoWake ==
    /\ Closing /\ at = "idle" /\ ~rclosed
    /\ rclosed' = TRUE /\ soon' = FALSE
    /\ UNCHANGED <<faulty, sendVars, zmqVars, at, some, deque, waiter, ended, got>>

CloseReceiver ==
    /\ Closing /\ at = "idle" /\ ~rclosed
    /\ rclosed' = TRUE /\ soon' = FALSE
    /\ waiter' = IF waiter = "pending" THEN "done" ELSE waiter
    /\ UNCHANGED <<faulty, sendVars, zmqVars, at, some, deque, ended, got>>

ChannelNext ==
    \/ \E s \in Senders : Send(s) \/ OnWritable(s) \/ CloseSender(s) \/ RecvInto(s)
    \/ Readable \/ RecvAgain \/ Wake \/ Recv \/ CloseReceiver

(* Both loops run what is ready, the sockets take messages again, and the   *)
(* receiving side keeps calling recv().                                     *)
ChannelFairness ==
    /\ \A s \in Senders : WF_channelVars(OnWritable(s))
    /\ WF_channelVars(Readable)
    /\ WF_channelVars(RecvAgain \/ \E s \in Senders : RecvInto(s))
    /\ WF_channelVars(Wake) /\ WF_channelVars(Recv)

-----------------------------------------------------------------------------
(* Type correctness; a consumer that was woken finds an item or the end.    *)
ChannelTypeOK ==
    /\ sent \in [Senders -> 0..M] /\ sclosed \in [Senders -> BOOLEAN]
    /\ \A s \in Senders : {sbuf[s], wire[s], got[s]} \subseteq Seq(1..M)
    /\ asleep \in [Senders -> BOOLEAN]
    /\ \A b \in {edge, soon, some, rclosed, ended} : b \in BOOLEAN
    /\ at \in {"idle", "drain", "wake"} /\ deque \in Seq(Senders \X (1..M))
    /\ waiter \in {"none", "pending", "done"}
    /\ waiter = "done" => deque # <<>> \/ rclosed

(* The messages of s among the received ones.                               *)
OfSender(s) ==
    FlattenSeq([i \in DOMAIN deque |-> IF deque[i][1] = s THEN <<deque[i][2]>> ELSE <<>>])

Channel == INSTANCE InOrderChannel WITH
    Message <- 1..M, Lossy <- TRUE,
    transit <- [s \in Senders |-> OfSender(s) \o wire[s] \o sbuf[s]], got <- got

(* Whatever is dropped by errors, bad messages and closing, a sender's      *)
(* messages are received in the order they were sent, each at most once.    *)
WorkersRefineChannel == Channel!Spec

(* Without send errors and bad messages, no message is left in a socket     *)
(* that nothing will look at again.                                         *)
NeverDeaf ==
    ~faulty /\ at = "idle" /\ ~rclosed /\ (\E s \in Senders : wire[s] # <<>>) =>
        edge \/ soon

(* Without faults, no consumer sleeps on a queue that has an item.          *)
NoLostWakeup == ~faulty /\ at = "idle" /\ deque # <<>> => waiter # "pending"

(* No interleaving of the drain, the callbacks and the consumer's recv()    *)
(* loses a wake-up.                                                         *)
NoWakeupLost == ChannelTypeOK /\ NeverDeaf /\ NoLostWakeup

(* Without faults, what was sent is received in the end, or a side was      *)
(* closed; and in any case a closed receiver gives its consumer the None    *)
(* that ends the session's receive task.                                    *)
EveryMessageArrives ==
    <>[](/\ rclosed => ended
         /\ \/ faulty \/ rclosed
            \/ \A s \in Senders : sclosed[s] \/ Len(got[s]) = sent[s])

=============================================================================
