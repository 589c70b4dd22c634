--------------------------- MODULE InOrderChannel ---------------------------
(***************************************************************************)
(* What the transports promise: every sender's messages reach the receiver *)
(* in the order they were sent, each at most once, and, unless the channel *)
(* is lossy, none is skipped.  The session, the aggregator and the worker  *)
(* loop rely on exactly this (session.py: "the transport is in-order").    *)
(***************************************************************************)
EXTENDS Sequences, Naturals

CONSTANTS Senders, Message, Lossy

VARIABLES
    transit,  \* per sender, the messages sent and not yet delivered
    got       \* per sender, the messages delivered

vars == <<transit, got>>

Init ==
    /\ transit = [s \in Senders |-> <<>>]
    /\ got = [s \in Senders |-> <<>>]

Send(s, m) ==
    /\ transit' = [transit EXCEPT ![s] = Append(@, m)]
    /\ UNCHANGED got

(* The receiver gets the next n messages of s.                              *)
Deliver(s, n) ==
    /\ got' = [got EXCEPT ![s] = @ \o SubSeq(transit[s], 1, n)]
    /\ transit' = [transit EXCEPT ![s] = SubSeq(@, n + 1, Len(@))]

(* The i-th message on the way is lost.                                     *)
Lose(s, i) ==
    /\ Lossy
    /\ transit' = [transit EXCEPT ![s] = SubSeq(@, 1, i - 1) \o SubSeq(@, i + 1, Len(@))]
    /\ UNCHANGED got

(* A sender that closes loses everything after the first n messages.        *)
Cut(s, n) ==
    /\ Lossy
    /\ transit' = [transit EXCEPT ![s] = SubSeq(@, 1, n)]
    /\ UNCHANGED got

Next ==
    \E s \in Senders :
        \/ \E m \in Message : Send(s, m)
        \/ \E n \in 1..Len(transit[s]) : Deliver(s, n) \/ Lose(s, n)
        \/ \E n \in 0..Len(transit[s]) : Cut(s, n)

Spec == Init /\ [][Next]_vars

=============================================================================
