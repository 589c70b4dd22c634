----------------------------- MODULE MCTransport -----------------------------
(***************************************************************************)
(* The two transports of a run, the event bus and the channel of the       *)
(* workers, one per initial state: each implements InOrderChannel.         *)
(***************************************************************************)
EXTENDS EventBus, WorkerChannel

VARIABLE transport

vars == <<transport, busVars, channelVars>>

Init ==
    \/ transport = "bus" /\ BusInit /\ ChannelIdle
    \/ transport = "workers" /\ BusInit /\ ChannelInit

Next ==
    \/ transport = "bus" /\ BusNext /\ UNCHANGED <<transport, channelVars>>
    \/ transport = "workers" /\ ChannelNext /\ UNCHANGED <<transport, busVars>>

(* Nothing of the other transport is enabled, so its fairness asks nothing. *)
Spec == Init /\ [][Next]_vars /\ BusFairness /\ ChannelFairness

(* Both transports implement the channel the rest of the system relies on:  *)
(* in order, nothing twice, and on the bus nothing lost.                    *)
TransportsAreInOrder == BusRefinesChannel /\ WorkersRefineChannel

=============================================================================
