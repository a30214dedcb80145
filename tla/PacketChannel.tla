---------------------------- MODULE PacketChannel ----------------------------
(***************************************************************************)
(* What framing promises in one direction of a connection: the receiver    *)
(* takes whole packets, exactly those that were sent, in their order, each *)
(* once, however the network cuts the bytes.                               *)
(***************************************************************************)
EXTENDS Naturals, Sequences

CONSTANT Packet  \* what can be sent

VARIABLES sentPackets,  \* the packets given to the sender, in order
          received      \* the packets the receiver has handled, in order

vars == <<sentPackets, received>>

Init == sentPackets = <<>> /\ received = <<>>

Send == \E p \in Packet : sentPackets' = Append(sentPackets, p) /\ UNCHANGED received

Receive == /\ Len(received) < Len(sentPackets)
           /\ received' = Append(received, sentPackets[Len(received) + 1])
           /\ UNCHANGED sentPackets

Spec == Init /\ [][Send \/ Receive]_vars
=============================================================================
