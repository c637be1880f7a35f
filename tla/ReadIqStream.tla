---------------------------- MODULE ReadIqStream ----------------------------
(***************************************************************************)
(* What one Read IQ command promises on the wire: the packets of the       *)
(* transfer leave the node in order, each at most once, each under its own *)
(* sample header, and a packet is left out only if its send was reported   *)
(* as failed.  A new command starts a new stream.                          *)
(***************************************************************************)
EXTENDS Integers, Sequences

CONSTANT Packets    \* the numbers of packets, from 0

VARIABLES
    wire,           \* the packets that have left the node for this command
    lost            \* those reported as not sent

Init == wire = <<>> /\ lost = {}

\* The last packet that has left the node.
Latest == IF wire = <<>> THEN -1 ELSE wire[Len(wire)].data

\* Packet k leaves under the header that describes it; those between the
\* latest and k have been reported.
Emit(k) ==
    /\ k > Latest /\ k \notin lost
    /\ Latest + 1 .. k - 1 \subseteq lost
    /\ wire' = Append(wire, [data |-> k, header |-> k])
    /\ UNCHANGED lost

\* The send of packet k fails.
Lose(k) ==
    /\ k > Latest /\ k \notin lost
    /\ lost' = lost \cup {k}
    /\ UNCHANGED wire

\* Another command starts its own stream.
Restart == wire' = <<>> /\ lost' = {}

Next == (\E k \in Packets : Emit(k) \/ Lose(k)) \/ Restart

Spec == Init /\ [][Next]_<<wire, lost>>
=============================================================================
