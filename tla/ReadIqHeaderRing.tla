-------------------------- MODULE ReadIqHeaderRing --------------------------
(***************************************************************************)
(* The packet loop of the Read IQ / Read RSSI command.                     *)
(*                                                                         *)
(* The CPU builds every packet header in a slot of a small ring of header  *)
(* buffers (ETH_IQ_buffer) and hands <<header slot, sample buffer>> to the *)
(* Ethernet driver as two transmit buffer descriptors (TX BDs).  The       *)
(* driver blocks only when it is out of TX BDs; the Ethernet DMA fetches   *)
(* the header from the slot some time later, concurrently with the CPU.    *)
(* Nothing but the sizes of the two pools keeps the CPU from rebuilding a  *)
(* slot whose packet the DMA has not fetched yet.                          *)
(*                                                                         *)
(* A header is abstracted to the number of the packet it describes.  The   *)
(* Ethernet driver and the DMA are a library outside src/: they are        *)
(* modelled from how the loop uses them.                                   *)
(***************************************************************************)
EXTENDS Integers, Sequences

CONSTANTS
    NumHdr,     \* WL_BASEBAND_ETH_NUM_BUFFER: header buffers in the ring
    NumBD,      \* eth_get_num_tx_descriptors(): TX BDs of the driver
    MaxPkts,    \* bound on the packets of one command
    MaxFails    \* bound on the sends that fail while the driver holds a
                \* packet of the command

ASSUME RingAssumption ==
    /\ NumHdr \in Nat \ {0}
    /\ NumBD \in Nat /\ NumBD >= 2
    /\ MaxPkts \in Nat \ {0}
    /\ MaxFails \in Nat

VARIABLES
    cpu,        \* "idle" | "build" | "send": where the packet loop is
    numPkts,    \* num_pkts of the command
    pkt,        \* i: the packet the loop is at
    hdrOffset,  \* header_offset, in slots
    ring,       \* ETH_IQ_buffer: the packet each slot's header describes
    queue,      \* packets the driver holds, two TX BDs each, oldest first
    others,     \* how many of them, the oldest, are of earlier commands
    fetched,    \* the DMA has read the header of the oldest packet
    wire,       \* packets of this command with the headers the DMA has read
    lost        \* packets of this command that were reported as not sent

loop == <<cpu, numPkts, pkt, hdrOffset>>
vars == <<loop, ring, queue, others, fetched, wire, lost>>

Slots == 0 .. NumHdr - 1

\* The value of a slot that no packet has used yet.
Stale == -1

BDsPerPacket == 2

FreeBDs == NumBD - BDsPerPacket * Len(queue)

\* baseband_check_parameters: the only check of the two sizes, at boot.
ParametersOk == NumBD <= BDsPerPacket * NumHdr

\* Condition of HeaderIntact and StreamSpec: what the driver can hold and the
\* sends that may fail meanwhile are fewer than the header buffers.  Without
\* failed sends this is the "more than half the number of TX BDs" of the
\* comment above the constants; the boot check admits one TX BD more.
Spare == NumBD \div BDsPerPacket + MaxFails < NumHdr

Init ==
    /\ ParametersOk
    /\ cpu = "idle"
    /\ numPkts = 0
    /\ pkt = 0
    /\ hdrOffset = 0
    /\ ring = [s \in Slots |-> Stale]
    /\ queue = <<>>
    /\ others = 0
    /\ fetched = FALSE
    /\ wire = <<>>
    /\ lost = {}

-----------------------------------------------------------------------------
(* The CPU: one Read IQ command                                            *)

\* A command with n packets starts at slot 0, whatever the driver holds.
StartRead(n) ==
    /\ cpu = "idle"
    /\ numPkts' = n
    /\ pkt' = 0
    /\ hdrOffset' = 0
    /\ cpu' = IF n = 0 THEN "idle" ELSE "build"
    /\ others' = Len(queue)
    /\ wire' = <<>>
    /\ lost' = {}
    /\ UNCHANGED <<ring, queue, fetched>>

\* Mutant: the loop counts on before it copies the header.
BuildHeaderNext ==
    /\ cpu = "build"
    /\ ring' = [ring EXCEPT ![hdrOffset] = pkt + 1]
    /\ cpu' = "send"
    /\ UNCHANGED <<numPkts, pkt, hdrOffset, queue, others, fetched, wire, lost>>

\* memcpy of the finished header into the current slot, before the send.
BuildHeader ==
    /\ cpu = "build"
    /\ ring' = [ring EXCEPT ![hdrOffset] = pkt]
    /\ cpu' = "send"
    /\ UNCHANGED <<numPkts, pkt, hdrOffset, queue, others, fetched, wire, lost>>

\* Mutant: the ring wraps one slot early.
NextSlotShort(s) == (s + 1) % (NumHdr - 1)

\* header_offset = (header_offset + BUFFER_SIZE) % header_buffer_size
NextSlot(s) == (s + 1) % NumHdr

\* Mutant: one packet too many.
AdvancePastEnd ==
    /\ hdrOffset' = NextSlot(hdrOffset)
    /\ pkt' = pkt + 1
    /\ cpu' = IF pkt = numPkts THEN "idle" ELSE "build"

\* End of the loop body: next slot, next packet.
Advance ==
    /\ hdrOffset' = NextSlot(hdrOffset)
    /\ pkt' = pkt + 1
    /\ cpu' = IF pkt + 1 = numPkts THEN "idle" ELSE "build"

\* socket_sendto_raw returns once two TX BDs were free to take the packet.
CanQueue == FreeBDs >= BDsPerPacket

SendPacket ==
    /\ cpu = "send"
    /\ CanQueue
    /\ queue' = Append(queue, [id |-> pkt, slot |-> hdrOffset])
    /\ Advance
    /\ UNCHANGED <<numPkts, ring, others, fetched, wire, lost>>

\* Sends that failed since the oldest packet of this command that the driver
\* holds; none if it holds none.
Failed ==
    IF others < Len(queue)
    THEN pkt - queue[others + 1].id - (Len(queue) - others)
    ELSE 0

\* Whether one more may fail: any number when nothing is sent at all.
MayFail == others = Len(queue) \/ Failed < MaxFails

\* Mutant: the failed packet is tried again until it goes out.
SendFailsRetried ==
    /\ cpu = "send"
    /\ MayFail
    /\ cpu' = "build"
    /\ UNCHANGED <<numPkts, pkt, hdrOffset, ring, queue, others, fetched, wire,
                   lost>>

\* WARP_IP_UDP_FAILURE of any packet: a warning is printed and the loop goes
\* on to the next packet and the next slot.
SendFails ==
    /\ cpu = "send"
    /\ MayFail
    /\ lost' = lost \cup {pkt}
    /\ Advance
    /\ UNCHANGED <<numPkts, ring, queue, others, fetched, wire>>

-----------------------------------------------------------------------------
(* The Ethernet DMA (external)                                             *)

\* The DMA reads the header of the oldest packet out of its slot.
FetchHeader ==
    /\ queue # <<>>
    /\ ~fetched
    /\ fetched' = TRUE
    /\ wire' = IF others > 0 THEN wire
               ELSE Append(wire, [data |-> Head(queue).id,
                                  header |-> ring[Head(queue).slot]])
    /\ UNCHANGED <<loop, ring, queue, others, lost>>

\* The samples are out as well: both TX BDs are free again.
FreePacket ==
    /\ queue # <<>>
    /\ fetched
    /\ fetched' = FALSE
    /\ queue' = Tail(queue)
    /\ others' = IF others > 0 THEN others - 1 ELSE 0
    /\ UNCHANGED <<loop, ring, wire, lost>>

-----------------------------------------------------------------------------
CpuStep == BuildHeader \/ SendPacket \/ SendFails

DmaStep == FetchHeader \/ FreePacket

Next ==
    \/ \E n \in 0 .. MaxPkts : StartRead(n)
    \/ CpuStep
    \/ DmaStep

Spec == Init /\ [][Next]_vars

\* The CPU is in the loop and the DMA engine runs on its own.
FairSpec == Spec /\ WF_vars(CpuStep) /\ WF_vars(DmaStep)

-----------------------------------------------------------------------------
(* Properties                                                              *)

\* The shape of the state: the type invariant of this module.  The driver
\* never holds more packets than it has TX BDs for.
TypeOK ==
    /\ cpu \in {"idle", "build", "send"}
    /\ numPkts \in 0 .. MaxPkts
    /\ pkt \in 0 .. MaxPkts
    /\ hdrOffset \in Slots
    /\ ring \in [Slots -> Nat \cup {Stale}]
    /\ queue \in Seq([id : Nat, slot : Slots])
    /\ others \in 0 .. Len(queue)
    /\ fetched \in BOOLEAN
    /\ wire \in Seq([data : Nat, header : Nat \cup {Stale}])
    /\ lost \in SUBSET Nat
    /\ FreeBDs >= 0

\* Packets of this command in the queue whose header the DMA has still to
\* read.
Unread ==
    {j \in 1 .. Len(queue) : j > others /\ (j > 1 \/ ~fetched)}

\* As long as the DMA has not read the header of a packet of this command,
\* the packet's slot holds the header of that very packet: there are enough
\* copies "to avoid overwriting the header before the DMA can transfer its
\* contents", whatever sends fail.  At the sizes of the source, which the
\* boot check admits and Spare does not, this is not so.
HeaderIntact == \A j \in Unread : ring[queue[j].slot] = queue[j].id

\* The wire carries the packets in order, each once, each under its own
\* header, and every packet that is left out was reported as not sent.
Stream == INSTANCE ReadIqStream WITH Packets <- 0 .. MaxPkts
StreamSpec == Stream!Spec

\* A command that started ends: back pressure from the driver delays the
\* loop and never stops it for good.
ReadEnds == cpu # "idle" ~> cpu = "idle"
=============================================================================
