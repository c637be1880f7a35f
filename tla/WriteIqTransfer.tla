--------------------------- MODULE WriteIqTransfer ---------------------------
(***************************************************************************)
(* Write IQ: the host's packet loop against the node's command handler.    *)
(*                                                                         *)
(* The host cuts a waveform into packets and sends them without waiting    *)
(* ("fast").  Both sides keep a Fletcher checksum of what was sent and     *)
(* what was accepted; the node's answer to the last packet tells the host  *)
(* whether the two agree, and if they do not the host starts over and      *)
(* waits for an answer to every packet ("slow").  A packet or an answer    *)
(* may be lost; an answer may come after the host has given up on it.      *)
(*                                                                         *)
(* A packet is <<transfer, number>>: transfers write different samples.    *)
(* The checksum is abstracted to the sequence of packets it was computed   *)
(* from, that is, it is taken to tell any two sequences apart.  Several    *)
(* transfers share one socket, which nothing empties in between.           *)
(***************************************************************************)
EXTENDS Integers, Sequences

CONSTANTS
    NumPkts,        \* num_pkts: packets of a transfer
    CheckChksum,    \* check_chksum
    Jumbo,          \* packets of 400 samples or more
    MaxRetry,       \* TRANSPORT_MAX_RETRY
    MaxEarly,       \* bound on the timeouts while an answer is under way
    MaxTransfers,   \* bound on the transfers of a behaviour
    MaxLoss,        \* bound on the datagrams lost
    MaxBusy,        \* bound on the transmissions and captures started
    MaxFlight,      \* bound on the commands in flight
    MaxLate         \* bound on the answers that the host's poll of the
                    \* socket does not see yet

ASSUME WriteIqAssumption ==
    /\ NumPkts \in Nat \ {0}
    /\ MaxRetry \in Nat
    /\ {CheckChksum, Jumbo} \subseteq BOOLEAN
    /\ {MaxTransfers, MaxLoss, MaxEarly, MaxBusy, MaxLate} \subseteq Nat
    /\ MaxFlight \in Nat \ {0}

VARIABLES
    pc,         \* "idle" | "send" | "poll" | "wait" | "done" | "dead"
    xfer,       \* sample_iq_id of the current or last transfer
    i,          \* the packet the loop is at
    slow,       \* slow_write
    retries,    \* num_retrys
    localSum,   \* local_checksum
    stray,      \* an answer of another transfer was taken as this one's
    toNode,     \* commands in flight, oldest first
    toHost,     \* answers in flight or in the socket, oldest first
    sum,        \* node: write_iq_checksum
    buf,        \* node: the transfer that last wrote each packet's samples
    txOn,       \* node: the buffer is transmitting
    txPos,      \* node: packets of the buffer that lie 16 kSamples or more
                \* behind the transmission
    rxOn,       \* node: a capture is running
    cont,       \* node: WL_BUF_REG_CONFIG_CONT_TX
    lost,       \* datagrams lost so far
    early,      \* timeouts so far while an answer was under way
    busied      \* transmissions and captures started so far

host == <<pc, xfer, i, slow, retries, localSum, stray>>
net == <<toNode, toHost, lost, early>>
core == <<txOn, txPos, rxOn, cont, busied>>
vars == <<host, net, sum, buf, core>>

Packets == 0 .. NumPkts - 1
LastPkt == NumPkts - 1

Init ==
    /\ pc = "idle"
    /\ xfer = 0
    /\ i = 0
    /\ slow = FALSE
    /\ retries = 0
    /\ localSum = <<>>
    /\ stray = FALSE
    /\ toNode = <<>>
    /\ toHost = <<>>
    /\ sum = <<>>
    /\ buf = [p \in Packets |-> 0]
    /\ txOn = FALSE
    /\ txPos = 0
    /\ rxOn = FALSE
    /\ cont = FALSE
    /\ lost = 0
    /\ early = 0
    /\ busied = 0

-----------------------------------------------------------------------------
(* The host                                                                *)

\* wl_write_baseband_buffer is called; an aborted call returns to MATLAB,
\* and a later call uses the same socket and the next IQ ID.
StartTransfer ==
    /\ pc \in {"idle", "done", "dead"}
    /\ xfer < MaxTransfers
    /\ pc' = "send"
    /\ xfer' = xfer + 1
    /\ i' = 0
    /\ slow' = FALSE
    /\ retries' = 0
    /\ stray' = FALSE
    /\ UNCHANGED <<localSum, net, sum, buf, core>>

\* Mutant: slow mode waits for the last packet only.
NeedRespAtEnd == i = LastPkt /\ CheckChksum

\* Every packet in slow mode, otherwise the last one.
NeedResp == slow \/ (i = LastPkt /\ CheckChksum)

\* One checksum rule for both sides: the first packet of a pass resets it.
UpdateChecksum(s, packet, reset) == IF reset THEN <<packet>> ELSE Append(s, packet)

\* The local checksum follows what is sent, retransmissions included.
SendPacket ==
    LET packet == <<xfer, i>>
    IN  /\ pc = "send"
        /\ Len(toNode) < MaxFlight
        /\ toNode' = Append(toNode, [packet |-> packet, robust |-> NeedResp])
        /\ localSum' = UpdateChecksum(localSum, packet, i = 0)
        /\ pc' = IF NeedResp THEN "wait" ELSE "poll"
        /\ UNCHANGED <<xfer, i, slow, retries, stray, toHost, lost, early, sum, buf, core>>

\* The step of the for loop.
NextPacket ==
    /\ i' = i + 1
    /\ pc' = IF i = LastPkt THEN "done" ELSE "send"

\* Mutant: the restart sets i = 0, which the loop then steps past.
StartOverAtSecond ==
    /\ i' = 1
    /\ pc' = "send"

\* i = -1: the pass starts again at the first packet.
StartOver ==
    /\ i' = 0
    /\ pc' = "send"

Die ==
    /\ pc' = "dead"
    /\ UNCHANGED i

\* Mutant: the checksum of a success is not compared.
VerdictUnchecked(m, checksum) ==
    IF m.id # xfer THEN "success" ELSE m.status

\* wl_process_write_iq_response: an answer with another IQ ID counts as a
\* success, and so does one of this transfer whose checksum agrees.
Verdict(m, checksum) ==
    CASE m.id # xfer           -> "success"
      [] m.status # "success"  -> m.status
      [] m.sum = checksum      -> "success"
      [] OTHER                 -> "mismatch"

\* Without a response to wait for, the loop looks at the socket once.  The
\* checksum of a success is compared with 0 and the outcome not used.
PollEmpty ==
    /\ pc = "poll"
    /\ Len(toHost) <= MaxLate
    /\ NextPacket
    /\ UNCHANGED <<xfer, slow, retries, localSum, stray, net, sum, buf, core>>

PollResponse ==
    LET verdict == Verdict(Head(toHost), <<>>)
    IN  /\ pc = "poll"
        /\ toHost # <<>>
        /\ toHost' = Tail(toHost)
        /\ \/ verdict = "error" /\ Die
           \/ verdict = "not_ready" /\ StartOver
           \/ verdict \in {"success", "mismatch"} /\ NextPacket
        /\ UNCHANGED <<xfer, slow, retries, localSum, stray, toNode, lost, early, sum, buf, core>>

\* Waiting for a response: a mismatch restarts in slow mode, or aborts the
\* call in slow mode.
WaitResponse ==
    LET m == Head(toHost)
        verdict == Verdict(m, localSum)
    IN  /\ pc = "wait"
        /\ toHost # <<>>
        /\ toHost' = Tail(toHost)
        /\ stray' = (stray \/ m.id # xfer)
        /\ slow' = (slow \/ verdict = "mismatch")
        /\ \/ verdict = "error" /\ Die
           \/ verdict = "not_ready" /\ StartOver
           \/ verdict = "mismatch" /\ IF slow THEN Die ELSE StartOver
           \/ verdict = "success" /\ NextPacket
        /\ UNCHANGED <<xfer, retries, localSum, toNode, lost, early, sum, buf, core>>

\* A timeout is early when the answer, or the command, is still under way.
CountEarly ==
    IF toNode = <<>> /\ toHost = <<>>
    THEN UNCHANGED early
    ELSE early < MaxEarly /\ early' = early + 1

\* Mutants: the timeout counter never moves; retries are not limited.
TimeoutNever == FALSE /\ UNCHANGED vars

TimeoutUnlimited ==
    /\ pc = "wait"
    /\ CountEarly
    /\ pc' = "send"
    /\ retries' = retries + 1
    /\ UNCHANGED <<xfer, i, slow, localSum, stray, toNode, toHost, lost, sum, buf, core>>

\* TRANSPORT_TIMEOUT polls found nothing: the packet is sent again, or the
\* call aborts.  The local checksum keeps the first transmission.
Timeout ==
    /\ pc = "wait"
    /\ CountEarly
    /\ IF retries >= MaxRetry
       THEN Die /\ UNCHANGED retries
       ELSE pc' = "send" /\ retries' = retries + 1 /\ UNCHANGED i
    /\ UNCHANGED <<xfer, slow, localSum, stray, toNode, toHost, lost, sum, buf, core>>

-----------------------------------------------------------------------------
(* The node                                                                *)

\* The guard of WRITE_IQ: a buffer that transmits may be written only well
\* behind the transmission, and a jumbo packet not at all during a capture.
Busy(p) == (rxOn /\ Jumbo) \/ (txOn /\ p >= txPos)

Answer(command, status, checksum) ==
    [id |-> command.packet[1], status |-> status, sum |-> checksum]

\* The command is refused: the node answers whether asked to or not.
RefuseWrite ==
    LET command == Head(toNode)
    IN  /\ toNode # <<>>
        /\ Busy(command.packet[2])
        /\ toNode' = Tail(toNode)
        /\ toHost' = Append(toHost,
               Answer(command, IF cont THEN "error" ELSE "not_ready", <<>>))
        /\ UNCHANGED <<host, lost, early, sum, buf, core>>

\* The command is carried out, and answered if the host asked for it.
AcceptWrite ==
    LET command == Head(toNode)
        p == command.packet[2]
        s == UpdateChecksum(sum, command.packet, p = 0)
    IN  /\ toNode # <<>>
        /\ ~Busy(p)
        /\ toNode' = Tail(toNode)
        /\ sum' = s
        /\ buf' = [buf EXCEPT ![p] = command.packet[1]]
        /\ toHost' = IF command.robust
                     THEN Append(toHost, Answer(command, "success", s))
                     ELSE toHost
        /\ UNCHANGED <<host, lost, early, core>>

-----------------------------------------------------------------------------
(* The environment: triggers, other commands and the network               *)

StartTx(mode) ==
    /\ ~txOn /\ busied < MaxBusy
    /\ txOn' = TRUE
    /\ txPos' = 0
    /\ cont' = mode
    /\ busied' = busied + 1
    /\ UNCHANGED <<host, net, sum, buf, rxOn>>

\* The transmission proceeds; a continuous one returns to the start.
AdvanceTx ==
    /\ txOn
    /\ \/ txPos < NumPkts /\ txPos' = txPos + 1
       \/ cont /\ txPos # 0 /\ txPos' = 0
    /\ UNCHANGED <<host, net, sum, buf, txOn, rxOn, cont, busied>>

\* A finite transmission ends; a continuous one is stopped by the host, by
\* a command between two transfers, behind all those already sent.
EndTx ==
    /\ txOn
    /\ cont => pc \in {"idle", "done", "dead"} /\ toNode = <<>>
    /\ txOn' = FALSE
    /\ txPos' = 0
    /\ cont' = FALSE
    /\ UNCHANGED <<host, net, sum, buf, rxOn, busied>>

StartRx ==
    /\ ~rxOn /\ busied < MaxBusy
    /\ rxOn' = TRUE
    /\ busied' = busied + 1
    /\ UNCHANGED <<host, net, sum, buf, txOn, txPos, cont>>

EndRx ==
    /\ rxOn
    /\ rxOn' = FALSE
    /\ UNCHANGED <<host, net, sum, buf, txOn, txPos, cont, busied>>

LoseCommand ==
    /\ toNode # <<>> /\ lost < MaxLoss
    /\ toNode' = Tail(toNode)
    /\ lost' = lost + 1
    /\ UNCHANGED <<host, toHost, early, sum, buf, core>>

LoseAnswer ==
    /\ toHost # <<>> /\ lost < MaxLoss
    /\ toHost' = Tail(toHost)
    /\ lost' = lost + 1
    /\ UNCHANGED <<host, toNode, early, sum, buf, core>>

HostStep == SendPacket \/ PollEmpty \/ PollResponse \/ WaitResponse \/ Timeout
NodeStep == RefuseWrite \/ AcceptWrite

Next ==
    \/ StartTransfer
    \/ HostStep
    \/ NodeStep
    \/ \E mode \in BOOLEAN : StartTx(mode)
    \/ AdvanceTx
    \/ EndTx
    \/ StartRx
    \/ EndRx
    \/ LoseCommand
    \/ LoseAnswer

Spec == Init /\ [][Next]_vars

\* The host's loop and the node's main loop keep running; transmissions and
\* captures of a given length end.
FairSpec ==
    /\ Spec
    /\ WF_vars(SendPacket \/ PollEmpty \/ PollResponse \/ WaitResponse)
    /\ WF_vars(Timeout)
    /\ WF_vars(NodeStep)
    /\ WF_vars(EndTx)
    /\ WF_vars(EndRx)

-----------------------------------------------------------------------------
(* Properties                                                              *)

Sums == Seq((1 .. MaxTransfers) \X Packets)

\* Every variable keeps its type; the packet loop of wl_write_baseband_buffer
\* never runs past its last packet.
TypeOK ==
    /\ pc \in {"idle", "send", "poll", "wait", "done", "dead"}
    /\ xfer \in 0 .. MaxTransfers
    /\ i \in 0 .. NumPkts
    /\ (pc = "done") = (i = NumPkts)
    /\ retries \in 0 .. MaxRetry
    /\ txPos \in 0 .. NumPkts
    /\ {slow, stray, txOn, rxOn, cont} \subseteq BOOLEAN
    /\ {localSum, sum} \subseteq Sums
    /\ buf \in [Packets -> 0 .. MaxTransfers]
    /\ lost \in 0 .. MaxLoss
    /\ early \in 0 .. MaxEarly
    /\ busied \in 0 .. MaxBusy
    /\ Len(toNode) <= MaxFlight

Written == \A p \in Packets : buf[p] = xfer

\* A transfer that ended on answers of its own, with the checksum checked,
\* has put every one of its packets into the node's buffer, whatever was
\* lost, refused or sent twice on the way.
AckMeansWritten == pc = "done" /\ CheckChksum /\ ~stray => Written

\* In slow mode the host moves past a packet only once the node holds it.
SlowPrefixWritten ==
    pc \in {"send", "wait"} /\ slow /\ ~stray =>
        \A p \in Packets : p < i => buf[p] = xfer

\* Any transfer with its checksum checked that ends without an error has
\* written all of its packets ("Only process packets for the current
\* sample_iq_id", wl_process_write_iq_response).
DoneMeansWritten == pc = "done" /\ CheckChksum => Written

\* The host gives a transfer up only after MaxRetry retransmissions ("Roll
\* everything back and retransmit the packet") or in continuous transmit.
AbortsOnlyAtMaxRetry ==
    [][pc # "dead" /\ pc' = "dead" => retries >= MaxRetry \/ cont]_vars

\* One lost datagram never costs a transfer, in whichever pass and packet it
\* falls, unless the host also timed out early or the node was busy.
OneLossRepaired ==
    [][pc # "dead" /\ pc' = "dead" => lost > 1 \/ early' > 0 \/ busied > 0]_vars

\* Every transfer ends, one way or the other.
TransferEnds == pc = "send" ~> pc \in {"done", "dead"}
=============================================================================
