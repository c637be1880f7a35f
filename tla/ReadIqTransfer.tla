--------------------------- MODULE ReadIqTransfer ---------------------------
(***************************************************************************)
(* Read IQ / Read RSSI: the host's receive loop against the node.          *)
(*                                                                         *)
(* The MEX function splits a read into requests that fit the socket buffer *)
(* and receives the packets of each request in whatever order they come.   *)
(* A tracker remembers the start sample of every packet; a timeout, or a   *)
(* sum over the tracker that does not come out, makes the host ask again   *)
(* for everything after the longest prefix that arrived in order.          *)
(*                                                                         *)
(* A sample is abstracted to the read whose request it answers.  The node  *)
(* sends the packets of a request in one go (ReadIqHeaderRing has the      *)
(* detail); a request or a packet may be lost, or come after the host has  *)
(* given up on it.                                                         *)
(***************************************************************************)
EXTENDS Integers, Sequences, FiniteSetsExt

CONSTANTS
    NumSamples,     \* num_samples of a read
    MaxSamp,        \* max_length >> 2: samples of a full packet
    UsefulPkts,     \* useful_rx_buffer_size / max_length, a whole number
    MaxRetry,       \* TRANSPORT_MAX_RETRY
    MaxIqRetry,     \* SAMPLE_IQ_MAX_RETRY
    Patient,        \* TRUE if TRANSPORT_TIMEOUT outlasts every answer
    MaxReads,       \* bound on the reads of a behaviour
    MaxLoss,        \* bound on the datagrams lost
    MaxDefer        \* bound on the requests that find a capture running

ASSUME ReadIqAssumption ==
    /\ {NumSamples, MaxSamp, UsefulPkts} \subseteq Nat \ {0}
    /\ {MaxRetry, MaxIqRetry, MaxReads, MaxLoss, MaxDefer} \subseteq Nat
    /\ Patient \in BOOLEAN

VARIABLES
    pc,         \* "idle" | "send" | "receive" | "done" | "dead"
    read,       \* number of the current or last read
    left,       \* i: packets of the read not yet asked for, this request's
                \* included
    req,        \* the request: start_sample, num_samples and num_pkts
    args,       \* command_args: what is asked for of it
    tracker,    \* sample_tracker: start and size of the packets received
    rcvd,       \* rcvd_pkts
    numRcvd,    \* num_rcvd_samples
    retries,    \* num_retrys
    iqRetries,  \* num_iq_retrys
    out,        \* output_array: the read each sample came from
    toNode,     \* requests in flight, oldest first
    toHost,     \* packets in flight or in the socket, oldest first
    lost,       \* datagrams lost so far
    deferred    \* requests deferred so far

host == <<pc, read, left, req, args, tracker, rcvd, numRcvd, retries, iqRetries, out>>
vars == <<host, toNode, toHost, lost, deferred>>

CeilDiv(n, d) == (n + d - 1) \div d

\* num_pkts of the read, computed in MATLAB.
NumPkts == CeilDiv(NumSamples, MaxSamp)

\* Start samples a packet may have; past NumSamples only by a wrong request.
Positions == 0 .. NumPkts * MaxSamp - 1

Request(start, num, pkts) == [start |-> start, num |-> num, pkts |-> pkts]
NoRequest == Request(0, 0, 0)
NoPacket == [start |-> 0, num |-> 0]

Init ==
    /\ pc = "idle"
    /\ read = 0
    /\ left = 0
    /\ req = NoRequest
    /\ args = NoRequest
    /\ tracker = <<>>
    /\ rcvd = 0
    /\ numRcvd = 0
    /\ retries = 0
    /\ iqRetries = 0
    /\ out = [p \in Positions |-> 0]
    /\ toNode = <<>>
    /\ toHost = <<>>
    /\ lost = 0
    /\ deferred = 0

-----------------------------------------------------------------------------
(* Requests                                                                *)

\* The whole read fits the socket buffer.
OneRequest == NumSamples < UsefulPkts * MaxSamp

\* Mutant: the last request is as large as the others.
NextRequestFull(start, i) ==
    IF OneRequest
    THEN Request(start, NumSamples, NumPkts)
    ELSE Request(start, UsefulPkts * MaxSamp, UsefulPkts)

\* The request at start when i packets are left.  The last one asks for
\* the samples that remain.
NextRequest(start, i) ==
    IF OneRequest
    THEN Request(start, NumSamples, NumPkts)
    ELSE IF i < UsefulPkts
    THEN Request(start, NumSamples - (NumPkts - i) * MaxSamp, i)
    ELSE Request(start, UsefulPkts * MaxSamp, UsefulPkts)

\* A call of wl_read_baseband_buffer: a fresh tracker and fresh counters.
Call(start, i) ==
    /\ req' = NextRequest(start, i)
    /\ args' = req'
    /\ left' = i
    /\ tracker' = [k \in 1 .. req'.pkts |-> NoPacket]
    /\ rcvd' = 0
    /\ numRcvd' = 0
    /\ retries' = 0
    /\ iqRetries' = 0
    /\ pc' = "send"

StartRead ==
    /\ pc \in {"idle", "done", "dead"}
    /\ read < MaxReads
    /\ read' = read + 1
    /\ Call(0, NumPkts)
    /\ UNCHANGED <<out, toNode, toHost, lost, deferred>>

\* The request, or a repetition of it, goes out with the arguments set last.
SendRequest ==
    /\ pc = "send"
    /\ toNode' = Append(toNode, [id |-> read, args |-> args])
    /\ pc' = "receive"
    /\ UNCHANGED <<read, left, req, args, tracker, rcvd, numRcvd, retries, iqRetries,
                   out, toHost, lost, deferred>>

-----------------------------------------------------------------------------
(* Errors                                                                  *)

\* Mutant: the packets received are taken to be the first ones.
InOrderCount(t, n) == n

\* wl_read_iq_find_error: the packets at the front of the tracker that are
\* in order.  (The inner loop of the search looks at element i every time.)
InOrder(t, n) ==
    Max({k \in 0 .. n : \A j \in 1 .. k : t[j].start = req.start + (j - 1) * MaxSamp})

\* wl_read_iq_sample_error: the sizes and the start samples of a tracker of
\* n packets do not add up.
SampleError(t, n) ==
    LET nums   == MapThenSumSet(LAMBDA j : t[j].num, 1 .. n)
        starts == MapThenSumSet(LAMBDA j : t[j].start, 1 .. n)
    IN  \/ nums # req.num
        \/ starts # n * req.start + ((n * (n - 1)) \div 2) * MaxSamp

\* What comes after the first k packets of the request.
Remainder(k) ==
    Request(req.start + k * MaxSamp, req.num - k * MaxSamp, req.pkts - k)

\* num_samples - err_num_samples, if the error is among what was received.
CountAfter(k) == IF k < rcvd THEN k * MaxSamp ELSE numRcvd

\* TRANSPORT_TIMEOUT polls found nothing.  Packets past the prefix that is in
\* order are given up.
Timeout ==
    LET k == InOrder(tracker, rcvd)
    IN  /\ pc = "receive"
        /\ Patient => toNode = <<>> /\ toHost = <<>>
        /\ IF retries >= MaxRetry
           THEN /\ pc' = "dead"
                /\ UNCHANGED <<args, rcvd, numRcvd, retries>>
           ELSE /\ pc' = "send"
                /\ args' = Remainder(k)
                /\ rcvd' = k
                /\ numRcvd' = CountAfter(k)
                /\ retries' = retries + 1
        /\ UNCHANGED <<read, left, req, tracker, iqRetries, out, toNode, toHost,
                       lost, deferred>>

-----------------------------------------------------------------------------
(* Answers                                                                 *)

\* The node is not ready: the host waits and sends its last request again,
\* and only then looks whether it has done so too often.
ReceiveNotReady ==
    /\ pc = "receive"
    /\ toHost # <<>> /\ ~Head(toHost).ready
    /\ toHost' = Tail(toHost)
    /\ toNode' = Append(toNode, [id |-> read, args |-> args])
    /\ iqRetries' = iqRetries + 1
    /\ pc' = IF iqRetries' > MaxIqRetry THEN "dead" ELSE "receive"
    /\ UNCHANGED <<read, left, req, args, tracker, rcvd, numRcvd, retries, out,
                   lost, deferred>>

\* A packet's samples go where its header says, whichever request it answers.
Place(m) ==
    [p \in Positions |-> IF p \in m.start .. m.start + m.num - 1 THEN m.id ELSE out[p]]

\* Mutant: one packet more than the tracker has room for.
ContinueOneMore(t, n, num) ==
    /\ n <= req.pkts
    /\ tracker' = t
    /\ rcvd' = n
    /\ numRcvd' = num
    /\ iqRetries' = 0
    /\ UNCHANGED <<pc, left, req, args, retries>>

\* A packet that is not the last one of the request.
Continue(t, n, num) ==
    /\ n < req.pkts
    /\ tracker' = t
    /\ rcvd' = n
    /\ numRcvd' = num
    /\ iqRetries' = 0
    /\ UNCHANGED <<pc, left, req, args, retries>>

\* Mutant: the loop over the requests ends one packet early.
LastRequestEarly == OneRequest \/ left <= UsefulPkts + 1

LastRequest == OneRequest \/ left <= UsefulPkts

\* The last one, and the tracker adds up: the next request, or the end.
Complete(t, n) ==
    /\ n = req.pkts
    /\ ~SampleError(t, n)
    /\ IF LastRequest
       THEN /\ pc' = "done"
            /\ tracker' = t
            /\ rcvd' = n
            /\ numRcvd' = req.num
            /\ left' = 0
            /\ iqRetries' = 0
            /\ UNCHANGED <<req, args, retries>>
       ELSE Call(req.start + req.num, left - req.pkts)

\* The last one, and the tracker does not add up: ask again for what follows
\* the prefix in order, unless that is everything or it was tried too often.
Repeat(t, n, num) ==
    LET k == InOrder(t, n)
    IN  /\ n = req.pkts
        /\ SampleError(t, n)
        /\ tracker' = t
        /\ iqRetries' = 0
        /\ IF retries >= MaxRetry \/ k = n
           THEN /\ pc' = "dead"
                /\ rcvd' = n
                /\ numRcvd' = num
                /\ UNCHANGED <<args, retries>>
           ELSE /\ pc' = "send"
                /\ args' = Remainder(k)
                /\ rcvd' = k
                /\ numRcvd' = k * MaxSamp
                /\ retries' = retries + 1
        /\ UNCHANGED <<left, req>>

ReceivePacket ==
    LET m == Head(toHost)
        t == [tracker EXCEPT ![rcvd + 1] = [start |-> m.start, num |-> m.num]]
    IN  /\ pc = "receive"
        /\ toHost # <<>> /\ m.ready
        /\ toHost' = Tail(toHost)
        /\ out' = Place(m)
        /\ \/ Continue(t, rcvd + 1, numRcvd + m.num)
           \/ Complete(t, rcvd + 1)
           \/ Repeat(t, rcvd + 1, numRcvd + m.num)
        /\ UNCHANGED <<read, toNode, lost, deferred>>

-----------------------------------------------------------------------------
(* The node and the environment                                            *)

\* The j-th packet of an answer; only the last one may be short.
Packet(id, a, j) ==
    LET start == a.start + (j - 1) * MaxSamp
        rest  == a.start + a.num - start
    IN  [ready |-> TRUE, id |-> id, start |-> start,
         num |-> IF rest < MaxSamp THEN rest ELSE MaxSamp]

\* Mutant: i <= num_pkts in the packet loop.
PacketsOneMore(m) == [j \in 1 .. m.args.pkts + 1 |-> Packet(m.id, m.args, j)]

PacketsOf(m) == [j \in 1 .. m.args.pkts |-> Packet(m.id, m.args, j)]

\* READ_IQ: all packets of the request, in order.
AnswerRequest ==
    LET m == Head(toNode)
    IN  /\ toNode # <<>>
        /\ toNode' = Tail(toNode)
        /\ toHost' = toHost \o PacketsOf(m)
        /\ UNCHANGED <<host, lost, deferred>>

\* A request for a buffer that is being received may come too early for it
\* (RxCapture has the condition).
DeferRequest ==
    /\ toNode # <<>>
    /\ deferred < MaxDefer
    /\ toNode' = Tail(toNode)
    /\ toHost' = Append(toHost,
           [ready |-> FALSE, id |-> Head(toNode).id, start |-> 0, num |-> 0])
    /\ deferred' = deferred + 1
    /\ UNCHANGED <<host, lost>>

LoseRequest ==
    /\ toNode # <<>> /\ lost < MaxLoss
    /\ toNode' = Tail(toNode)
    /\ lost' = lost + 1
    /\ UNCHANGED <<host, toHost, deferred>>

LosePacket ==
    /\ toHost # <<>> /\ lost < MaxLoss
    /\ toHost' = Tail(toHost)
    /\ lost' = lost + 1
    /\ UNCHANGED <<host, toNode, deferred>>

HostStep == SendRequest \/ ReceiveNotReady \/ ReceivePacket

Next ==
    \/ StartRead
    \/ HostStep
    \/ Timeout
    \/ AnswerRequest
    \/ DeferRequest
    \/ LoseRequest
    \/ LosePacket

Spec == Init /\ [][Next]_vars

\* The receive loop and the node's main loop keep running.
FairSpec ==
    /\ Spec
    /\ WF_vars(HostStep)
    /\ WF_vars(Timeout)
    /\ WF_vars(AnswerRequest \/ DeferRequest)

-----------------------------------------------------------------------------
(* Properties                                                              *)

\* Every variable keeps its type, and the host never has more packets of a
\* request than its tracker (malloc of num_pkts entries) has room for.
TypeOK ==
    /\ pc \in {"idle", "send", "receive", "done", "dead"}
    /\ read \in 0 .. MaxReads
    /\ left \in 0 .. NumPkts
    /\ rcvd \in 0 .. Len(tracker)
    /\ pc = "receive" => rcvd < Len(tracker)
    /\ Len(tracker) = req.pkts
    /\ args.pkts \in 0 .. req.pkts
    /\ retries \in 0 .. MaxRetry
    /\ iqRetries \in 0 .. MaxIqRetry + 1
    /\ out \in [Positions -> 0 .. MaxReads]
    /\ deferred \in 0 .. MaxDefer

\* When a read returns, every sample in the output came for this read.
ReturnsThisRead == pc = "done" => \A p \in 0 .. NumSamples - 1 : out[p] = read

\* No packet of a finished read is left for the next one to take: neither end
\* of the exchange carries an identifier that would tell them apart.
NothingLeftOver == pc = "done" => toNode = <<>> /\ toHost = <<>>

\* The requests of a read stay within the samples, and the output array, the
\* caller asked for ("If we are requesting the last set of packets, then just
\* request the remaining samples").
WithinOutput == args.start + args.num <= NumSamples

\* A completed request has each of its packets ("This check will detect
\* duplicate packets or sample indexing errors").
NoPacketMissing ==
    pc = "done" =>
        \A k \in 0 .. req.pkts - 1 :
            \E j \in 1 .. req.pkts : tracker[j].start = req.start + k * MaxSamp

\* Nothing is given up while the host still waits for it: a timeout outlasts
\* the answers, and the node is not asked in vain too often.
Undisturbed == Patient /\ MaxDefer <= MaxIqRetry

\* A read that has sent a request completes.
Completes == pc = "send" ~> pc = "done"
=============================================================================
