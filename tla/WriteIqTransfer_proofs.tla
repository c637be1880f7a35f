----------------------- MODULE WriteIqTransfer_proofs -----------------------
(***************************************************************************)
(* Proof, for every number of packets, retries and losses, that a checksum *)
(* that agreed means that the node has every packet.                       *)
(*                                                                         *)
(* AckMeansWritten is not inductive.  WriteInv adds the chain it hangs by: *)
(* commands reach the node in the order of their transfers, so that no     *)
(* later transfer's samples are overwritten by an earlier one's (InOrder); *)
(* what is in a node's checksum, at the node or in an answer, is in its    *)
(* buffer (Founded); the host's checksum covers all packets up to the      *)
(* loop's (Covered); and only a fast pass goes on without an answer, never *)
(* past its last packet if the checksum counts (Polls).                    *)
(***************************************************************************)
EXTENDS WriteIqTransfer, TLAPS

Ids == 1 .. MaxTransfers

Commands == [packet : Ids \X Packets, robust : BOOLEAN]

Statuses == {"success", "error", "not_ready"}

Answers == [id : Ids, status : Statuses, sum : Sums]

TypedHost ==
    /\ pc \in {"idle", "send", "poll", "wait", "done", "dead"}
    /\ xfer \in 0 .. MaxTransfers
    /\ i \in 0 .. NumPkts
    /\ pc = "done" <=> i = NumPkts
    /\ retries \in 0 .. MaxRetry
    /\ localSum \in Sums

TypedNet ==
    /\ toNode \in Seq(Commands) /\ Len(toNode) <= MaxFlight
    /\ toHost \in Seq(Answers)
    /\ lost \in 0 .. MaxLoss /\ early \in 0 .. MaxEarly

TypedNode ==
    /\ sum \in Sums
    /\ buf \in [Packets -> 0 .. MaxTransfers]
    /\ txPos \in 0 .. NumPkts
    /\ busied \in 0 .. MaxBusy

Flags ==
    /\ slow \in BOOLEAN /\ stray \in BOOLEAN
    /\ txOn \in BOOLEAN /\ rxOn \in BOOLEAN /\ cont \in BOOLEAN

Typed == TypedHost /\ TypedNet /\ TypedNode /\ Flags

InOrder ==
    \A k \in 1 .. Len(toNode) :
        /\ toNode[k].packet[1] <= xfer
        /\ \A p \in Packets : buf[p] <= toNode[k].packet[1]
        /\ \A j \in 1 .. k : toNode[j].packet[1] <= toNode[k].packet[1]

(* The packets of the current transfer in s are in the buffer. *)
Holds(s) ==
    \A k \in 1 .. Len(s) :
        s[k][1] <= xfer /\ (s[k][1] = xfer => buf[s[k][2]] = xfer)

Founded ==
    /\ Holds(sum)
    /\ \A k \in 1 .. Len(toHost) : Holds(toHost[k].sum)
    /\ \A p \in Packets : buf[p] <= xfer

(* The host's checksum covers the first n packets of the transfer. *)
Covers(n) ==
    \A p \in 0 .. n - 1 :
        \E k \in 1 .. Len(localSum) : localSum[k] = <<xfer, p>>

Covered ==
    /\ pc = "send" => Covers(i)
    /\ pc \in {"poll", "wait"} => Covers(i + 1)

Polls ==
    pc = "poll" => ~slow /\ (i = LastPkt => ~CheckChksum)

Looping == pc \in {"send", "poll", "wait"} => i \in Packets /\ xfer \in Ids

WriteInv ==
    /\ Typed
    /\ InOrder /\ Founded /\ Covered /\ Polls /\ Looping
    /\ AckMeansWritten /\ SlowPrefixWritten

-----------------------------------------------------------------------------
LEMMA Constants ==
    /\ NumPkts \in Nat /\ NumPkts >= 1
    /\ CheckChksum \in BOOLEAN
    /\ MaxTransfers \in Nat /\ MaxRetry \in Nat /\ MaxLoss \in Nat
    /\ MaxEarly \in Nat /\ MaxBusy \in Nat /\ MaxFlight \in Nat
    /\ LastPkt \in Packets
  BY WriteIqAssumption DEF LastPkt, Packets

LEMMA TypedIsTypeOK == Typed => TypeOK
  BY DEF Typed, TypedHost, TypedNet, TypedNode, Flags, TypeOK

LEMMA SumEntries ==
    ASSUME NEW s \in Sums
    PROVE  /\ Len(s) \in Nat
           /\ \A k \in 1 .. Len(s) :
                 /\ s[k] \in Ids \X Packets
                 /\ s[k][1] \in Ids /\ s[k][2] \in Packets
  BY DEF Sums, Ids

LEMMA AppendSum ==
    ASSUME NEW s \in Sums, NEW e \in Ids \X Packets
    PROVE  /\ Append(s, e) \in Sums /\ <<e>> \in Sums
           /\ Len(Append(s, e)) = Len(s) + 1 /\ Len(<<e>>) = 1
           /\ \A k \in 1 .. Len(s) : Append(s, e)[k] = s[k]
           /\ Append(s, e)[Len(s) + 1] = e /\ <<e>>[1] = e
  BY DEF Sums, Ids

LEMMA CommandEntries ==
    ASSUME NEW s \in Seq(Commands), NEW k \in 1 .. Len(s)
    PROVE  /\ s[k] \in Commands
           /\ s[k].packet[1] \in Ids /\ s[k].packet[2] \in Packets
<1>1. s[k] \in Commands
  OBVIOUS
<1>2. s[k].packet \in Ids \X Packets
  BY <1>1 DEF Commands
<1> QED
  BY <1>1, <1>2

LEMMA AnswerEntries ==
    ASSUME NEW s \in Seq(Answers), NEW k \in 1 .. Len(s)
    PROVE  /\ s[k] \in Answers
           /\ s[k].id \in Ids /\ s[k].status \in Statuses
           /\ s[k].sum \in Sums
<1>1. s[k] \in Answers
  OBVIOUS
<1> QED
  BY <1>1 DEF Answers

LEMMA InitWrite == Init => WriteInv
<1> SUFFICES ASSUME Init PROVE WriteInv
  OBVIOUS
<1> USE Constants DEF Init
<1>1. Typed
<2>1. <<>> \in Sums /\ toNode \in Seq(Commands) /\ toHost \in Seq(Answers)
  BY DEF Sums
<2> QED
  BY <2>1 DEF Typed, TypedHost, TypedNet, TypedNode, Flags, Packets
<1>2. InOrder /\ Founded
  BY DEF InOrder, Founded, Holds, Packets
<1>3. Covered /\ Polls /\ Looping
  BY DEF Covered, Polls, Looping
<1>4. AckMeansWritten /\ SlowPrefixWritten
  BY DEF AckMeansWritten, SlowPrefixWritten
<1> QED
  BY <1>1, <1>2, <1>3, <1>4 DEF WriteInv

(* What an agreeing checksum proves. *)
LEMMA Agreement ==
    ASSUME WriteInv, NEW n \in Nat, Covers(n), Holds(localSum)
    PROVE  \A p \in Packets : p < n => buf[p] = xfer
<1> SUFFICES ASSUME NEW p \in Packets, p < n PROVE buf[p] = xfer
  OBVIOUS
<1>0. p \in 0 .. n - 1
  BY Constants DEF Packets
<1>1. PICK k \in 1 .. Len(localSum) : localSum[k] = <<xfer, p>>
  BY <1>0, Zenon DEF Covers
<1>2. localSum[k][1] = xfer /\ localSum[k][2] = p
  BY <1>1
<1> QED
  BY <1>2 DEF Holds

-----------------------------------------------------------------------------
(* The host.                                                               *)

LEMMA StartTransferStep ==
    ASSUME WriteInv, StartTransfer
    PROVE  WriteInv'
<1> USE Constants DEF WriteInv, StartTransfer, net, core
<1>0. xfer \in Nat /\ xfer' = xfer + 1 /\ xfer' \in 0 .. MaxTransfers
  BY DEF Typed, TypedHost, TypedNet, TypedNode
<1>1. Typed'
<2>1. TypedHost'
  BY <1>0 DEF Typed, TypedHost
<2>2. TypedNet'
  BY DEF Typed, TypedNet
<2>3. TypedNode'
  BY DEF Typed, TypedNode
<2>4. Flags'
  BY DEF Typed, Flags
<2> QED
  BY <2>1, <2>2, <2>3, <2>4 DEF Typed
<1>2. InOrder'
<2>1. \A k \in 1 .. Len(toNode) : toNode[k].packet[1] \in Nat
  BY CommandEntries DEF Typed, TypedNet, Ids
<2> QED
  BY <1>0, <2>1 DEF InOrder
<1>3. \A s \in Sums : Holds(s) => Holds(s)'
  BY <1>0, SumEntries DEF Holds, Ids
<1>4. Founded'
<2>1. \A k \in 1 .. Len(toHost) : toHost[k].sum \in Sums
  BY AnswerEntries DEF Typed, TypedNet
<2> QED
  BY <1>0, <1>3, <2>1 DEF Founded, Typed, TypedHost, TypedNet, TypedNode
<1>5. Covered' /\ Polls' /\ Looping'
  BY DEF Covered, Covers, Polls, Looping, Typed, TypedHost, TypedNet, TypedNode, Packets, Ids
<1>6. AckMeansWritten' /\ SlowPrefixWritten'
  BY DEF AckMeansWritten, SlowPrefixWritten
<1> QED
  BY <1>1, <1>2, <1>4, <1>5, <1>6

LEMMA SendPacketStep ==
    ASSUME WriteInv, SendPacket
    PROVE  WriteInv'
<1> USE Constants DEF WriteInv, SendPacket, core
<1>1. i \in Packets /\ xfer \in Ids
  BY DEF Looping
<1>0. <<xfer, i>> \in Ids \X Packets
  BY <1>1
<1>2. PICK c \in Commands :
          /\ c.packet = <<xfer, i>>
          /\ toNode' = Append(toNode, c)
<2>1. NeedResp \in BOOLEAN
  BY DEF NeedResp, Typed, TypedHost, TypedNet, TypedNode
<2> QED
  BY <1>1, <2>1 DEF Commands
<1>3. localSum' = IF i = 0 THEN <<<<xfer, i>>>> ELSE Append(localSum, <<xfer, i>>)
  BY DEF UpdateChecksum
<1>4. Typed'
<2>1. toNode' \in Seq(Commands) /\ Len(toNode') <= MaxFlight
  BY <1>2 DEF Typed, TypedHost, TypedNet, TypedNode
<2>2. localSum' \in Sums
  BY <1>0, <1>3, AppendSum DEF Typed, TypedHost
<2>3. TypedHost' /\ TypedNet' /\ TypedNode'
  BY <1>1, <2>1, <2>2 DEF Typed, TypedHost, TypedNet, TypedNode, Packets
<2>4. Flags'
  BY DEF Typed, Flags
<2> QED
  BY <2>3, <2>4 DEF Typed
<1>5. InOrder'
  BY <1>1, <1>2 DEF InOrder, Founded, Typed, TypedHost, TypedNet, TypedNode, Commands, Ids
<1>6. Founded'
  BY DEF Founded, Holds
<1>7. Covers(i + 1)'
<2>1. Len(localSum) \in Nat
  BY SumEntries DEF Typed, TypedHost
<2>2. ASSUME i # 0
      PROVE  /\ Len(localSum') = Len(localSum) + 1
             /\ \A k \in 1 .. Len(localSum) : localSum'[k] = localSum[k]
             /\ localSum'[Len(localSum) + 1] = <<xfer, i>>
<3>1. localSum' = Append(localSum, <<xfer, i>>) /\ localSum \in Sums
  BY <1>3, <2>2 DEF Typed, TypedHost
<3> HIDE DEF SendPacket, WriteInv
<3> QED
  BY <1>0, <3>1, AppendSum
<2>3. \E k \in 1 .. Len(localSum') : localSum'[k] = <<xfer, i>>
<3>1. CASE i = 0
<4>1. 1 \in 1 .. Len(localSum') /\ localSum'[1] = <<xfer, i>>
  BY <1>0, <1>3, <3>1, AppendSum DEF Typed, TypedHost
<4> QED
  BY <4>1, Zenon
<3>2. CASE i # 0
<4>1. /\ Len(localSum') = Len(localSum) + 1
      /\ localSum'[Len(localSum) + 1] = <<xfer, i>>
  BY <2>2, <3>2, Zenon
<4>2. Len(localSum) + 1 \in 1 .. Len(localSum')
  BY <2>1, <4>1
<4> QED
  BY <4>1, <4>2, Zenon
<3> QED
  BY <3>1, <3>2
<2>4. ASSUME NEW p \in 0 .. i, p # i
      PROVE  \E k \in 1 .. Len(localSum') : localSum'[k] = <<xfer, p>>
<3>1. i # 0 /\ p \in 0 .. i - 1
  BY <1>1, <2>4 DEF Packets
<3>2. PICK k \in 1 .. Len(localSum) : localSum[k] = <<xfer, p>>
  BY <3>1, Zenon DEF Covered, Covers
<3>3. k \in 1 .. Len(localSum') /\ localSum'[k] = <<xfer, p>>
  BY <2>1, <2>2, <3>1, <3>2
<3> QED
  BY <3>3, Zenon
<2>5. 0 .. (i + 1) - 1 = 0 .. i
  BY <1>1 DEF Packets
<2> QED
  BY <2>3, <2>4, <2>5, Zenon DEF Covers
<1>8. Covered' /\ Polls' /\ Looping'
  BY <1>1, <1>7 DEF Covered, Polls, Looping, NeedResp
<1>9. AckMeansWritten' /\ SlowPrefixWritten'
  BY DEF AckMeansWritten, SlowPrefixWritten
<1> QED
  BY <1>4, <1>5, <1>6, <1>8, <1>9

(* An answer taken from the socket takes nothing from what holds of the    *)
(* others.                                                                 *)
LEMMA Tails ==
    ASSUME NEW S, NEW s \in Seq(S), s # <<>>
    PROVE  /\ Len(s) \in Nat /\ 1 \in 1 .. Len(s) /\ Head(s) = s[1]
           /\ Tail(s) \in Seq(S) /\ Len(Tail(s)) = Len(s) - 1
           /\ \A k \in 1 .. Len(Tail(s)) :
                 k + 1 \in 1 .. Len(s) /\ Tail(s)[k] = s[k + 1]
  OBVIOUS

LEMMA HostReads ==
    ASSUME WriteInv, UNCHANGED <<xfer, toNode, lost, sum, buf, core>>,
           \/ toHost' = toHost
           \/ toHost # <<>> /\ toHost' = Tail(toHost)
    PROVE  /\ InOrder' /\ Founded' /\ TypedNode'
           /\ toHost' \in Seq(Answers)
<1> USE DEF WriteInv, core
<1>1. InOrder'
  BY DEF InOrder
<1>2. TypedNode'
  BY DEF Typed, TypedNode
<1>3. \A k \in 1 .. Len(toHost') : \E j \in 1 .. Len(toHost) :
          toHost'[k] = toHost[j]
  BY Tails DEF Typed, TypedNet
<1>4. Founded'
<2>1. ASSUME NEW k \in 1 .. Len(toHost') PROVE Holds(toHost'[k].sum)
<3>1. PICK j \in 1 .. Len(toHost) : toHost'[k] = toHost[j]
  BY <1>3
<3> QED
  BY <3>1 DEF Founded
<2> QED
  BY <2>1 DEF Founded, Holds
<1>5. toHost' \in Seq(Answers)
  BY Tails DEF Typed, TypedNet
<1> QED
  BY <1>1, <1>2, <1>4, <1>5

(* The three ways the loop goes on. *)
HostInv == TypedHost /\ Covered /\ Polls /\ Looping
           /\ AckMeansWritten /\ SlowPrefixWritten

LEMMA Advances ==
    ASSUME WriteInv, pc \in {"poll", "wait"}, NextPacket,
           UNCHANGED <<xfer, retries, localSum, buf>>,
           slow' \/ (i = LastPkt /\ CheckChksum) =>
               stray' \/ \A p \in Packets : p < i + 1 => buf[p] = xfer
    PROVE  HostInv'
<1> USE Constants DEF WriteInv, NextPacket
<1>1. /\ i \in Packets /\ xfer \in Ids /\ i' = i + 1
      /\ Packets = 0 .. NumPkts - 1 /\ LastPkt = NumPkts - 1
  BY DEF Looping, Packets, LastPkt
<1>2. TypedHost'
  BY <1>1 DEF Typed, TypedHost
<1>3. Covered'
  BY <1>1 DEF Covered, Covers
<1>4. Polls' /\ Looping'
  BY <1>1 DEF Polls, Looping
<1>5. AckMeansWritten'
  BY <1>1 DEF AckMeansWritten, Written
<1>6. SlowPrefixWritten'
  BY <1>1 DEF SlowPrefixWritten
<1> QED
  BY <1>2, <1>3, <1>4, <1>5, <1>6 DEF HostInv

LEMMA Restarts ==
    ASSUME WriteInv, pc \in {"poll", "wait"}, StartOver,
           UNCHANGED <<xfer, retries, localSum, buf>>
    PROVE  HostInv'
<1> USE Constants DEF WriteInv, StartOver
<1>1. i \in Packets /\ xfer \in Ids /\ 0 \in Packets
  BY DEF Looping, Packets
<1>2. TypedHost'
  BY DEF Typed, TypedHost
<1>3. Covered' /\ Polls' /\ Looping'
  BY <1>1 DEF Covered, Covers, Polls, Looping
<1>4. AckMeansWritten'
  BY DEF AckMeansWritten
<1>5. SlowPrefixWritten'
  BY DEF SlowPrefixWritten, Packets
<1> QED
  BY <1>2, <1>3, <1>4, <1>5 DEF HostInv

LEMMA Dies ==
    ASSUME WriteInv, pc \in {"poll", "wait"}, Die,
           UNCHANGED <<xfer, retries, localSum>>
    PROVE  HostInv'
<1> USE Constants DEF WriteInv, Die
<1>1. TypedHost'
  BY DEF Typed, TypedHost
<1>2. Covered' /\ Polls' /\ Looping'
  BY DEF Covered, Polls, Looping
<1>3. AckMeansWritten' /\ SlowPrefixWritten'
  BY DEF AckMeansWritten, SlowPrefixWritten
<1> QED
  BY <1>1, <1>2, <1>3 DEF HostInv

LEMMA PollEmptyStep ==
    ASSUME WriteInv, PollEmpty
    PROVE  WriteInv'
<1> USE DEF WriteInv, PollEmpty, net
<1>1. HostInv'
  BY Advances DEF Polls
<1>2. InOrder' /\ Founded' /\ TypedNode'
  BY HostReads
<1>3. TypedNet'
  BY DEF Typed, TypedNet
<1>4. Flags'
  BY DEF Typed, Flags, core
<1> QED
  BY <1>1, <1>2, <1>3, <1>4 DEF HostInv, Typed

LEMMA PollResponseStep ==
    ASSUME WriteInv, PollResponse
    PROVE  WriteInv'
<1> USE DEF WriteInv, PollResponse
<1>1. HostInv'
<2>1. CASE Die
  BY <2>1, Dies
<2>2. CASE StartOver
  BY <2>2, Restarts
<2>3. CASE NextPacket
  BY <2>3, Advances DEF Polls
<2> QED
  BY <2>1, <2>2, <2>3
<1>2. InOrder' /\ Founded' /\ TypedNode' /\ toHost' \in Seq(Answers)
  BY HostReads
<1>3. TypedNet'
  BY <1>2 DEF Typed, TypedNet
<1>4. Flags'
  BY DEF Typed, Flags, core
<1> QED
  BY <1>1, <1>2, <1>3, <1>4 DEF HostInv, Typed

LEMMA WaitResponseStep ==
    ASSUME WriteInv, WaitResponse
    PROVE  WriteInv'
<1> DEFINE m == Head(toHost)
           verdict == Verdict(m, localSum)
<1> USE DEF WriteInv
<1>1. /\ pc = "wait" /\ toHost # <<>> /\ toHost' = Tail(toHost)
      /\ stray' = (stray \/ m.id # xfer)
      /\ slow' = (slow \/ verdict = "mismatch")
      /\ UNCHANGED <<xfer, retries, localSum, toNode, lost, early, sum, buf, core>>
  BY DEF WaitResponse
<1>2. HostInv'
<2>1. CASE Die
  BY <1>1, <2>1, Dies
<2>2. CASE StartOver
  BY <1>1, <2>2, Restarts
<2>3. CASE verdict = "success" /\ NextPacket
<3>1. ASSUME ~stray'
      PROVE  \A p \in Packets : p < i + 1 => buf[p] = xfer
<4>1. m.id = xfer
  BY <1>1, <3>1
<4>2. m.sum = localSum
  BY <2>3, <4>1 DEF Verdict
<4>3. Holds(localSum)
  BY <1>1, <4>2, Tails DEF Founded, Typed, TypedNet
<4>4. Covers(i + 1) /\ i + 1 \in Nat
  BY <1>1 DEF Covered, Typed, TypedHost
<4> QED
  BY <4>3, <4>4, Agreement
<3> QED
  BY <1>1, <2>3, <3>1, Advances
<2> QED
  BY <2>1, <2>2, <2>3 DEF WaitResponse
<1>3. InOrder' /\ Founded' /\ TypedNode' /\ toHost' \in Seq(Answers)
  BY <1>1, HostReads
<1>4. TypedNet'
  BY <1>1, <1>3 DEF Typed, TypedNet
<1>5. Flags'
  BY <1>1 DEF Typed, Flags, core
<1> QED
  BY <1>2, <1>3, <1>4, <1>5 DEF HostInv, Typed

LEMMA TimeoutStep ==
    ASSUME WriteInv, Timeout
    PROVE  WriteInv'
<1> USE Constants DEF WriteInv, Timeout
<1>1. HostInv'
<2>1. i \in Packets /\ xfer \in Ids
  BY DEF Looping
<2>2. CASE Die /\ UNCHANGED retries
  BY <2>2, Dies
<2>3. CASE retries < MaxRetry /\ pc' = "send" /\ retries' = retries + 1 /\ i' = i
<3>1. TypedHost'
  BY <2>1, <2>3 DEF Typed, TypedHost
<3>2. Covers(i)'
<4>1. \A p \in 0 .. i - 1 : p \in 0 .. (i + 1) - 1
  BY <2>1 DEF Packets
<4> QED
  BY <2>3, <4>1, Zenon DEF Covered, Covers
<3>3. Covered' /\ Polls' /\ Looping'
  BY <2>1, <2>3, <3>2 DEF Covered, Polls, Looping
<3>4. AckMeansWritten' /\ SlowPrefixWritten'
  BY <2>3 DEF AckMeansWritten, SlowPrefixWritten
<3> QED
  BY <3>1, <3>3, <3>4 DEF HostInv
<2>4. retries < MaxRetry \/ retries >= MaxRetry
  BY DEF Typed, TypedHost
<2> QED
  BY <2>2, <2>3, <2>4
<1>2. InOrder' /\ Founded' /\ TypedNode' /\ toHost' \in Seq(Answers)
  BY HostReads
<1>3. TypedNet'
<2>1. early' \in 0 .. MaxEarly
  BY DEF CountEarly, Typed, TypedNet
<2> QED
  BY <1>2, <2>1 DEF Typed, TypedNet
<1>4. Flags'
  BY DEF Typed, Flags, core
<1> QED
  BY <1>1, <1>2, <1>3, <1>4 DEF HostInv, Typed

-----------------------------------------------------------------------------
(* The node and its surroundings.                                          *)

LEMMA HostStays ==
    ASSUME WriteInv, UNCHANGED host,
           \A q \in Packets : buf[q] = xfer => buf'[q] = xfer
    PROVE  HostInv'
<1> USE DEF WriteInv, host
<1>1. TypedHost' /\ Covered' /\ Polls' /\ Looping'
  BY DEF Typed, TypedHost, Covered, Covers, Polls, Looping
<1>2. AckMeansWritten' /\ SlowPrefixWritten'
  BY DEF AckMeansWritten, Written, SlowPrefixWritten
<1> QED
  BY <1>1, <1>2 DEF HostInv

(* A command that leaves the queue, whether it is carried out or not. *)
LEMMA TakesCommand ==
    ASSUME WriteInv, toNode # <<>>, toNode' = Tail(toNode), UNCHANGED xfer,
           \A q \in Packets :
               buf'[q] = buf[q] \/ buf'[q] = Head(toNode).packet[1]
    PROVE  /\ InOrder'
           /\ toNode' \in Seq(Commands) /\ Len(toNode') <= MaxFlight
           /\ Head(toNode) = toNode[1]
           /\ 1 \in 1 .. Len(toNode)
           /\ toNode[1].packet[1] \in Ids /\ toNode[1].packet[2] \in Packets
           /\ toNode[1].packet \in Ids \X Packets
<1> USE Constants DEF WriteInv
<1>1. /\ toNode \in Seq(Commands) /\ Len(toNode) <= MaxFlight
      /\ 1 \in 1 .. Len(toNode)
  BY Tails DEF Typed, TypedNet
<1>2. /\ toNode' \in Seq(Commands) /\ Len(toNode') = Len(toNode) - 1
      /\ Len(toNode) \in Nat /\ Head(toNode) = toNode[1]
      /\ \A k \in 1 .. Len(toNode') :
            k + 1 \in 1 .. Len(toNode) /\ toNode'[k] = toNode[k + 1]
  BY <1>1, Tails
<1>3. InOrder'
  BY <1>1, <1>2 DEF InOrder
<1>4. /\ toNode[1].packet[1] \in Ids /\ toNode[1].packet[2] \in Packets
      /\ toNode[1] \in Commands
  BY <1>1, CommandEntries
<1>5. toNode[1].packet \in Ids \X Packets
  BY <1>4 DEF Commands
<1> QED
  BY <1>1, <1>2, <1>3, <1>4, <1>5

LEMMA RefuseWriteStep ==
    ASSUME WriteInv, RefuseWrite
    PROVE  WriteInv'
<1> USE DEF WriteInv, RefuseWrite
<1>1. HostInv'
  BY HostStays
<1>2. /\ InOrder' /\ toNode' \in Seq(Commands) /\ Len(toNode') <= MaxFlight
      /\ Head(toNode).packet[1] \in Ids
  BY TakesCommand DEF host
<1> DEFINE a == Answer(Head(toNode), IF cont THEN "error" ELSE "not_ready", <<>>)
<1>3. a \in Answers /\ a.sum = <<>> /\ toHost' = Append(toHost, a)
<2>1. <<>> \in Sums
  BY DEF Sums
<2> QED
  BY <1>2, <2>1 DEF Answer, Answers, Statuses
<1> HIDE DEF a
<1>4. Founded'
  BY <1>3 DEF Founded, Holds, host, Typed, TypedNet
<1>5. TypedNet' /\ TypedNode' /\ Flags'
  BY <1>2, <1>3 DEF Typed, TypedNet, TypedNode, Flags, host, core
<1> QED
  BY <1>1, <1>2, <1>4, <1>5 DEF HostInv, Typed

LEMMA AcceptWriteStep ==
    ASSUME WriteInv, AcceptWrite
    PROVE  WriteInv'
<1> DEFINE command == Head(toNode)
           c == command.packet[1]
           p == command.packet[2]
           s == UpdateChecksum(sum, command.packet, p = 0)
<1> USE DEF WriteInv
<1>1. /\ toNode # <<>> /\ toNode' = Tail(toNode)
      /\ sum' = s /\ buf' = [buf EXCEPT ![p] = c]
      /\ toHost' = IF command.robust
                   THEN Append(toHost, Answer(command, "success", s)) ELSE toHost
      /\ UNCHANGED <<host, lost, early, core>>
  BY DEF AcceptWrite
<1>2. xfer' = xfer /\ buf \in [Packets -> 0 .. MaxTransfers]
  BY <1>1 DEF host, Typed, TypedNode
<1>3. \A q \in Packets : buf'[q] = buf[q] \/ buf'[q] = c
  BY <1>1, <1>2
<1>4. /\ InOrder'
      /\ toNode' \in Seq(Commands) /\ Len(toNode') <= MaxFlight
      /\ c \in Ids /\ p \in Packets /\ command.packet \in Ids \X Packets
      /\ c = toNode[1].packet[1] /\ 1 \in 1 .. Len(toNode)
  BY <1>1, <1>2, <1>3, TakesCommand
<1>5. c <= xfer /\ (\A q \in Packets : buf[q] <= c) /\ buf'[p] = c
      /\ xfer \in Nat
  BY <1>1, <1>2, <1>4 DEF InOrder, Typed, TypedHost
<1>6. \A q \in Packets : buf[q] = xfer => buf'[q] = xfer
  BY <1>1, <1>2, <1>4, <1>5, Constants DEF Ids
<1>7. HostInv'
  BY <1>1, <1>6, HostStays
<1>8. s \in Sums
  BY <1>4, AppendSum DEF UpdateChecksum, Typed, TypedNode
<1> DEFINE Kept(t) == \A k \in 1 .. Len(t) :
                          t[k][1] <= xfer /\ (t[k][1] = xfer => buf'[t[k][2]] = xfer)
<1>9. \A t \in Sums : Holds(t) => Kept(t)
  BY <1>2, <1>6, SumEntries DEF Holds
<1>10. Kept(s)
<2>1. sum \in Sums /\ Kept(sum)
  BY <1>9 DEF Founded, Typed, TypedNode
<2>2. ASSUME NEW k \in 1 .. Len(s)
      PROVE  s[k] = command.packet \/ (k \in 1 .. Len(sum) /\ s[k] = sum[k])
<3>1. CASE p = 0
<4>1. s = <<command.packet>>
  BY <3>1 DEF UpdateChecksum
<4> QED
  BY <4>1
<3>2. CASE p # 0
<4>1. s = Append(sum, command.packet)
  BY <3>2 DEF UpdateChecksum
<4>2. Len(sum) \in Nat
  BY <2>1, SumEntries
<4> QED
  BY <1>4, <2>1, <4>1, <4>2, AppendSum
<3> QED
  BY <3>1, <3>2
<2>3. c <= xfer /\ (c = xfer => buf'[p] = xfer)
  BY <1>5
<2> QED
  BY <2>1, <2>2, <2>3
<1>11. PICK a \in Answers : a.sum = s /\ toHost' \in {toHost, Append(toHost, a)}
  BY <1>1, <1>4, <1>8 DEF Answer, Answers, Statuses
<1>12. Founded'
<2>1. toHost \in Seq(Answers)
  BY DEF Typed, TypedNet
<2>2. \A k \in 1 .. Len(toHost') :
          toHost'[k] = a \/ (k \in 1 .. Len(toHost) /\ toHost'[k] = toHost[k])
  BY <1>11, <2>1
<2>3. \A k \in 1 .. Len(toHost) : Kept(toHost[k].sum)
  BY <1>9, <2>1, AnswerEntries DEF Founded
<2> HIDE DEF s
<2>4. ASSUME NEW k \in 1 .. Len(toHost') PROVE Kept(toHost'[k].sum)
<3> HIDE DEF Kept
<3>1. CASE toHost'[k] = a
  BY <1>10, <1>11, <3>1
<3>2. CASE k \in 1 .. Len(toHost) /\ toHost'[k] = toHost[k]
  BY <2>3, <3>2
<3> QED
  BY <2>2, <3>1, <3>2
<2>5. \A q \in Packets : buf'[q] <= xfer
  BY <1>3, <1>5 DEF Founded
<2>6. Holds(sum)' /\ \A k \in 1 .. Len(toHost') : Holds(toHost[k].sum)'
  BY <1>1, <1>2, <1>10, <2>4 DEF Holds
<2> QED
  BY <1>2, <2>5, <2>6 DEF Founded
<1>13. TypedNet'
  BY <1>1, <1>4, <1>11 DEF Typed, TypedNet
<1>14. TypedNode'
  BY <1>1, <1>2, <1>4, <1>8, Constants DEF Typed, TypedNode, core, Ids
<1>15. Flags'
  BY <1>1 DEF Typed, Flags, host, core
<1> QED
  BY <1>4, <1>7, <1>12, <1>13, <1>14, <1>15 DEF HostInv, Typed

(* Triggers, captures and losses. *)
LEMMA CoreStep ==
    ASSUME WriteInv, UNCHANGED <<host, net, sum, buf>>, TypedNode', Flags'
    PROVE  WriteInv'
<1> USE DEF WriteInv, net
<1>1. HostInv'
  BY HostStays
<1>2. InOrder' /\ Founded' /\ TypedNet'
  BY DEF InOrder, Founded, Holds, host, Typed, TypedNet
<1> QED
  BY <1>1, <1>2 DEF HostInv, Typed

LEMMA LoseCommandStep ==
    ASSUME WriteInv, LoseCommand
    PROVE  WriteInv'
<1> USE DEF WriteInv, LoseCommand
<1>1. HostInv'
  BY HostStays
<1>2. InOrder' /\ toNode' \in Seq(Commands) /\ Len(toNode') <= MaxFlight
  BY TakesCommand DEF host
<1>3. Founded'
  BY DEF Founded, Holds, host
<1>4. TypedNet' /\ TypedNode' /\ Flags'
  BY <1>2, Constants DEF Typed, TypedNet, TypedNode, Flags, host, core
<1> QED
  BY <1>1, <1>2, <1>3, <1>4 DEF HostInv, Typed

LEMMA LoseAnswerStep ==
    ASSUME WriteInv, LoseAnswer
    PROVE  WriteInv'
<1> USE DEF WriteInv, LoseAnswer
<1>1. HostInv'
  BY HostStays
<1>2. toHost' \in Seq(Answers)
  BY Tails DEF Typed, TypedNet
<1>3. \A k \in 1 .. Len(toHost') : \E j \in 1 .. Len(toHost) :
          toHost'[k] = toHost[j]
  BY Tails DEF Typed, TypedNet
<1>4. InOrder' /\ Founded'
<2>1. ASSUME NEW k \in 1 .. Len(toHost') PROVE Holds(toHost'[k].sum)
  BY <1>3 DEF Founded
<2> QED
  BY <2>1 DEF InOrder, Founded, Holds, host
<1>5. TypedNet' /\ TypedNode' /\ Flags'
  BY <1>2, Constants DEF Typed, TypedNet, TypedNode, Flags, host, core
<1> QED
  BY <1>1, <1>4, <1>5 DEF HostInv, Typed

-----------------------------------------------------------------------------
(* The chain holds in every reachable state. *)
THEOREM WriteInvariant == Spec => []WriteInv
<1>1. WriteInv /\ [Next]_vars => WriteInv'
<2> SUFFICES ASSUME WriteInv, [Next]_vars PROVE WriteInv'
  OBVIOUS
<2>1. CASE StartTransfer
  BY <2>1, StartTransferStep
<2>2. CASE SendPacket
  BY <2>2, SendPacketStep
<2>3. CASE PollEmpty
  BY <2>3, PollEmptyStep
<2>4. CASE PollResponse
  BY <2>4, PollResponseStep
<2>5. CASE WaitResponse
  BY <2>5, WaitResponseStep
<2>6. CASE Timeout
  BY <2>6, TimeoutStep
<2>7. CASE RefuseWrite
  BY <2>7, RefuseWriteStep
<2>8. CASE AcceptWrite
  BY <2>8, AcceptWriteStep
<2>9. CASE \/ \E mode \in BOOLEAN : StartTx(mode)
           \/ AdvanceTx \/ EndTx \/ StartRx \/ EndRx
<3>1. UNCHANGED <<host, net, sum, buf>>
  BY <2>9 DEF StartTx, AdvanceTx, EndTx, StartRx, EndRx
<3>2. TypedNode'
  BY <2>9, <3>1, Constants
     DEF WriteInv, Typed, TypedNode, StartTx, AdvanceTx, EndTx, StartRx, EndRx
<3>3. Flags'
  BY <2>9 DEF WriteInv, Typed, Flags, StartTx, AdvanceTx, EndTx, StartRx,
              EndRx, host
<3> QED
  BY <3>1, <3>2, <3>3, CoreStep
<2>10. CASE LoseCommand
  BY <2>10, LoseCommandStep
<2>11. CASE LoseAnswer
  BY <2>11, LoseAnswerStep
<2>12. CASE UNCHANGED vars
<3>1. UNCHANGED <<host, net, sum, buf>>
  BY <2>12 DEF vars
<3>2. TypedNode' /\ Flags'
  BY <2>12 DEF vars, host, core, WriteInv, Typed, TypedNode, Flags
<3> QED
  BY <3>1, <3>2, CoreStep
<2> QED
  BY <2>1, <2>2, <2>3, <2>4, <2>5, <2>6, <2>7, <2>8, <2>9, <2>10, <2>11,
     <2>12 DEF Next, HostStep, NodeStep
<1> QED
  BY <1>1, InitWrite, PTL DEF Spec

(* The state keeps its shape: the packet loop of wl_write_baseband_buffer  *)
(* never runs past its last packet, for any number of packets.             *)
THEOREM TypeCorrect == Spec => []TypeOK
<1>1. WriteInv => TypeOK
  BY TypedIsTypeOK DEF WriteInv
<1> QED
  BY <1>1, WriteInvariant, PTL

(* A transfer that ends on answers of its own, its checksum compared, has  *)
(* every packet in the node's buffer, whatever the network and the node    *)
(* have done: the purpose of the checksum in WRITE_IQ and its answers.     *)
THEOREM AcknowledgedIsWritten == Spec => []AckMeansWritten
<1>1. WriteInv => AckMeansWritten
  BY DEF WriteInv
<1> QED
  BY <1>1, WriteInvariant, PTL

(* In slow mode the loop moves past a packet only once it is written. *)
THEOREM SlowModeIsSafe == Spec => []SlowPrefixWritten
<1>1. WriteInv => SlowPrefixWritten
  BY DEF WriteInv
<1> QED
  BY <1>1, WriteInvariant, PTL
=============================================================================
