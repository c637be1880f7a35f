----------------------- MODULE ReadIqHeaderRing_proofs ----------------------
(***************************************************************************)
(* For all sizes of the two pools the state keeps its shape.  For those    *)
(* with Spare, and whatever packets fail and whatever the driver still     *)
(* holds of earlier commands: no header is rebuilt before the DMA has read *)
(* it, and the wire carries the stream ReadIqStream describes.             *)
(***************************************************************************)
EXTENDS ReadIqHeaderRing, TLAPS

\* The slot d places behind slot h, going round the ring.
Back(h, d) == IF h >= d THEN h - d ELSE h - d + NumHdr

\* The packets of this command that the driver holds.
Held == others + 1 .. Len(queue)

\* They come in order, were not lost, and each is in the slot that lies as
\* many places behind the loop as the loop has gone on since.
Window ==
    /\ \A j \in Held :
        /\ queue[j].id < pkt /\ queue[j].id \notin lost
        /\ queue[j].slot = Back(hdrOffset, pkt - queue[j].id)
    /\ \A i, j \in Held : i < j => queue[i].id < queue[j].id

\* The loop is ahead of the oldest of them by those the driver holds and by
\* the sends that may have failed.
Within(p, q, n, o) == p - q <= n - o + MaxFails
Near == Held # {} => Within(pkt, queue[others + 1].id, Len(queue), others)

\* Every packet the loop has passed is on the wire, was reported as lost, or
\* is waiting in the driver, and the wire is behind those that wait.
Accounted ==
    /\ lost \subseteq 0 .. pkt - 1
    /\ Stream!Latest \in Int /\ -1 <= Stream!Latest /\ Stream!Latest < pkt
    /\ \A j \in Unread : queue[j].id > Stream!Latest
    /\ \A k \in Stream!Latest + 1 .. pkt - 1 :
        k \in lost \/ \E j \in Unread : queue[j].id = k

\* Between the memcpy and the send the slot holds the packet's own header.
Built == cpu = "send" => ring[hdrOffset] = pkt

\* The type invariant with what it needs.
TypeInv ==
    /\ TypeOK
    /\ cpu # "idle" => pkt < numPkts
    /\ fetched => queue # <<>>

\* The inductive invariant.
RingInv == TypeInv /\ Window /\ Near /\ Accounted /\ Built /\ HeaderIntact

-----------------------------------------------------------------------------
\* Going to the next slot wraps round at the end of the ring.
LEMMA NextSlotWraps ==
    ASSUME NEW s \in Slots
    PROVE  /\ NextSlot(s) = IF s + 1 = NumHdr THEN 0 ELSE s + 1
           /\ NextSlot(s) \in Slots
<1>1. NumHdr \in Nat /\ NumHdr > 0 /\ s \in Nat /\ s < NumHdr
  BY RingAssumption DEF RingAssumption, Slots
<1>2. CASE s + 1 = NumHdr
  <2>1. NumHdr % NumHdr = 0
    BY <1>1
  <2> QED BY <1>1, <1>2, <2>1 DEF NextSlot, Slots
<1>3. CASE s + 1 # NumHdr
  <2>1. (s + 1) % NumHdr = s + 1
    BY <1>1, <1>3
  <2> QED BY <1>1, <1>3, <2>1 DEF NextSlot, Slots
<1> QED BY <1>2, <1>3

\* What the driver holds are packets.
LEMMA QueueElements ==
    ASSUME TypeOK, NEW j \in 1 .. Len(queue)
    PROVE  queue[j].id \in Nat /\ queue[j].slot \in Slots
<1> DEFINE Packet == [id : Nat, slot : Slots]
<1>1. queue \in Seq(Packet)
  BY DEF TypeOK
<1>2. ASSUME NEW p \in Packet PROVE p.id \in Nat /\ p.slot \in Slots
  BY <1>2
<1>3. queue[j] \in Packet
  <2> HIDE DEF Packet
  <2> QED BY <1>1
<1> QED BY <1>2, <1>3

\* The numbers of the state.
LEMMA Numbers ==
    ASSUME TypeInv
    PROVE  /\ pkt \in Nat /\ numPkts \in Nat /\ pkt <= MaxPkts
           /\ numPkts <= MaxPkts /\ MaxPkts \in Nat /\ MaxFails \in Nat
           /\ NumHdr \in Nat /\ NumBD \in Nat /\ hdrOffset \in Slots
           /\ hdrOffset \in Nat /\ hdrOffset < NumHdr
           /\ Len(queue) \in Nat /\ others \in Nat /\ others <= Len(queue)
           /\ NumBD - 2 * Len(queue) >= 0
  BY RingAssumption
  DEF RingAssumption, TypeInv, TypeOK, Slots, FreeBDs, BDsPerPacket

\* The type invariant of the next packet of the loop.
LEMMA AdvanceType ==
    ASSUME TypeInv, cpu = "send", Advance, numPkts' = numPkts
    PROVE  /\ cpu' \in {"idle", "build"}
           /\ pkt' \in 0 .. MaxPkts
           /\ hdrOffset' \in Slots
           /\ cpu' # "idle" => pkt' < numPkts'
<1>1. pkt < numPkts /\ pkt \in Nat /\ numPkts \in 0 .. MaxPkts /\ MaxPkts \in Nat
  BY RingAssumption DEF RingAssumption, TypeInv, TypeOK
<1>2. hdrOffset' \in Slots
  BY NextSlotWraps DEF TypeInv, TypeOK, Advance
<1> QED BY <1>1, <1>2 DEF Advance

\* A packet more in the queue.
LEMMA SendType ==
    ASSUME TypeInv, SendPacket
    PROVE  /\ queue' \in Seq([id : Nat, slot : Slots])
           /\ Len(queue') = Len(queue) + 1
           /\ queue'[Len(queue) + 1] = [id |-> pkt, slot |-> hdrOffset]
           /\ \A j \in 1 .. Len(queue) : queue'[j] = queue[j]
<1> DEFINE p == [id |-> pkt, slot |-> hdrOffset]
           Packet == [id : Nat, slot : Slots]
<1>1. queue \in Seq(Packet) /\ p \in Packet /\ queue' = Append(queue, p)
  BY DEF TypeInv, TypeOK, SendPacket
<1>2. p = [id |-> pkt, slot |-> hdrOffset]
  OBVIOUS
<1> HIDE DEF p, Packet
<1>3. /\ queue' \in Seq(Packet)
      /\ Len(queue') = Len(queue) + 1
      /\ queue'[Len(queue) + 1] = p
      /\ \A j \in 1 .. Len(queue) : queue'[j] = queue[j]
  BY <1>1
<1> QED BY <1>2, <1>3 DEF Packet

\* A packet less in it.
LEMMA FreeType ==
    ASSUME TypeInv, FreePacket
    PROVE  /\ queue' \in Seq([id : Nat, slot : Slots])
           /\ Len(queue) \in Nat /\ Len(queue) >= 1
           /\ Len(queue') = Len(queue) - 1
           /\ \A j \in 1 .. Len(queue) - 1 : queue'[j] = queue[j + 1]
<1> DEFINE Packet == [id : Nat, slot : Slots]
<1>1. queue \in Seq(Packet) /\ queue # <<>> /\ queue' = Tail(queue)
  BY DEF TypeInv, TypeOK, FreePacket
<1> HIDE DEF Packet
<1>2. /\ queue' \in Seq(Packet)
      /\ Len(queue) \in Nat /\ Len(queue) >= 1
      /\ Len(queue') = Len(queue) - 1
      /\ \A j \in 1 .. Len(queue) - 1 : queue'[j] = queue[j + 1]
  BY <1>1
<1> QED BY <1>2 DEF Packet

\* The next packet on the wire.
LEMMA AppendType ==
    ASSUME NEW S, NEW s \in Seq(S), NEW e \in S
    PROVE  Append(s, e) \in Seq(S)
  OBVIOUS

LEMMA InitTypeInv == Init => TypeInv
<1> SUFFICES ASSUME Init PROVE TypeInv
  OBVIOUS
<1>1. Len(queue) = 0 /\ queue \in Seq([id : Nat, slot : Slots])
  BY DEF Init
<1>2. NumBD - 2 * Len(queue) >= 0 /\ 0 \in Slots /\ 0 \in 0 .. MaxPkts
  BY RingAssumption, <1>1 DEF RingAssumption, Slots
<1>3. ring \in [Slots -> Nat \cup {Stale}]
  BY DEF Init
<1>4. wire \in Seq([data : Nat, header : Nat \cup {Stale}])
  BY DEF Init
<1>5. /\ cpu = "idle" /\ numPkts \in 0 .. MaxPkts /\ pkt \in 0 .. MaxPkts
      /\ hdrOffset \in Slots /\ fetched = FALSE /\ lost \in SUBSET Nat
  BY <1>2 DEF Init
<1>6. others \in 0 .. Len(queue)
  BY <1>1 DEF Init
<1>7. FreeBDs >= 0
  BY <1>2 DEF FreeBDs, BDsPerPacket
<1>8. TypeOK
  BY <1>1, <1>3, <1>4, <1>5, <1>6, <1>7 DEF TypeOK
<1> QED BY <1>5, <1>8 DEF TypeInv

\* Whatever the sizes, each step keeps the shape of the state.
LEMMA NextTypeInv == TypeInv /\ [Next]_vars => TypeInv'
<1> SUFFICES ASSUME TypeInv, [Next]_vars PROVE TypeInv'
  OBVIOUS
<1> USE DEF TypeInv, TypeOK, FreeBDs, BDsPerPacket
<1>1. ASSUME NEW n \in 0 .. MaxPkts, StartRead(n) PROVE TypeInv'
  <2>1. 0 \in Slots /\ 0 \in 0 .. MaxPkts /\ Len(queue) \in 0 .. Len(queue)
    BY RingAssumption DEF RingAssumption, Slots
  <2>2. wire' \in Seq([data : Nat, header : Nat \cup {Stale}])
    BY <1>1 DEF StartRead
  <2>3. cpu' # "idle" => pkt' < numPkts'
    BY <1>1 DEF StartRead
  <2> QED BY <1>1, <2>1, <2>2, <2>3 DEF StartRead
<1>2. CASE BuildHeader
  BY <1>2 DEF BuildHeader
<1>3. CASE SendPacket
  <2>1. /\ cpu' \in {"idle", "build"} /\ pkt' \in 0 .. MaxPkts
        /\ hdrOffset' \in Slots /\ (cpu' # "idle" => pkt' < numPkts')
    BY <1>3, AdvanceType DEF SendPacket
  <2>2. /\ queue' \in Seq([id : Nat, slot : Slots])
        /\ Len(queue') = Len(queue) + 1
    BY <1>3, SendType
  <2>3. NumBD - 2 * Len(queue') >= 0
    BY <1>3, <2>2, Numbers DEF SendPacket, CanQueue
  <2>4. others' \in 0 .. Len(queue') /\ queue' # <<>>
    <3> DEFINE n == Len(queue)
    <3>1. n \in Nat /\ others \in Nat /\ others <= n
      BY Numbers
    <3>2. Len(queue') = n + 1 /\ others' = others
      BY <1>3, <2>2 DEF SendPacket
    <3>3. queue' = <<>> => Len(queue') = 0
      OBVIOUS
    <3> HIDE DEF n
    <3> QED BY <3>1, <3>2, <3>3
  <2> QED BY <1>3, <2>1, <2>2, <2>3, <2>4 DEF SendPacket
<1>4. CASE SendFails
  <2>1. /\ cpu' \in {"idle", "build"} /\ pkt' \in 0 .. MaxPkts
        /\ hdrOffset' \in Slots /\ (cpu' # "idle" => pkt' < numPkts')
    BY <1>4, AdvanceType DEF SendFails
  <2>2. lost' \in SUBSET Nat
    BY <1>4 DEF SendFails
  <2> QED BY <1>4, <2>1, <2>2 DEF SendFails
<1>5. CASE FetchHeader
  <2>1. Len(queue) \in Nat /\ 1 \in 1 .. Len(queue) /\ Head(queue) = queue[1]
    BY <1>5 DEF FetchHeader
  <2>2. queue[1].id \in Nat /\ queue[1].slot \in Slots
    BY <2>1, QueueElements
  <2>3. [data |-> Head(queue).id, header |-> ring[Head(queue).slot]]
          \in [data : Nat, header : Nat \cup {Stale}]
    BY <2>1, <2>2
  <2>4. wire' \in Seq([data : Nat, header : Nat \cup {Stale}])
    <3>1. \/ wire' = wire
          \/ wire' = Append(wire, [data |-> Head(queue).id,
                                   header |-> ring[Head(queue).slot]])
      BY <1>5 DEF FetchHeader
    <3>2. wire \in Seq([data : Nat, header : Nat \cup {Stale}])
      OBVIOUS
    <3>3. Append(wire, [data |-> Head(queue).id, header |-> ring[Head(queue).slot]])
            \in Seq([data : Nat, header : Nat \cup {Stale}])
      BY <2>3, <3>2, AppendType
    <3> QED BY <3>1, <3>2, <3>3, Zenon
  <2> QED BY <1>5, <2>4 DEF FetchHeader, loop
<1>6. CASE FreePacket
  <2>1. /\ queue' \in Seq([id : Nat, slot : Slots])
        /\ Len(queue) \in Nat /\ Len(queue') = Len(queue) - 1
        /\ Len(queue) >= 1
    BY <1>6, FreeType
  <2>2. others' \in 0 .. Len(queue') /\ NumBD - 2 * Len(queue') >= 0
    BY <1>6, <2>1, Numbers DEF FreePacket
  <2> QED BY <1>6, <2>1, <2>2 DEF FreePacket, loop
<1>7. CASE UNCHANGED vars
  BY <1>7 DEF vars, loop
<1> QED
  BY <1>1, <1>2, <1>3, <1>4, <1>5, <1>6, <1>7 DEF Next, CpuStep, DmaStep

\* Type correctness, for all sizes of the two pools that boot admits.
THEOREM TypeCorrect == Spec => []TypeOK
<1>1. TypeInv => TypeOK
  BY DEF TypeInv
<1> QED BY <1>1, InitTypeInv, NextTypeInv, PTL DEF Spec

-----------------------------------------------------------------------------
\* With Spare, the loop is less than one lap ahead of a packet the driver
\* holds.
LEMMA WithinLap ==
    ASSUME RingInv, Spare, NEW j \in Held
    PROVE  /\ j \in 1 .. Len(queue) /\ j \in Nat
           /\ queue[j].id \in Nat /\ queue[j].slot \in Slots
           /\ pkt - queue[j].id \in 1 .. NumHdr - 1
<1>1. TypeInv /\ TypeOK
  BY DEF RingInv, TypeInv
<1>2. j \in 1 .. Len(queue) /\ others + 1 \in Held /\ others + 1 \in 1 .. Len(queue)
  BY <1>1, Numbers DEF Held
<1>3. /\ queue[j].id \in Nat /\ queue[j].slot \in Slots
      /\ queue[others + 1].id \in Nat
  BY <1>1, <1>2, QueueElements
<1>4. queue[others + 1].id <= queue[j].id
  <2>1. CASE j = others + 1
    BY <1>3, <2>1
  <2>2. CASE others + 1 < j
    <3>1. queue[others + 1].id < queue[j].id
      BY <1>2, <2>2 DEF RingInv, Window
    <3> QED BY <1>3, <3>1
  <2> QED BY <1>1, <2>1, <2>2, Numbers DEF Held
<1>5. pkt - queue[others + 1].id <= Len(queue) - others + MaxFails
  BY <1>2 DEF RingInv, Near, Within
<1>6. queue[j].id < pkt
  BY DEF RingInv, Window
<1>7. Len(queue) + MaxFails < NumHdr
  BY <1>1, Numbers DEF Spare, BDsPerPacket
<1>8. pkt - queue[j].id \in 1 .. NumHdr - 1
  <2> DEFINE q == queue[j].id
             f == queue[others + 1].id
             n == Len(queue)
  <2>1. /\ q \in Nat /\ f \in Nat /\ f <= q /\ pkt - f <= n - others + MaxFails
        /\ q < pkt /\ n + MaxFails < NumHdr
    BY <1>3, <1>4, <1>5, <1>6, <1>7
  <2>2. /\ n \in Nat /\ others \in Nat /\ pkt \in Nat /\ NumHdr \in Nat
        /\ MaxFails \in Nat
    BY <1>1, Numbers
  <2> HIDE DEF q, f, n
  <2>3. pkt - q \in 1 .. NumHdr - 1
    BY <2>1, <2>2
  <2> QED BY <2>3 DEF q
<1>9. j \in Nat
  BY <1>1, <1>2, Numbers
<1> QED BY <1>2, <1>3, <1>8, <1>9

\* So no packet of this command that the driver holds is in the loop's slot.
LEMMA SlotsApart ==
    ASSUME RingInv, Spare, NEW j \in Held
    PROVE  queue[j].slot # hdrOffset
<1>1. pkt - queue[j].id \in 1 .. NumHdr - 1
  BY WithinLap
<1>2. queue[j].slot = Back(hdrOffset, pkt - queue[j].id)
  BY DEF RingInv, Window
<1>3. hdrOffset \in Nat /\ NumHdr \in Nat
  BY Numbers DEF RingInv
<1> QED BY <1>1, <1>2, <1>3 DEF Back

\* One packet on, the packets of the command are one place further behind.
LEMMA FurtherBehind ==
    ASSUME RingInv, Spare, Advance, NEW j \in Held
    PROVE  /\ queue[j].slot = Back(hdrOffset', pkt' - queue[j].id)
           /\ queue[j].id < pkt' /\ pkt' = pkt + 1
<1> DEFINE d == pkt - queue[j].id
<1>1. /\ d \in 1 .. NumHdr - 1 /\ queue[j].id \in Nat
      /\ queue[j].slot = Back(hdrOffset, d)
  BY WithinLap DEF RingInv, Window
<1>2. pkt \in Nat /\ NumHdr \in Nat /\ hdrOffset \in Slots
      /\ hdrOffset \in Nat /\ hdrOffset < NumHdr
  BY Numbers DEF RingInv
<1>3. /\ hdrOffset' = IF hdrOffset + 1 = NumHdr THEN 0 ELSE hdrOffset + 1
      /\ pkt' = pkt + 1
  BY <1>2, NextSlotWraps DEF Advance
<1>4. pkt' - queue[j].id = d + 1 /\ queue[j].id < pkt'
  BY <1>1, <1>2, <1>3
<1> HIDE DEF d
<1>5. Back(hdrOffset', d + 1) = Back(hdrOffset, d)
  BY <1>1, <1>2, <1>3 DEF Back
<1> QED BY <1>1, <1>3, <1>4, <1>5

LEMMA InitRingInv == Init => RingInv
<1> SUFFICES ASSUME Init PROVE RingInv
  OBVIOUS
<1>1. Len(queue) = 0 /\ others = 0 /\ Held = {} /\ Unread = {}
  BY DEF Init, Held, Unread
<1>2. TypeInv
  BY InitTypeInv
<1>3. Stream!Latest = -1
  BY DEF Init, Stream!Latest
<1>4. Accounted
  BY <1>1, <1>3 DEF Init, Accounted
<1>5. Window /\ Near /\ Built /\ HeaderIntact
  BY <1>1 DEF Init, Window, Near, Built, HeaderIntact
<1> QED BY <1>2, <1>4, <1>5 DEF RingInv

-----------------------------------------------------------------------------
\* Each action of the CPU and of the DMA preserves the invariant.
LEMMA StartReadInv ==
    ASSUME RingInv, TypeInv', NEW n \in 0 .. MaxPkts, StartRead(n)
    PROVE  RingInv'
<1>1. Len(queue) \in Nat /\ others' = Len(queue) /\ queue' = queue
  BY Numbers DEF RingInv, StartRead
<1>2. Held' = {} /\ Unread' = {}
  BY <1>1 DEF Held, Unread
<1>3. Stream!Latest' = -1
  BY DEF StartRead, Stream!Latest
<1>4. Accounted'
  BY <1>2, <1>3 DEF StartRead, Accounted
<1>5. Window' /\ Near' /\ HeaderIntact'
  BY <1>2 DEF Window, Near, HeaderIntact
<1>6. Built'
  BY DEF StartRead, Built
<1> QED BY <1>4, <1>5, <1>6 DEF RingInv

\* Unread packets are held.
LEMMA UnreadHeld ==
    ASSUME RingInv
    PROVE  Unread \subseteq Held
  BY Numbers DEF RingInv, Unread, Held

LEMMA BuildHeaderInv ==
    ASSUME RingInv, TypeInv', Spare, BuildHeader
    PROVE  RingInv'
<1>1. Window' /\ Near' /\ Held' = Held /\ Unread' = Unread
  BY DEF RingInv, Window, Near, Held, Unread, BuildHeader, Back
<1>2. Stream!Latest' = Stream!Latest
  BY DEF BuildHeader, Stream!Latest
<1>3. Accounted'
  BY <1>1, <1>2 DEF RingInv, Accounted, BuildHeader
<1>4. Built'
  BY DEF RingInv, TypeInv, TypeOK, Built, BuildHeader
<1>5. HeaderIntact'
  <2> SUFFICES ASSUME NEW j \in Unread
               PROVE  ring'[queue[j].slot] = queue[j].id
    BY <1>1 DEF HeaderIntact, BuildHeader
  <2>1. j \in Held
    BY UnreadHeld
  <2>2. queue[j].slot # hdrOffset /\ queue[j].slot \in Slots
    BY <2>1, SlotsApart, WithinLap
  <2>3. ring[queue[j].slot] = queue[j].id
    BY DEF RingInv, HeaderIntact
  <2> QED BY <2>2, <2>3 DEF BuildHeader, RingInv, TypeInv, TypeOK
<1> QED BY <1>1, <1>3, <1>4, <1>5 DEF RingInv

LEMMA SendPacketInv ==
    ASSUME RingInv, TypeInv', Spare, SendPacket
    PROVE  RingInv'
<1> DEFINE n == Len(queue) + 1
<1>1. /\ Len(queue') = n
      /\ queue'[n].id = pkt /\ queue'[n].slot = hdrOffset
      /\ \A j \in 1 .. Len(queue) : queue'[j] = queue[j]
      /\ Len(queue) \in Nat /\ others \in Nat /\ others <= Len(queue)
      /\ n \in Nat /\ n = Len(queue) + 1
  BY SendType, Numbers DEF RingInv
<1> HIDE DEF n
<1>2. /\ others' = others /\ lost' = lost /\ wire' = wire
      /\ fetched' = fetched /\ ring' = ring /\ Advance
  BY DEF SendPacket
<1>3. Held' = Held \cup {n} /\ n \notin Held /\ Held \subseteq 1 .. Len(queue)
  BY <1>1, <1>2 DEF Held
<1>4. Unread' = Unread \cup {n} /\ Unread \subseteq 1 .. Len(queue)
  <2>1. fetched => Len(queue) >= 1
    BY <1>1 DEF RingInv, TypeInv, TypeOK
  <2> QED BY <1>1, <1>2, <2>1 DEF Unread
<1>5. /\ pkt \in Nat /\ pkt' = pkt + 1 /\ NumHdr \in Nat
      /\ hdrOffset \in Nat /\ hdrOffset < NumHdr
      /\ hdrOffset' = IF hdrOffset + 1 = NumHdr THEN 0 ELSE hdrOffset + 1
  BY <1>2, Numbers, NextSlotWraps DEF RingInv, Advance
<1>6. \A j \in Held : queue[j].id \in Nat /\ queue[j].id < pkt
  BY WithinLap DEF RingInv, Window
<1>7. Window'
  <2>1. ASSUME NEW j \in Held'
        PROVE  /\ queue'[j].id < pkt' /\ queue'[j].id \notin lost'
               /\ queue'[j].slot = Back(hdrOffset', pkt' - queue'[j].id)
    <3>1. CASE j = n
      <4>1. pkt \notin lost
        BY <1>5 DEF RingInv, Accounted
      <4>2. hdrOffset = Back(hdrOffset', pkt' - pkt)
        BY <1>5 DEF Back
      <4> QED BY <1>1, <1>2, <1>5, <3>1, <4>1, <4>2
    <3>2. CASE j \in Held
      <4>1. queue'[j] = queue[j]
        BY <1>1, <1>3, <3>2
      <4>2. /\ queue[j].slot = Back(hdrOffset', pkt' - queue[j].id)
            /\ queue[j].id < pkt'
        BY <1>2, <3>2, FurtherBehind
      <4> QED BY <1>2, <3>2, <4>1, <4>2 DEF RingInv, Window
    <3> QED BY <1>3, <3>1, <3>2
  <2>2. ASSUME NEW i \in Held', NEW j \in Held', i < j
        PROVE  queue'[i].id < queue'[j].id
    <3>1. i \in Held /\ queue'[i] = queue[i]
      BY <1>1, <1>3, <2>2
    <3>2. CASE j = n
      BY <1>1, <1>6, <3>1, <3>2
    <3>3. CASE j \in Held
      <4>1. queue'[j] = queue[j]
        BY <1>1, <1>3, <3>3
      <4> QED BY <2>2, <3>1, <3>3, <4>1 DEF RingInv, Window
    <3> QED BY <1>3, <3>2, <3>3
  <2> QED BY <2>1, <2>2 DEF Window
<1>8. Near'
  <2>1. MaxFails \in Nat
    BY Numbers DEF RingInv
  <2>2. CASE Held = {}
    <3>1. others + 1 = n
      BY <1>1, <2>2 DEF Held
    <3>2. others' = others /\ Len(queue') = n /\ queue'[others + 1].id = pkt
      BY <1>1, <1>2, <3>1
    <3>3. Within(pkt + 1, pkt, n, others)
      BY <1>1, <1>5, <2>1, <3>1 DEF Within
    <3> QED BY <1>5, <3>2, <3>3 DEF Near
  <2>3. CASE Held # {}
    <3>1. others + 1 \in Held /\ others + 1 \in 1 .. Len(queue)
      BY <1>1, <2>3 DEF Held
    <3>2. queue'[others + 1] = queue[others + 1] /\ queue[others + 1].id \in Nat
      BY <1>1, <1>6, <3>1
    <3>3. pkt - queue[others + 1].id <= Len(queue) - others + MaxFails
      BY <2>3 DEF RingInv, Near, Within
    <3>4. Within(pkt + 1, queue[others + 1].id, Len(queue) + 1, others)
      BY <1>1, <1>5, <2>1, <3>2, <3>3 DEF Within
    <3>5. others' = others /\ pkt' = pkt + 1 /\ Len(queue') = Len(queue) + 1
      BY <1>1, <1>2, <1>5
    <3> QED BY <3>2, <3>4, <3>5 DEF Near
  <2> QED BY <2>2, <2>3
<1>9. Accounted'
  <2>1. Stream!Latest' = Stream!Latest
    BY <1>2 DEF Stream!Latest
  <2>2. /\ Stream!Latest \in Int /\ -1 <= Stream!Latest
        /\ Stream!Latest < pkt /\ lost \subseteq 0 .. pkt - 1
        /\ \A j \in Unread : queue[j].id > Stream!Latest
        /\ \A k \in Stream!Latest + 1 .. pkt - 1 :
             k \in lost \/ \E j \in Unread : queue[j].id = k
    BY DEF RingInv, Accounted
  <2> DEFINE l == Stream!Latest
  <2> HIDE DEF l
  <2>3. l \in Int /\ -1 <= l /\ l < pkt' /\ lost \subseteq 0 .. pkt' - 1
    BY <1>5, <2>2 DEF l
  <2>4. \A j \in Unread' : queue'[j].id > l
    BY <1>1, <1>4, <1>5, <2>2 DEF l
  <2>5. ASSUME NEW k \in l + 1 .. pkt' - 1
        PROVE  k \in lost \/ \E j \in Unread' : queue'[j].id = k
    <3>1. CASE k = pkt
      BY <1>1, <1>4, <3>1
    <3>2. CASE k # pkt
      <4>1. k \in l + 1 .. pkt - 1
        BY <1>5, <2>3, <3>2
      <4>2. k \in lost \/ \E j \in Unread : queue[j].id = k
        BY <2>2, <4>1 DEF l
      <4> QED BY <1>1, <1>4, <4>2
    <3> QED BY <3>1, <3>2
  <2> QED BY <1>2, <2>1, <2>3, <2>4, <2>5 DEF Accounted, l
<1>10. Built'
  BY DEF SendPacket, Advance, Built
<1>11. HeaderIntact'
  <2> SUFFICES ASSUME NEW j \in Unread'
               PROVE  ring[queue'[j].slot] = queue'[j].id
    BY <1>2 DEF HeaderIntact
  <2>1. CASE j = n
    BY <1>1, <2>1 DEF SendPacket, RingInv, Built
  <2>2. CASE j \in Unread
    BY <1>1, <1>4, <2>2 DEF RingInv, HeaderIntact
  <2> QED BY <1>4, <2>1, <2>2
<1> QED BY <1>7, <1>8, <1>9, <1>10, <1>11 DEF RingInv

LEMMA SendFailsInv ==
    ASSUME RingInv, TypeInv', Spare, SendFails
    PROVE  RingInv'
<1>1. /\ others' = others /\ queue' = queue /\ lost' = lost \cup {pkt}
      /\ wire' = wire /\ fetched' = fetched /\ ring' = ring /\ Advance
  BY DEF SendFails
<1>2. Held' = Held /\ Unread' = Unread
  BY <1>1 DEF Held, Unread
<1>3. /\ pkt \in Nat /\ pkt' = pkt + 1 /\ MaxFails \in Nat
      /\ Len(queue) \in Nat /\ others \in Nat /\ others <= Len(queue)
  BY <1>1, Numbers DEF RingInv, Advance
<1>4. \A j \in Held : queue[j].id \in Nat /\ queue[j].id < pkt
  BY WithinLap DEF RingInv, Window
<1>5. Window'
  <2>1. ASSUME NEW j \in Held
        PROVE  /\ queue[j].id < pkt' /\ queue[j].id \notin lost'
               /\ queue[j].slot = Back(hdrOffset', pkt' - queue[j].id)
    <3>1. /\ queue[j].slot = Back(hdrOffset', pkt' - queue[j].id)
          /\ queue[j].id < pkt'
      BY <1>1, FurtherBehind
    <3>2. queue[j].id # pkt /\ queue[j].id \notin lost
      BY <1>3, <1>4 DEF RingInv, Window
    <3> QED BY <1>1, <3>1, <3>2
  <2> QED BY <1>1, <1>2, <2>1 DEF RingInv, Window
<1>6. Near'
  <2> SUFFICES ASSUME Held # {}
               PROVE  Within(pkt + 1, queue[others + 1].id, Len(queue), others)
    <3>1. others' = others /\ pkt' = pkt + 1 /\ queue' = queue
      BY <1>1, <1>3
    <3> QED BY <1>2, <3>1 DEF Near
  <2>1. others < Len(queue) /\ others + 1 \in Held
    BY <1>3 DEF Held
  <2>2. Failed < MaxFails
    BY <1>3, <2>1 DEF SendFails, MayFail
  <2>3. pkt - queue[others + 1].id - (Len(queue) - others) < MaxFails
    BY <2>1, <2>2 DEF Failed
  <2> QED BY <1>3, <1>4, <2>1, <2>3 DEF Within
<1>7. Accounted'
  <2>1. Stream!Latest' = Stream!Latest
    BY <1>1 DEF Stream!Latest
  <2> DEFINE l == Stream!Latest
  <2>2. /\ l \in Int /\ -1 <= l
        /\ l < pkt /\ lost \subseteq 0 .. pkt - 1
        /\ \A j \in Unread : queue[j].id > l
        /\ \A k \in l + 1 .. pkt - 1 :
             k \in lost \/ \E j \in Unread : queue[j].id = k
    BY DEF RingInv, Accounted
  <2> HIDE DEF l
  <2>3. l < pkt' /\ lost' \subseteq 0 .. pkt' - 1
    BY <1>1, <1>3, <2>2
  <2>4. ASSUME NEW k \in l + 1 .. pkt' - 1
        PROVE  k \in lost' \/ \E j \in Unread : queue[j].id = k
    <3>1. k = pkt \/ k \in l + 1 .. pkt - 1
      BY <1>3, <2>2
    <3> QED BY <1>1, <2>2, <3>1
  <2>5. \A j \in Unread' : queue'[j].id > l
    BY <1>1, <1>2, <2>2
  <2>6. \A k \in l + 1 .. pkt' - 1 :
          k \in lost' \/ \E j \in Unread' : queue'[j].id = k
    BY <1>1, <1>2, <2>4
  <2> QED BY <2>1, <2>2, <2>3, <2>5, <2>6 DEF Accounted, l
<1>8. Built' /\ HeaderIntact'
  BY <1>1, <1>2 DEF SendFails, Advance, Built, HeaderIntact, RingInv
<1> QED BY <1>5, <1>6, <1>7, <1>8 DEF RingInv

\* What the DMA reads is the oldest packet under its own header, and all the
\* packets of this command before it are on the wire or lost.
LEMMA FetchEmits ==
    ASSUME RingInv, FetchHeader, others = 0
    PROVE  /\ wire' = Append(wire, [data |-> queue[1].id,
                                    header |-> queue[1].id])
           /\ 1 \in Unread /\ queue[1].id \in 0 .. MaxPkts
           /\ queue[1].id > Stream!Latest /\ queue[1].id \notin lost
           /\ Stream!Latest + 1 .. queue[1].id - 1 \subseteq lost
<1>1. /\ Len(queue) \in Nat /\ Len(queue) >= 1 /\ Head(queue) = queue[1]
      /\ ~fetched /\ 1 \in 1 .. Len(queue)
  BY DEF FetchHeader, RingInv, TypeInv, TypeOK
<1>2. 1 \in Unread /\ 1 \in Held
  BY <1>1 DEF Unread, Held
<1>3. ring[queue[1].slot] = queue[1].id
  BY <1>2 DEF RingInv, HeaderIntact
<1>4. wire' = Append(wire, [data |-> queue[1].id, header |-> queue[1].id])
  BY <1>1, <1>3 DEF FetchHeader
<1>5. /\ queue[1].id \in Nat /\ queue[1].id < pkt /\ queue[1].id \notin lost
      /\ pkt \in Nat /\ pkt <= MaxPkts /\ MaxPkts \in Nat
  BY <1>1, <1>2, QueueElements, Numbers DEF RingInv, Window, TypeInv
<1>6. queue[1].id > Stream!Latest
  BY <1>2 DEF RingInv, Accounted
<1>7. ASSUME NEW k \in Stream!Latest + 1 .. queue[1].id - 1
      PROVE  k \in lost
  <2>1. Stream!Latest \in Int
    BY DEF RingInv, Accounted
  <2>2. k \in Stream!Latest + 1 .. pkt - 1 /\ k < queue[1].id
    BY <1>5, <2>1
  <2>3. k \in lost \/ \E j \in Unread : queue[j].id = k
    BY <2>2 DEF RingInv, Accounted
  <2>4. ASSUME NEW j \in Unread PROVE queue[j].id # k
    <3>1. j \in Held /\ j \in Nat /\ queue[j].id \in Nat
      BY <1>1, UnreadHeld, QueueElements DEF Unread, RingInv, TypeInv
    <3>2. CASE j = 1
      BY <1>5, <2>1, <2>2, <3>2
    <3>3. CASE 1 < j
      <4>1. queue[1].id < queue[j].id
        BY <1>2, <3>1, <3>3 DEF RingInv, Window
      <4> QED BY <1>5, <2>1, <2>2, <3>1, <4>1
    <3> QED BY <3>1, <3>2, <3>3 DEF Unread
  <2> QED BY <2>3, <2>4
<1> QED BY <1>2, <1>4, <1>5, <1>6, <1>7

LEMMA FetchHeaderInv ==
    ASSUME RingInv, TypeInv', FetchHeader
    PROVE  RingInv'
<1>1. /\ UNCHANGED <<pkt, cpu, numPkts, hdrOffset, ring, queue, others, lost>>
      /\ ~fetched /\ fetched' = TRUE
      /\ Len(queue) \in Nat /\ Len(queue) >= 1 /\ others \in Nat
      /\ others <= Len(queue)
  BY Numbers DEF FetchHeader, loop, RingInv, TypeInv, TypeOK
<1>2. Held' = Held /\ Unread' = Unread \ {1}
  BY <1>1 DEF Held, Unread
<1>3. Window' /\ Near' /\ Built'
  BY <1>1, <1>2 DEF RingInv, Window, Near, Built, Back
<1>4. HeaderIntact'
  BY <1>1, <1>2 DEF RingInv, HeaderIntact
<1>5. CASE others > 0
  <2>1. wire' = wire /\ 1 \notin Unread
    BY <1>1, <1>5 DEF FetchHeader, Unread
  <2>2. Stream!Latest' = Stream!Latest /\ Unread' = Unread
    BY <1>2, <2>1 DEF Stream!Latest
  <2>3. Accounted'
    BY <1>1, <2>2 DEF RingInv, Accounted
  <2> QED BY <1>3, <1>4, <2>3 DEF RingInv
<1>6. CASE others = 0
  <2> DEFINE k0 == queue[1].id
  <2>1. /\ wire' = Append(wire, [data |-> k0, header |-> k0])
        /\ 1 \in Unread /\ k0 > Stream!Latest /\ k0 \in 0 .. MaxPkts
    BY <1>6, FetchEmits
  <2>2. wire \in Seq([data : Nat, header : Nat \cup {Stale}])
    BY DEF RingInv, TypeInv, TypeOK
  <2>3. k0 < pkt /\ pkt \in Nat
    BY <2>1, UnreadHeld, Numbers DEF RingInv, Window
  <2> HIDE DEF k0
  <2>4. Stream!Latest' = k0
    <3> DEFINE e == [data |-> k0, header |-> k0]
    <3>1. e.data = k0 /\ e \in [data : Nat, header : Nat \cup {Stale}]
      BY <2>1
    <3>2. wire' = Append(wire, e)
      BY <2>1
    <3> HIDE DEF e
    <3>3. wire' # <<>> /\ wire'[Len(wire')] = e
      BY <2>2, <3>1, <3>2
    <3> QED BY <3>1, <3>3 DEF Stream!Latest
  <2>5. ASSUME NEW j \in Unread \ {1} PROVE queue[j].id > k0
    <3>1. j \in Held /\ 1 \in Held /\ 1 < j
      BY <2>1, UnreadHeld DEF Unread
    <3>2. queue[1].id < queue[j].id
      BY <3>1 DEF RingInv, Window
    <3>3. queue[1].id \in Nat /\ queue[j].id \in Nat
      BY <1>1, QueueElements DEF Unread, RingInv, TypeInv
    <3> QED BY <3>2, <3>3 DEF k0
  <2>6. ASSUME NEW k \in k0 + 1 .. pkt - 1
        PROVE  k \in lost \/ \E j \in Unread \ {1} : queue[j].id = k
    <3>1. k \in Stream!Latest + 1 .. pkt - 1 /\ k # k0
      BY <2>1, <2>3 DEF RingInv, Accounted
    <3>2. k \in lost \/ \E j \in Unread : queue[j].id = k
      BY <3>1 DEF RingInv, Accounted
    <3> QED BY <3>1, <3>2 DEF k0
  <2>7. Accounted'
    <3>1. k0 \in Int /\ -1 <= k0
      BY <2>1
    <3>2. lost' \subseteq 0 .. pkt' - 1
      BY <1>1 DEF RingInv, Accounted
    <3>3. \A j \in Unread' : queue'[j].id > k0
      BY <1>1, <1>2, <2>5
    <3>4. \A k \in k0 + 1 .. pkt' - 1 :
            k \in lost' \/ \E j \in Unread' : queue'[j].id = k
      BY <1>1, <1>2, <2>6
    <3>5. k0 < pkt'
      BY <1>1, <2>3
    <3> QED BY <2>4, <3>1, <3>2, <3>3, <3>4, <3>5 DEF Accounted
  <2> QED BY <1>3, <1>4, <2>7 DEF RingInv
<1> QED BY <1>1, <1>5, <1>6

LEMMA FreePacketInv ==
    ASSUME RingInv, TypeInv', Spare, FreePacket
    PROVE  RingInv'
<1>1. /\ Len(queue) \in Nat /\ Len(queue) >= 1
      /\ Len(queue') = Len(queue) - 1
      /\ \A j \in 1 .. Len(queue) - 1 : queue'[j] = queue[j + 1]
      /\ others \in Nat /\ others <= Len(queue)
      /\ others' = IF others > 0 THEN others - 1 ELSE 0
  BY FreeType, Numbers DEF RingInv, FreePacket
<1>2. /\ UNCHANGED <<pkt, cpu, numPkts, hdrOffset, ring, wire, lost>>
      /\ fetched /\ fetched' = FALSE
  BY DEF FreePacket, loop
<1>3. ASSUME NEW j \in Held'
      PROVE  j + 1 \in Held /\ queue'[j] = queue[j + 1] /\ j \in Nat
  BY <1>1 DEF Held
<1>4. Window'
  <2>1. ASSUME NEW j \in Held'
        PROVE  /\ queue'[j].id < pkt' /\ queue'[j].id \notin lost'
               /\ queue'[j].slot = Back(hdrOffset', pkt' - queue'[j].id)
    BY <1>2, <1>3 DEF RingInv, Window
  <2>2. ASSUME NEW i \in Held', NEW j \in Held', i < j
        PROVE  queue'[i].id < queue'[j].id
    <3>1. i + 1 \in Held /\ j + 1 \in Held /\ i + 1 < j + 1
      BY <1>3, <2>2
    <3>2. queue[i + 1].id < queue[j + 1].id
      BY <3>1 DEF RingInv, Window
    <3> QED BY <1>3, <3>2
  <2> QED BY <2>1, <2>2 DEF Window
<1>5. Near'
  <2> SUFFICES ASSUME Held' # {}
               PROVE  pkt - queue'[others' + 1].id
                        <= Len(queue') - others' + MaxFails
    BY <1>2 DEF Near, Within
  <2>1. others' + 1 \in Held'
    BY <1>1 DEF Held
  <2>2. others' + 2 \in Held /\ queue'[others' + 1] = queue[others' + 2]
    BY <1>1, <1>3, <2>1
  <2>3. others + 1 \in Held
    BY <1>1, <2>2 DEF Held
  <2>4. pkt - queue[others + 1].id <= Len(queue) - others + MaxFails
    BY <2>3 DEF RingInv, Near, Within
  <2>5. /\ queue[others + 1].id \in Nat /\ queue[others' + 2].id \in Nat
        /\ pkt \in Nat /\ MaxFails \in Nat
    BY <2>2, <2>3, WithinLap, Numbers DEF RingInv
  <2>6. CASE others > 0
    <3>1. others' + 2 = others + 1 /\ Len(queue') - others' = Len(queue) - others
      BY <1>1, <2>6
    <3> QED BY <2>2, <2>4, <3>1
  <2>7. CASE others = 0
    <3>1. others' = 0
      BY <1>1, <2>7
    <3>2. 1 \in Held /\ 2 \in Held
      BY <2>2, <2>3, <2>7, <3>1
    <3>3. queue[1].id < queue[2].id
      BY <3>2 DEF RingInv, Window
    <3>4. pkt - queue[2].id <= Len(queue) - 1 + MaxFails
      BY <1>1, <2>4, <2>5, <2>7, <3>1, <3>3
    <3> QED BY <1>1, <2>2, <3>1, <3>4
  <2> QED BY <1>1, <2>6, <2>7
<1>6. \A j \in Unread' : j + 1 \in Unread /\ queue'[j] = queue[j + 1]
  BY <1>1, <1>2 DEF Unread
<1>7. \A j \in Unread : j - 1 \in Unread' /\ queue'[j - 1] = queue[j]
  BY <1>1, <1>2 DEF Unread
<1>8. Accounted'
  <2>1. Stream!Latest' = Stream!Latest
    BY <1>2 DEF Stream!Latest
  <2> DEFINE l == Stream!Latest
  <2>2. /\ l \in Int /\ -1 <= l
        /\ l < pkt /\ lost \subseteq 0 .. pkt - 1
        /\ \A j \in Unread : queue[j].id > l
        /\ \A k \in l + 1 .. pkt - 1 :
             k \in lost \/ \E j \in Unread : queue[j].id = k
    BY DEF RingInv, Accounted
  <2> HIDE DEF l
  <2>3. \A j \in Unread' : queue'[j].id > l
    BY <1>6, <2>2
  <2>4. ASSUME NEW k \in l + 1 .. pkt - 1
        PROVE  k \in lost \/ \E j \in Unread' : queue'[j].id = k
    <3>1. CASE k \in lost
      BY <3>1
    <3>2. CASE k \notin lost
      <4>1. PICK j \in Unread : queue[j].id = k
        BY <2>2, <3>2
      <4> QED BY <1>7, <4>1
    <3> QED BY <3>1, <3>2
  <2> QED BY <1>2, <2>1, <2>2, <2>3, <2>4 DEF Accounted, l
<1>9. Built' /\ HeaderIntact'
  BY <1>2, <1>6 DEF RingInv, Built, HeaderIntact
<1> QED BY <1>4, <1>5, <1>8, <1>9 DEF RingInv

-----------------------------------------------------------------------------
\* One step of the system, or a stutter, preserves the invariant.
LEMMA NextRingInv ==
    ASSUME RingInv, Spare, [Next]_vars
    PROVE  RingInv'
<1>1. TypeInv'
  BY NextTypeInv DEF RingInv
<1>2. ASSUME NEW n \in 0 .. MaxPkts, StartRead(n) PROVE RingInv'
  BY <1>1, <1>2, StartReadInv
<1>3. CASE CpuStep
  BY <1>1, <1>3, BuildHeaderInv, SendPacketInv, SendFailsInv DEF CpuStep
<1>4. CASE DmaStep
  BY <1>1, <1>4, FetchHeaderInv, FreePacketInv DEF DmaStep
<1>5. CASE UNCHANGED vars
  <2>1. Stream!Latest' = Stream!Latest /\ Unread' = Unread /\ Held' = Held
    BY <1>5 DEF vars, Stream!Latest, Unread, Held
  <2> QED
    BY <1>1, <1>5, <2>1
    DEF vars, loop, RingInv, Window, Near, Accounted, Built, HeaderIntact, Back
<1> QED BY <1>2, <1>3, <1>4, <1>5 DEF Next

\* With Spare the invariant holds in every state, whatever packets fail and
\* whatever the driver still holds of the command before.
THEOREM RingInvariant == Spare => (Spec => []RingInv)
<1> SUFFICES ASSUME Spare PROVE Spec => []RingInv
  OBVIOUS
<1>1. Init => RingInv
  BY InitRingInv
<1>2. RingInv /\ [Next]_vars => RingInv'
  BY NextRingInv
<1> QED BY <1>1, <1>2, PTL DEF Spec

\* With Spare no header of the loop is rebuilt while the DMA still has to
\* read it.
THEOREM HeadersSafe == Spare => (Spec => []HeaderIntact)
<1>1. RingInv => HeaderIntact
  BY DEF RingInv
<1> QED BY <1>1, RingInvariant, PTL

\* With Spare the loop, the driver and the DMA implement the packet stream.
THEOREM ImplementsStream == Spare => (Spec => StreamSpec)
<1> SUFFICES ASSUME Spare PROVE Spec => StreamSpec
  OBVIOUS
<1>1. Init => Stream!Init
  BY DEF Init, Stream!Init
<1>2. RingInv /\ [Next]_vars => [Stream!Next]_<<wire, lost>>
  <2> SUFFICES ASSUME RingInv, [Next]_vars
               PROVE  [Stream!Next]_<<wire, lost>>
    OBVIOUS
  <2>1. ASSUME NEW n \in 0 .. MaxPkts, StartRead(n)
        PROVE  Stream!Restart
    BY <2>1 DEF StartRead, Stream!Restart
  <2>2. CASE BuildHeader \/ SendPacket \/ FreePacket
    BY <2>2 DEF BuildHeader, SendPacket, FreePacket
  <2>3. CASE SendFails
    <3>1. pkt \in 0 .. MaxPkts
      BY DEF RingInv, TypeInv, TypeOK
    <3>2. pkt > Stream!Latest /\ pkt \notin lost
      BY <3>1 DEF RingInv, Accounted
    <3>3. lost' = lost \cup {pkt} /\ wire' = wire
      BY <2>3 DEF SendFails
    <3> QED BY <3>1, <3>2, <3>3 DEF Stream!Next, Stream!Lose
  <2>4. CASE FetchHeader
    <3>1. CASE others > 0
      BY <2>4, <3>1 DEF FetchHeader
    <3>2. CASE others = 0
      <4>1. lost' = lost
        BY <2>4 DEF FetchHeader
      <4> QED BY <2>4, <3>2, <4>1, FetchEmits DEF Stream!Next, Stream!Emit
    <3> QED BY <3>1, <3>2 DEF RingInv, TypeInv, TypeOK
  <2>5. CASE UNCHANGED vars
    BY <2>5 DEF vars
  <2> QED
    BY <2>1, <2>2, <2>3, <2>4, <2>5
    DEF Next, CpuStep, DmaStep, Stream!Next
<1>3. Spec => []RingInv
  BY RingInvariant
<1> QED BY <1>1, <1>2, <1>3, PTL DEF Spec, StreamSpec, Stream!Spec
=============================================================================
