------------------------ MODULE ReadIqTransfer_proofs ------------------------
(***************************************************************************)
(* Proof, for reads, packets, requests and retry limits of any size, that  *)
(* the host keeps within its tracker, that the node is never asked for     *)
(* more than the caller's samples, and that a read returns its own         *)
(* samples, all of them, and leaves nothing under way.                     *)
(*                                                                         *)
(* None of them is inductive.  ReadInv adds where a request lies: the      *)
(* requests of a read follow one another in multiples of full packets      *)
(* (Placed), and what is asked for after a timeout or a failed check ends  *)
(* where the request ends (SameEnd).  CleanInv adds what is in flight:     *)
(* one request, one deferral, or the last packets of the request, which    *)
(* are in their places if none of it was lost (Traffic); and that the      *)
(* samples before the request, and those of the packets counted, are in    *)
(* the output array (Here).                                                *)
(***************************************************************************)
EXTENDS ReadIqTransfer, SequenceTheorems, WellFoundedInduction, TLAPS

Requests == [start : Int, num : Int, pkts : Nat]

Msgs == [ready : BOOLEAN, id : 0 .. MaxReads, start : Int, num : Int]

Entries == [start : Int, num : Int]

Typed ==
    /\ pc \in {"idle", "send", "receive", "done", "dead"}
    /\ read \in 0 .. MaxReads
    /\ left \in 0 .. NumPkts
    /\ req \in Requests
    /\ args \in Requests
    /\ tracker \in [1 .. req.pkts -> Entries]
    /\ rcvd \in 0 .. req.pkts
    /\ args.pkts \in 0 .. req.pkts
    /\ retries \in 0 .. MaxRetry
    /\ iqRetries \in 0 .. MaxIqRetry + 1
    /\ out \in [Positions -> 0 .. MaxReads]
    /\ toNode \in Seq([id : 0 .. MaxReads, args : Requests])
    /\ toHost \in Seq(Msgs)
    /\ deferred \in 0 .. MaxDefer

\* While a request is under way it lacks a packet, and was not put off too often.
Waiting == pc \in {"send", "receive"} => rcvd < req.pkts /\ iqRetries <= MaxIqRetry

\* Where the request lies, and how many packets it has.
Placed ==
    pc \in {"send", "receive"} =>
        /\ left > 0
        /\ OneRequest => req = Request(0, NumSamples, NumPkts)
        /\ ~OneRequest =>
               /\ req = NextRequest((NumPkts - left) * MaxSamp, left)
               /\ \E m \in Nat : left = NumPkts - m * UsefulPkts

SameEnd == args.start + args.num = req.start + req.num

\* The last request of a read takes what the division leaves over, unless
\* there is nothing over, and then the last packet is a full one.
LastRequestFits ==
    NumPkts % UsefulPkts # 0 \/ NumSamples = NumPkts * MaxSamp

Fits == LastRequestFits => req.start + req.num <= NumSamples

ReadInv == Typed /\ Waiting /\ Placed /\ SameEnd /\ Fits

\* The first n packets of tracker t are the first n of request q, in order.
InPlace(t, q, n) == \A j \in 1 .. n : t[j].start = q.start + (j - 1) * MaxSamp

-----------------------------------------------------------------------------
(* Arithmetic and the operators of the model.                              *)

(* A nonempty set of numbers up to n has a largest. *)
LEMMA MaxExists ==
    ASSUME NEW n \in Nat, NEW S, S \subseteq 0 .. n, S # {}
    PROVE  Max(S) \in S /\ \A y \in S : Max(S) >= y
<1> DEFINE less == {p \in Nat \X Nat : p[1] < p[2]}
           T == {n - x : x \in S}
<1>1. IsWellFoundedOn(less, Nat)
  BY NatLessThanWellFounded DEF OpToRel
<1>2. T \subseteq Nat
  OBVIOUS
<1>3. T # {}
<2>1. PICK x : x \in S
  OBVIOUS
<2>2. n - x \in T
  BY <2>1
<2> QED
  BY <2>2
<1> HIDE DEF less
<1>4. PICK a \in T : \A y \in T : <<y, a>> \notin less
  BY <1>1, <1>2, <1>3, WFMin, Zenon
<1>5. PICK x \in S : a = n - x
  OBVIOUS
<1>6. ASSUME NEW y \in S PROVE x >= y
<2>1. n - y \in T /\ n - y \in Nat /\ a \in Nat
  BY <1>2
<2>2. <<n - y, a>> \notin less
  BY <1>4, <2>1
<2>3. ~ (n - y < a)
  BY <2>1, <2>2 DEF less
<2> QED
  BY <1>5, <2>3
<1> QED
  BY <1>6 DEF Max

(* What the search for the error returns: a prefix that is in order, and   *)
(* all of the packets if all are.                                          *)
LEMMA InOrderBounds ==
    ASSUME NEW n \in Nat, NEW t
    PROVE  /\ InOrder(t, n) \in 0 .. n
           /\ InPlace(t, req, InOrder(t, n))
           /\ InPlace(t, req, n) => InOrder(t, n) = n
<1> DEFINE S == {k \in 0 .. n : \A j \in 1 .. k :
                     t[j].start = req.start + (j - 1) * MaxSamp}
<1>1. S \subseteq 0 .. n
  OBVIOUS
<1>2. 0 \in S
  OBVIOUS
<1>3. Max(S) \in S /\ \A y \in S : Max(S) >= y
  BY <1>1, <1>2, MaxExists
<1>4. InOrder(t, n) = Max(S)
  BY DEF InOrder
<1>5. InPlace(t, req, n) => n \in S
  BY DEF InPlace
<1>6. \A x \in S : x \in 0 .. n /\ InPlace(t, req, x)
  BY DEF InPlace
<1> HIDE DEF S
<1>7. InPlace(t, req, n) => Max(S) = n
<2> HAVE InPlace(t, req, n)
<2>1. Max(S) >= n /\ Max(S) \in 0 .. n
  BY <1>3, <1>5, <1>6
<2> QED
  BY <2>1
<1> QED
  BY <1>3, <1>4, <1>6, <1>7

(* The packets hold the samples, and all but the last are full. *)
LEMMA Packets ==
    /\ NumPkts \in Nat \ {0}
    /\ (NumPkts - 1) * MaxSamp < NumSamples
    /\ NumSamples <= NumPkts * MaxSamp
<1>1. NumSamples \in Nat \ {0} /\ MaxSamp \in Nat \ {0}
  BY ReadIqAssumption
<1> DEFINE a == NumSamples + MaxSamp - 1
           q == a \div MaxSamp
           r == a % MaxSamp
<1>2. a \in Nat /\ a >= MaxSamp
  BY <1>1
<1>3. q \in Int /\ r \in 0 .. MaxSamp - 1 /\ a = MaxSamp * q + r
  BY <1>1, <1>2
<1> HIDE DEF q, r
<1>4. q > 0
<2> SUFFICES ASSUME q <= 0 PROVE FALSE
  BY <1>3
<2>1. MaxSamp * q <= 0
  BY <1>1, <1>3
<2> QED
  BY <1>1, <1>2, <1>3, <2>1
<1>5. NumPkts = q
  BY DEF NumPkts, CeilDiv, q
<1>6. (q - 1) * MaxSamp = MaxSamp * q - MaxSamp /\ q * MaxSamp = MaxSamp * q
  BY <1>1, <1>3
<1> QED
  BY <1>1, <1>3, <1>4, <1>5, <1>6

LEMMA Products ==
    ASSUME NEW a \in Int, NEW b \in Int, NEW c \in Nat, a <= b
    PROVE  a * c <= b * c /\ a * c \in Int /\ b * c \in Int
<1>1. (b - a) * c >= 0
  OBVIOUS
<1> QED
  BY <1>1

(* A request is one, and has a packet. *)
LEMMA RequestTyped ==
    ASSUME NEW start \in Int, NEW i \in 1 .. NumPkts
    PROVE  /\ NextRequest(start, i) \in Requests
           /\ NextRequest(start, i).pkts > 0
           /\ ~OneRequest => NextRequest(start, i).pkts <= i
<1>1. /\ NumSamples \in Nat \ {0} /\ MaxSamp \in Nat \ {0}
      /\ UsefulPkts \in Nat \ {0} /\ NumPkts \in Nat \ {0}
  BY ReadIqAssumption, Packets
<1>2. (NumPkts - i) * MaxSamp \in Int /\ UsefulPkts * MaxSamp \in Int
  BY <1>1
<1>3. CASE OneRequest
  BY <1>1, <1>3 DEF NextRequest, Request, Requests
<1>4. CASE ~OneRequest /\ i < UsefulPkts
  BY <1>1, <1>2, <1>4 DEF NextRequest, Request, Requests
<1>5. CASE ~OneRequest /\ ~(i < UsefulPkts)
  BY <1>1, <1>2, <1>5 DEF NextRequest, Request, Requests
<1> QED
  BY <1>3, <1>4, <1>5

(* Where the conditions hold, no request of a read ends past its samples. *)
LEMMA RequestFits ==
    ASSUME LastRequestFits, ~OneRequest, NEW i \in 1 .. NumPkts,
           NEW m \in Nat, i = NumPkts - m * UsefulPkts,
           NEW r, r = NextRequest((NumPkts - i) * MaxSamp, i)
    PROVE  r.start + r.num <= NumSamples
<1>1. /\ NumSamples \in Nat \ {0} /\ MaxSamp \in Nat \ {0}
      /\ UsefulPkts \in Nat \ {0} /\ NumPkts \in Nat \ {0}
  BY ReadIqAssumption, Packets
<1>2. (NumPkts - i) * MaxSamp \in Int
  BY <1>1
<1>3. CASE i < UsefulPkts
  BY <1>1, <1>2, <1>3 DEF NextRequest, Request
<1>4. CASE i >= UsefulPkts
<2>1. r.start + r.num = (NumPkts - i) * MaxSamp + UsefulPkts * MaxSamp
  BY <1>1, <1>4 DEF NextRequest, Request
<2>2. r.start + r.num = (NumPkts - i + UsefulPkts) * MaxSamp
  BY <1>1, <2>1
<2>3. CASE i > UsefulPkts
<3>1. NumPkts - i + UsefulPkts <= NumPkts - 1
  BY <1>1, <2>3
<3>2. (NumPkts - i + UsefulPkts) * MaxSamp <= (NumPkts - 1) * MaxSamp
  BY <1>1, <3>1, Products
<3>3. (NumPkts - 1) * MaxSamp \in Int
  BY <1>1
<3> QED
  BY <1>1, <2>2, <3>2, <3>3, Packets
<2>4. CASE i = UsefulPkts
<3>1. NumPkts = (m + 1) * UsefulPkts
  BY <1>1, <2>4
<3>2. NumPkts % UsefulPkts = 0
  BY <1>1, <3>1
<3>3. NumSamples = NumPkts * MaxSamp
  BY <3>2 DEF LastRequestFits
<3> QED
  BY <1>1, <2>2, <2>4, <3>3
<2> QED
  BY <1>1, <1>4, <2>3, <2>4
<1> QED
  BY <1>1, <1>3, <1>4
-----------------------------------------------------------------------------
(* The host.                                                               *)

LEMMA InitRead == Init => ReadInv
<1> SUFFICES ASSUME Init PROVE ReadInv
  OBVIOUS
<1>1. NumPkts \in Nat \ {0} /\ NumSamples \in Nat \ {0}
  BY ReadIqAssumption, Packets
<1>2. NoRequest \in Requests /\ NoRequest = [start |-> 0, num |-> 0, pkts |-> 0]
  BY DEF NoRequest, Request, Requests
<1>3. /\ read \in 0 .. MaxReads /\ deferred \in 0 .. MaxDefer
      /\ retries \in 0 .. MaxRetry /\ iqRetries \in 0 .. MaxIqRetry + 1
      /\ left \in 0 .. NumPkts
  BY <1>1, ReadIqAssumption DEF Init
<1>4. /\ tracker \in [1 .. req.pkts -> Entries]
      /\ out \in [Positions -> 0 .. MaxReads]
  BY <1>2, ReadIqAssumption DEF Init
<1>5. Typed
  BY <1>2, <1>3, <1>4 DEF Init, Typed
<1>6. Waiting /\ Placed /\ SameEnd /\ Fits
  BY <1>1, <1>2 DEF Init, Waiting, Placed, SameEnd, Fits
<1> QED
  BY <1>5, <1>6 DEF ReadInv

(* A fresh request: of a new read, or the next one of the same read. *)
LEMMA Calls ==
    ASSUME NEW start \in Int, NEW i \in 1 .. NumPkts, Call(start, i),
           OneRequest => start = 0 /\ i = NumPkts,
           ~OneRequest => start = (NumPkts - i) * MaxSamp,
           \E m \in Nat : i = NumPkts - m * UsefulPkts
    PROVE  /\ pc' = "send" /\ left' \in 0 .. NumPkts
           /\ req' \in Requests /\ args' = req'
           /\ tracker' \in [1 .. req'.pkts -> Entries]
           /\ rcvd' = 0 /\ retries' = 0 /\ iqRetries' = 0
           /\ Waiting' /\ Placed' /\ SameEnd' /\ Fits'
<1>1. /\ NumSamples \in Nat \ {0} /\ MaxSamp \in Nat \ {0}
      /\ UsefulPkts \in Nat \ {0} /\ NumPkts \in Nat \ {0}
      /\ MaxIqRetry \in Nat
  BY ReadIqAssumption, Packets
<1>2. /\ pc' = "send" /\ left' = i /\ rcvd' = 0
      /\ retries' = 0 /\ iqRetries' = 0
      /\ req' = NextRequest(start, i) /\ args' = req'
      /\ tracker' = [k \in 1 .. req'.pkts |-> NoPacket]
  BY DEF Call
<1>3. /\ req' \in Requests /\ req'.pkts > 0
  BY <1>2, RequestTyped
<1>4. tracker' \in [1 .. req'.pkts -> Entries]
  BY <1>2 DEF NoPacket, Entries
<1>5. Waiting'
  BY <1>1, <1>2, <1>3 DEF Waiting
<1>6. Placed'
<2>1. CASE OneRequest
  BY <1>1, <1>2, <2>1 DEF Placed, NextRequest
<2>2. CASE ~OneRequest
  BY <1>1, <1>2, <2>2 DEF Placed
<2> QED
  BY <2>1, <2>2
<1>7. SameEnd'
  BY <1>2 DEF SameEnd
<1>8. Fits'
<2> SUFFICES ASSUME LastRequestFits PROVE req'.start + req'.num <= NumSamples
  BY DEF Fits
<2>1. CASE OneRequest
  BY <1>1, <1>2, <2>1 DEF NextRequest, Request
<2>2. CASE ~OneRequest
<3>1. PICK m \in Nat : i = NumPkts - m * UsefulPkts
  OBVIOUS
<3>2. req' = NextRequest((NumPkts - i) * MaxSamp, i)
  BY <1>2, <2>2
<3> QED
  BY <2>2, <3>1, <3>2, RequestFits
<2> QED
  BY <2>1, <2>2
<1> QED
  BY <1>1, <1>2, <1>3, <1>4, <1>5, <1>6, <1>7, <1>8

LEMMA StartReadStep ==
    ASSUME ReadInv, StartRead
    PROVE  ReadInv'
<1>1. /\ read' = read + 1 /\ read < MaxReads /\ Call(0, NumPkts)
      /\ UNCHANGED <<out, toNode, toHost, deferred>>
  BY DEF StartRead
<1>2. /\ NumPkts \in 1 .. NumPkts /\ NumPkts = NumPkts - 0 * UsefulPkts
      /\ (NumPkts - NumPkts) * MaxSamp = 0
  BY Packets, ReadIqAssumption
<1>3. /\ pc' = "send" /\ left' \in 0 .. NumPkts
      /\ req' \in Requests /\ args' = req'
      /\ tracker' \in [1 .. req'.pkts -> Entries]
      /\ rcvd' = 0 /\ retries' = 0 /\ iqRetries' = 0
      /\ Waiting' /\ Placed' /\ SameEnd' /\ Fits'
<2>1. \E m \in Nat : NumPkts = NumPkts - m * UsefulPkts
  BY <1>2
<2> QED
  BY <1>1, <1>2, <2>1, Calls
<1>4. /\ read' \in 0 .. MaxReads /\ rcvd' \in 0 .. req'.pkts
      /\ args'.pkts \in 0 .. req'.pkts
      /\ retries' \in 0 .. MaxRetry /\ iqRetries' \in 0 .. MaxIqRetry + 1
<2>1. read' \in 0 .. MaxReads
  BY <1>1, ReadIqAssumption DEF ReadInv, Typed
<2>2. req'.pkts \in Nat /\ args'.pkts = req'.pkts
  BY <1>3 DEF Requests
<2>3. MaxRetry \in Nat /\ MaxIqRetry \in Nat
  BY ReadIqAssumption
<2> QED
  BY <1>3, <2>1, <2>2, <2>3
<1>5. Typed'
  BY <1>1, <1>3, <1>4 DEF ReadInv, Typed
<1> QED
  BY <1>3, <1>5 DEF ReadInv

(* What comes after a prefix of the request ends where the request ends. *)
LEMMA Remaining ==
    ASSUME req \in Requests, NEW k \in 0 .. req.pkts
    PROVE  /\ Remainder(k) \in Requests
           /\ Remainder(k).pkts \in 0 .. req.pkts
           /\ Remainder(k).start + Remainder(k).num = req.start + req.num
<1>1. k * MaxSamp \in Int
  BY ReadIqAssumption
<1> QED
  BY <1>1 DEF Remainder, Request, Requests

(* A step that keeps the request and asks for it, or for a part of it. *)
LEMMA SameRequest ==
    ASSUME ReadInv, UNCHANGED <<read, left, req>>,
           pc' \in {"send", "receive", "done", "dead"},
           pc' \in {"send", "receive"} =>
               pc \in {"send", "receive"} /\ rcvd' < req.pkts
               /\ iqRetries' <= MaxIqRetry,
           args' = args \/ \E k \in 0 .. req.pkts : args' = Remainder(k),
           tracker' \in [1 .. req.pkts -> Entries],
           rcvd' \in 0 .. req.pkts,
           retries' \in 0 .. MaxRetry, iqRetries' \in 0 .. MaxIqRetry + 1,
           out' \in [Positions -> 0 .. MaxReads],
           toNode' \in Seq([id : 0 .. MaxReads, args : Requests]),
           toHost' \in Seq(Msgs), deferred' \in 0 .. MaxDefer
    PROVE  ReadInv'
<1>1. /\ args' \in Requests /\ args'.pkts \in 0 .. req.pkts
      /\ args'.start + args'.num = req.start + req.num
<2>1. CASE args' = args
  BY <2>1 DEF ReadInv, Typed, SameEnd
<2>2. CASE \E k \in 0 .. req.pkts : args' = Remainder(k)
  BY <2>2, Remaining DEF ReadInv, Typed
<2> QED
  BY <2>1, <2>2
<1>2. Typed'
  BY <1>1 DEF ReadInv, Typed
<1>3. Waiting' /\ SameEnd'
  BY <1>1 DEF Waiting, SameEnd
<1>4. Placed' /\ Fits'
  BY DEF ReadInv, Placed, Fits
<1> QED
  BY <1>2, <1>3, <1>4 DEF ReadInv

LEMMA SendRequestStep ==
    ASSUME ReadInv, SendRequest
    PROVE  ReadInv'
<1>1. /\ pc = "send" /\ pc' = "receive"
      /\ toNode' = Append(toNode, [id |-> read, args |-> args])
      /\ UNCHANGED <<read, left, req, args, tracker, rcvd, retries, iqRetries,
                     out, toHost, deferred>>
  BY DEF SendRequest
<1>2. toNode' \in Seq([id : 0 .. MaxReads, args : Requests])
  BY <1>1 DEF ReadInv, Typed
<1> QED
  BY <1>1, <1>2, SameRequest DEF ReadInv, Typed, Waiting

LEMMA TimeoutStep ==
    ASSUME ReadInv, Timeout
    PROVE  ReadInv'
<1> DEFINE k == InOrder(tracker, rcvd)
<1>1. /\ pc = "receive"
      /\ UNCHANGED <<read, left, req, tracker, iqRetries, out, toNode, toHost,
                     deferred>>
  BY DEF Timeout
<1>2. rcvd \in Nat /\ rcvd < req.pkts /\ k \in 0 .. rcvd /\ req.pkts \in Nat
  BY <1>1, InOrderBounds DEF ReadInv, Typed, Waiting, Requests
<1> HIDE DEF k
<1>3. CASE retries >= MaxRetry
<2>1. pc' = "dead" /\ UNCHANGED <<args, rcvd, retries>>
  BY <1>3 DEF Timeout
<2> QED
  BY <1>1, <2>1, SameRequest DEF ReadInv, Typed
<1>4. CASE ~(retries >= MaxRetry)
<2>1. /\ pc' = "send" /\ args' = Remainder(k) /\ rcvd' = k
      /\ retries' = retries + 1
  BY <1>4 DEF Timeout, k
<2>2. retries' \in 0 .. MaxRetry
  BY <1>4, <2>1, ReadIqAssumption DEF ReadInv, Typed
<2>3. k \in 0 .. req.pkts /\ k < req.pkts
  BY <1>2
<2> QED
  BY <1>1, <2>1, <2>2, <2>3, SameRequest DEF ReadInv, Typed, Waiting
<1> QED
  BY <1>3, <1>4

LEMMA ReceiveNotReadyStep ==
    ASSUME ReadInv, ReceiveNotReady
    PROVE  ReadInv'
<1>1. /\ pc = "receive" /\ toHost # <<>> /\ toHost' = Tail(toHost)
      /\ toNode' = Append(toNode, [id |-> read, args |-> args])
      /\ iqRetries' = iqRetries + 1
      /\ pc' = IF iqRetries' > MaxIqRetry THEN "dead" ELSE "receive"
      /\ UNCHANGED <<read, left, req, args, tracker, rcvd, retries, out,
                     deferred>>
  BY DEF ReceiveNotReady
<1>2. toNode' \in Seq([id : 0 .. MaxReads, args : Requests])
  BY <1>1 DEF ReadInv, Typed
<1>3. toHost' \in Seq(Msgs)
  BY <1>1 DEF ReadInv, Typed
<1>4. /\ iqRetries <= MaxIqRetry /\ iqRetries' \in 0 .. MaxIqRetry + 1
      /\ pc' = "receive" => iqRetries' <= MaxIqRetry
      /\ pc' \in {"receive", "dead"} /\ rcvd < req.pkts
<2>1. iqRetries <= MaxIqRetry /\ rcvd < req.pkts
  BY <1>1 DEF ReadInv, Waiting
<2>2. iqRetries \in 0 .. MaxIqRetry + 1
  BY DEF ReadInv, Typed
<2>3. MaxIqRetry \in Nat
  BY ReadIqAssumption
<2>4. iqRetries' \in 0 .. MaxIqRetry + 1
  BY <1>1, <2>1, <2>2, <2>3
<2>5. /\ pc' = "receive" => iqRetries' <= MaxIqRetry
      /\ pc' \in {"receive", "dead"}
<3>1. CASE iqRetries' > MaxIqRetry
  BY <1>1, <3>1
<3>2. CASE ~(iqRetries' > MaxIqRetry)
  BY <1>1, <2>3, <2>4, <3>2
<3> QED
  BY <3>1, <3>2
<2> QED
  BY <2>1, <2>4, <2>5
<1> QED
  BY <1>1, <1>2, <1>3, <1>4, SameRequest DEF ReadInv, Typed

LEMMA ReceivePacketStep ==
    ASSUME ReadInv, ReceivePacket
    PROVE  ReadInv'
<1> DEFINE m == Head(toHost)
           t == [tracker EXCEPT ![rcvd + 1] = [start |-> m.start, num |-> m.num]]
           n == rcvd + 1
<1>1. /\ pc = "receive" /\ toHost # <<>> /\ toHost' = Tail(toHost)
      /\ out' = Place(m)
      /\ UNCHANGED <<read, toNode, deferred>>
  BY DEF ReceivePacket
<1>2. m \in Msgs /\ toHost' \in Seq(Msgs)
  BY <1>1 DEF ReadInv, Typed
<1>3. out' \in [Positions -> 0 .. MaxReads]
  BY <1>1, <1>2 DEF Place, Msgs, ReadInv, Typed
<1>4. t \in [1 .. req.pkts -> Entries]
  BY <1>2 DEF Msgs, Entries, ReadInv, Typed
<1>5. n \in 1 .. req.pkts /\ rcvd < req.pkts /\ req.pkts \in Nat
  BY <1>1 DEF ReadInv, Typed, Waiting, Requests
<1>6. InOrder(t, n) \in 0 .. n
  BY <1>5, InOrderBounds
<1>7. 0 \in 0 .. MaxIqRetry + 1 /\ 0 <= MaxIqRetry
  BY ReadIqAssumption
<1>8. \/ Continue(t, n, numRcvd + m.num)
      \/ Complete(t, n)
      \/ Repeat(t, n, numRcvd + m.num)
  BY DEF ReceivePacket
<1> HIDE DEF t, n, m
<1>9. CASE Continue(t, n, numRcvd + m.num)
<2>1. /\ n < req.pkts /\ tracker' = t /\ rcvd' = n /\ iqRetries' = 0
      /\ UNCHANGED <<pc, left, req, args, retries>>
  BY <1>9 DEF Continue
<2> QED
  BY <1>1, <1>2, <1>3, <1>4, <1>5, <1>7, <2>1, SameRequest DEF ReadInv, Typed
<1>10. CASE Complete(t, n) /\ LastRequest
<2>1. /\ pc' = "done" /\ tracker' = t /\ rcvd' = n /\ left' = 0
      /\ iqRetries' = 0 /\ UNCHANGED <<req, args, retries>>
  BY <1>10 DEF Complete
<2>2. 0 \in 0 .. NumPkts
  BY Packets
<2>3. Typed'
  BY <1>1, <1>2, <1>3, <1>4, <1>5, <1>7, <2>1, <2>2 DEF ReadInv, Typed
<2>4. Waiting' /\ Placed' /\ SameEnd' /\ Fits'
  BY <2>1 DEF ReadInv, Waiting, Placed, SameEnd, Fits
<2> QED
  BY <2>3, <2>4 DEF ReadInv
<1>11. CASE Complete(t, n) /\ ~LastRequest
<2>1. Call(req.start + req.num, left - req.pkts)
  BY <1>11 DEF Complete
<2>2. /\ ~OneRequest /\ left > UsefulPkts /\ left \in 0 .. NumPkts
      /\ req = NextRequest((NumPkts - left) * MaxSamp, left)
  BY <1>1, <1>11, ReadIqAssumption
     DEF LastRequest, ReadInv, Typed, Placed
<2>3. /\ UsefulPkts \in Nat \ {0} /\ MaxSamp \in Nat \ {0}
      /\ NumPkts \in Nat
  BY ReadIqAssumption, Packets
<2>4. req = Request((NumPkts - left) * MaxSamp, UsefulPkts * MaxSamp, UsefulPkts)
  BY <2>2, <2>3 DEF NextRequest
<2>5. /\ req.pkts = UsefulPkts /\ left - req.pkts \in 1 .. NumPkts
      /\ req.start + req.num = (NumPkts - left) * MaxSamp + UsefulPkts * MaxSamp
  BY <2>2, <2>3, <2>4 DEF Request
<2>6. /\ req.start + req.num = (NumPkts - (left - req.pkts)) * MaxSamp
      /\ req.start + req.num \in Int
  BY <2>2, <2>3, <2>5
<2>7. \E j \in Nat : left - req.pkts = NumPkts - j * UsefulPkts
<3>1. PICK j \in Nat : left = NumPkts - j * UsefulPkts
  BY <1>1, <2>2 DEF ReadInv, Placed
<3>2. /\ (j + 1) * UsefulPkts = j * UsefulPkts + UsefulPkts
      /\ j * UsefulPkts \in Int /\ j + 1 \in Nat
  BY <2>3
<3>3. left - req.pkts = NumPkts - (j + 1) * UsefulPkts
  BY <2>2, <2>3, <2>5, <3>1, <3>2
<3> QED
  BY <3>2, <3>3
<2>8. /\ pc' = "send" /\ left' \in 0 .. NumPkts
      /\ req' \in Requests /\ args' = req'
      /\ tracker' \in [1 .. req'.pkts -> Entries]
      /\ rcvd' = 0 /\ retries' = 0 /\ iqRetries' = 0
      /\ Waiting' /\ Placed' /\ SameEnd' /\ Fits'
  BY <2>1, <2>2, <2>5, <2>6, <2>7, Calls
<2>9. /\ rcvd' \in 0 .. req'.pkts /\ args'.pkts \in 0 .. req'.pkts
      /\ retries' \in 0 .. MaxRetry /\ iqRetries' \in 0 .. MaxIqRetry + 1
  BY <2>8, ReadIqAssumption DEF Requests
<2>10. Typed'
  BY <1>1, <1>2, <1>3, <2>8, <2>9 DEF ReadInv, Typed
<2> QED
  BY <2>8, <2>10 DEF ReadInv
<1>12. CASE Repeat(t, n, numRcvd + m.num)
<2> DEFINE k == InOrder(t, n)
<2>1. /\ n = req.pkts /\ tracker' = t /\ iqRetries' = 0
      /\ UNCHANGED <<left, req>>
  BY <1>12 DEF Repeat
<2>2. CASE retries >= MaxRetry \/ k = n
<3>1. pc' = "dead" /\ rcvd' = n /\ UNCHANGED <<args, retries>>
  BY <1>12, <2>2 DEF Repeat
<3> QED
  BY <1>1, <1>2, <1>3, <1>4, <1>5, <1>7, <2>1, <3>1, SameRequest
     DEF ReadInv, Typed
<2>3. CASE ~(retries >= MaxRetry \/ k = n)
<3>1. /\ pc' = "send" /\ args' = Remainder(k) /\ rcvd' = k
      /\ retries' = retries + 1
  BY <1>12, <2>3 DEF Repeat
<3>2. retries' \in 0 .. MaxRetry
  BY <2>3, <3>1, ReadIqAssumption DEF ReadInv, Typed
<3>3. k \in 0 .. req.pkts /\ k < req.pkts
  BY <1>5, <1>6, <2>1, <2>3
<3> HIDE DEF k
<3> QED
  BY <1>1, <1>2, <1>3, <1>4, <1>7, <2>1, <3>1, <3>2, <3>3, SameRequest
     DEF ReadInv, Typed
<2> QED
  BY <2>2, <2>3
<1> QED
  BY <1>8, <1>9, <1>10, <1>11, <1>12

-----------------------------------------------------------------------------
(* The node and the network.                                               *)

(* A step of the environment. *)
LEMMA Elsewhere ==
    ASSUME ReadInv, UNCHANGED host,
           toNode' \in Seq([id : 0 .. MaxReads, args : Requests]),
           toHost' \in Seq(Msgs), deferred' \in 0 .. MaxDefer
    PROVE  ReadInv'
<1> USE DEF host
<1>1. Typed'
  BY DEF ReadInv, Typed
<1>2. Waiting' /\ Placed' /\ SameEnd' /\ Fits'
  BY DEF ReadInv, Waiting, Placed, SameEnd, Fits
<1> QED
  BY <1>1, <1>2 DEF ReadInv

LEMMA Answers ==
    ASSUME NEW m \in [id : 0 .. MaxReads, args : Requests]
    PROVE  PacketsOf(m) \in Seq(Msgs)
<1>1. /\ m.id \in 0 .. MaxReads /\ m.args.start \in Int
      /\ m.args.num \in Int /\ m.args.pkts \in Nat /\ MaxSamp \in Nat
  BY ReadIqAssumption DEF Requests
<1>2. ASSUME NEW j \in 1 .. m.args.pkts
      PROVE  Packet(m.id, m.args, j) \in Msgs
<2>1. m.args.start + (j - 1) * MaxSamp \in Int
  BY <1>1
<2> QED
  BY <1>1, <2>1 DEF Packet, Msgs
<1>3. PacketsOf(m) \in [1 .. m.args.pkts -> Msgs]
  BY <1>2 DEF PacketsOf
<1> QED
  BY <1>1, <1>3, SeqDef

LEMMA EnvironmentSteps ==
    ASSUME ReadInv,
           AnswerRequest \/ DeferRequest \/ LoseRequest \/ LosePacket
    PROVE  ReadInv'
<1>1. /\ toNode \in Seq([id : 0 .. MaxReads, args : Requests])
      /\ toHost \in Seq(Msgs) /\ deferred \in 0 .. MaxDefer
  BY DEF ReadInv, Typed
<1>2. CASE AnswerRequest
<2>1. /\ toNode # <<>> /\ toNode' = Tail(toNode)
      /\ toHost' = toHost \o PacketsOf(Head(toNode))
      /\ UNCHANGED <<host, deferred>>
  BY <1>2 DEF AnswerRequest
<2>2. Head(toNode) \in [id : 0 .. MaxReads, args : Requests]
  BY <1>1, <2>1, HeadTailProperties
<2>3. toHost' \in Seq(Msgs)
  BY <1>1, <2>1, <2>2, Answers, ConcatProperties
<2> QED
  BY <1>1, <2>1, <2>3, Elsewhere
<1>3. CASE DeferRequest
<2>1. /\ toNode # <<>> /\ toNode' = Tail(toNode) /\ deferred < MaxDefer
      /\ toHost' = Append(toHost, [ready |-> FALSE, id |-> Head(toNode).id,
                                   start |-> 0, num |-> 0])
      /\ deferred' = deferred + 1 /\ UNCHANGED host
  BY <1>3 DEF DeferRequest
<2>2. [ready |-> FALSE, id |-> Head(toNode).id, start |-> 0, num |-> 0] \in Msgs
<3>1. Head(toNode) \in [id : 0 .. MaxReads, args : Requests]
  BY <1>1, <2>1, HeadTailProperties
<3>2. Head(toNode).id \in 0 .. MaxReads
  BY <3>1
<3> QED
  BY <3>2 DEF Msgs
<2>3. toHost' \in Seq(Msgs) /\ deferred' \in 0 .. MaxDefer
  BY <1>1, <2>1, <2>2, ReadIqAssumption
<2> QED
  BY <1>1, <2>1, <2>3, Elsewhere
<1>4. CASE LoseRequest
  BY <1>1, <1>4, Elsewhere DEF LoseRequest
<1>5. CASE LosePacket
  BY <1>1, <1>5, Elsewhere DEF LosePacket
<1> QED
  BY <1>2, <1>3, <1>4, <1>5

-----------------------------------------------------------------------------
(* The inductive invariant. *)
THEOREM ReadInvariant == Spec => []ReadInv
<1>1. ReadInv /\ [Next]_vars => ReadInv'
<2> SUFFICES ASSUME ReadInv, [Next]_vars PROVE ReadInv'
  OBVIOUS
<2>1. CASE UNCHANGED vars
<3>1. UNCHANGED host /\ UNCHANGED <<toNode, toHost, deferred>>
  BY <2>1 DEF vars
<3> QED
  BY <3>1, Elsewhere DEF ReadInv, Typed
<2> QED
  BY <2>1, StartReadStep, SendRequestStep, ReceiveNotReadyStep,
     ReceivePacketStep, TimeoutStep, EnvironmentSteps DEF Next, HostStep
<1> QED
  BY <1>1, InitRead, PTL DEF Spec

(* The receive loop never has more packets of a request than the tracker   *)
(* has room for, whatever is lost, late, repeated or deferred, and a       *)
(* repetition never asks for more packets than the request had.            *)
THEOREM TypeCorrect == Spec => []TypeOK
<1>1. ReadInv => TypeOK
<2> SUFFICES ASSUME ReadInv PROVE TypeOK
  OBVIOUS
<2>1. Len(tracker) = req.pkts
  BY DEF ReadInv, Typed, Requests
<2> QED
  BY <2>1 DEF ReadInv, Typed, Waiting, TypeOK
<1> QED
  BY <1>1, ReadInvariant, PTL

(* Unless the packets divide evenly into requests while the last packet is *)
(* short, no request, first or repeated, asks past the samples (and the    *)
(* output array) of the caller.                                            *)
THEOREM StaysWithinOutput == LastRequestFits => (Spec => []WithinOutput)
<1> SUFFICES ASSUME LastRequestFits PROVE Spec => []WithinOutput
  OBVIOUS
<1>1. ReadInv => WithinOutput
  BY DEF ReadInv, SameEnd, Fits, WithinOutput
<1> QED
  BY <1>1, ReadInvariant, PTL

-----------------------------------------------------------------------------
(* The exchange: what is in flight while nothing is given up too early.    *)

Busy == pc \in {"send", "receive"}

\* What is asked for follows the packets received, and these are in order.
Fresh == rcvd = req.pkts - args.pkts /\ InPlace(tracker, req, rcvd)

\* The request, or a deferral, is under way.
Asked == toNode = <<[id |-> read, args |-> args]>> /\ toHost = <<>>
Deferred == toNode = <<>> /\ Len(toHost) = 1 /\ ~toHost[1].ready

\* The last packets of request q, after n others; all of them if none was lost.
Tails(id, q, t, n, ms) ==
    /\ n + Len(ms) <= q.pkts
    /\ \A j \in 1 .. Len(ms) : ms[j] = Packet(id, q, q.pkts - Len(ms) + j)
    /\ n + Len(ms) = q.pkts => InPlace(t, q, n)

Answered == toNode = <<>> /\ Tails(read, req, tracker, rcvd, toHost)

Traffic ==
    /\ pc # "receive" => toNode = <<>> /\ toHost = <<>>
    /\ pc = "send" => Fresh
    /\ pc = "receive" => \/ Asked /\ Fresh
                         \/ Deferred /\ Fresh
                         \/ Answered

Follows == Busy => args.start = req.start + (req.pkts - args.pkts) * MaxSamp

\* A deferral under way is not yet counted.
Counted ==
    /\ iqRetries <= deferred
    /\ Deferred => iqRetries < deferred

\* The samples of the packets in tracker t of request q have been placed.
Filled(id, q, t, n, o) ==
    /\ \A p \in Positions : p < q.start => o[p] = id
    /\ \A j \in 1 .. n, p \in Positions :
           (t[j].start <= p /\ p < t[j].start + MaxSamp /\ p < q.start + q.num)
               => o[p] = id

Here == Busy => Filled(read, req, tracker, rcvd, out)

CleanInv == Traffic /\ Follows /\ Counted /\ Here /\ ReturnsThisRead

(* The packets of the request under way hold its samples, and the last     *)
(* request of a read ends with the read.                                   *)
LEMMA Sizes ==
    ASSUME ReadInv, Busy
    PROVE  /\ req.num <= req.pkts * MaxSamp
           /\ LastRequest => req.start + req.num >= NumSamples
<1>1. /\ NumSamples \in Nat \ {0} /\ MaxSamp \in Nat \ {0}
      /\ UsefulPkts \in Nat \ {0} /\ NumPkts \in Nat \ {0}
      /\ left \in 0 .. NumPkts
      /\ NumSamples <= NumPkts * MaxSamp
  BY ReadIqAssumption, Packets DEF ReadInv, Typed
<1>2. CASE OneRequest
  BY <1>1, <1>2 DEF ReadInv, Placed, Busy, Request
<1>3. CASE ~OneRequest /\ left < UsefulPkts
<2> DEFINE s == (NumPkts - left) * MaxSamp
<2>1. s \in Int /\ NumPkts * MaxSamp - s = left * MaxSamp /\ left * MaxSamp \in Int
  BY <1>1
<2> HIDE DEF s
<2>2. req = Request(s, NumSamples - s, left)
  BY <1>3 DEF ReadInv, Placed, Busy, NextRequest, s
<2>3. req.start = s /\ req.num = NumSamples - s /\ req.pkts = left
  BY <2>2 DEF Request
<2> QED
  BY <1>1, <2>1, <2>3
<1>4. CASE ~OneRequest /\ ~(left < UsefulPkts)
<2> DEFINE s == (NumPkts - left) * MaxSamp
<2>1. s \in Int /\ UsefulPkts * MaxSamp \in Int
  BY <1>1
<2>2. left = UsefulPkts => s + UsefulPkts * MaxSamp = NumPkts * MaxSamp
  BY <1>1
<2> HIDE DEF s
<2>3. req = Request(s, UsefulPkts * MaxSamp, UsefulPkts)
  BY <1>4 DEF ReadInv, Placed, Busy, NextRequest, s
<2>4. req.start = s /\ req.num = UsefulPkts * MaxSamp /\ req.pkts = UsefulPkts
  BY <2>3 DEF Request
<2>5. LastRequest => left = UsefulPkts
  BY <1>1, <1>4 DEF LastRequest
<2> QED
  BY <1>1, <2>1, <2>2, <2>4, <2>5
<1> QED
  BY <1>2, <1>3, <1>4

(* When all packets of a request are there, in order, every sample up to   *)
(* the end of the request is.                                              *)
LEMMA Whole ==
    ASSUME NEW q \in Requests, q.num <= q.pkts * MaxSamp,
           NEW id, NEW t, NEW o, InPlace(t, q, q.pkts),
           Filled(id, q, t, q.pkts, o),
           NEW p \in Positions, p < q.start + q.num
    PROVE  o[p] = id
<1>1. /\ q.start \in Int /\ q.num \in Int /\ q.pkts \in Nat
      /\ MaxSamp \in Nat \ {0} /\ p \in Int
  BY ReadIqAssumption DEF Requests, Positions
<1>2. CASE p < q.start
  BY <1>2 DEF Filled
<1>3. CASE p >= q.start
<2> DEFINE x == p - q.start
           j == x \div MaxSamp
           r == x % MaxSamp
<2>1. x \in Nat /\ x < q.num
  BY <1>1, <1>3
<2>2. p = q.start + x
  BY <1>1
<2> HIDE DEF x
<2>3. j \in Int /\ r \in 0 .. MaxSamp - 1 /\ x = MaxSamp * j + r
  BY <1>1, <2>1
<2> HIDE DEF j, r
<2>4. MaxSamp * j \in Int /\ MaxSamp * j <= x /\ x < MaxSamp * j + MaxSamp
  BY <1>1, <2>1, <2>3
<2>5. j >= 0
<3> SUFFICES ASSUME j <= -1 PROVE FALSE
  BY <2>3
<3>1. MaxSamp * j <= -MaxSamp
<4>1. j * MaxSamp <= (-1) * MaxSamp
  BY <1>1, <2>3, Products
<4> QED
  BY <1>1, <2>3, <4>1
<3> QED
  BY <1>1, <2>1, <2>4, <3>1
<2>6. j < q.pkts
<3> SUFFICES ASSUME q.pkts <= j PROVE FALSE
  BY <1>1, <2>3
<3>1. q.pkts * MaxSamp <= j * MaxSamp /\ q.pkts * MaxSamp \in Int
  BY <1>1, <2>3, Products
<3>2. j * MaxSamp = MaxSamp * j
  BY <1>1, <2>3
<3> QED
  BY <1>1, <2>1, <2>4, <3>1, <3>2
<2> DEFINE i == j + 1
<2>7. i \in 1 .. q.pkts /\ (i - 1) * MaxSamp = MaxSamp * j
  BY <1>1, <2>3, <2>5, <2>6
<2> HIDE DEF i
<2>8. t[i].start = q.start + MaxSamp * j
  BY <2>7 DEF InPlace
<2>9. t[i].start <= p /\ p < t[i].start + MaxSamp
  BY <1>1, <2>1, <2>2, <2>4, <2>8
<2> QED
  BY <2>7, <2>9 DEF Filled
<1> QED
  BY <1>1, <1>2, <1>3

LEMMA SameRest ==
    ASSUME NEW q, NEW a, NEW s \in Int,
           {q.start, q.num, a.start, a.num} \subseteq Int,
           a.start + a.num = q.start + q.num
    PROVE  a.start + a.num - s = q.start + q.num - s
OBVIOUS

(* An answer to what is asked for is the end of the request's.             *)
LEMMA EndOf ==
    ASSUME NEW q \in Requests, NEW a \in Requests, a.pkts \in 0 .. q.pkts,
           a.start = q.start + (q.pkts - a.pkts) * MaxSamp,
           a.start + a.num = q.start + q.num,
           NEW id, NEW j \in 1 .. a.pkts
    PROVE  Packet(id, a, j) = Packet(id, q, q.pkts - a.pkts + j)
<1>1. /\ q.start \in Int /\ q.num \in Int /\ q.pkts \in Nat
      /\ a.start \in Int /\ a.num \in Int /\ a.pkts \in Nat
      /\ MaxSamp \in Nat \ {0}
  BY ReadIqAssumption DEF Requests
<1> DEFINE s == a.start + (j - 1) * MaxSamp
           k == q.pkts - a.pkts + j
<1>2. s = q.start + (k - 1) * MaxSamp
<2> DEFINE x == q.pkts - a.pkts
           y == j - 1
<2>1. x \in Int /\ y \in Int /\ k - 1 = x + y
  BY <1>1
<2>2. a.start = q.start + x * MaxSamp /\ s = a.start + y * MaxSamp
  OBVIOUS
<2> HIDE DEF x, y, k, s
<2>3. /\ (x + y) * MaxSamp = x * MaxSamp + y * MaxSamp
      /\ x * MaxSamp \in Int /\ y * MaxSamp \in Int
  BY <1>1, <2>1
<2> QED
  BY <1>1, <2>1, <2>2, <2>3
<1> DEFINE P(rest) == [ready |-> TRUE, id |-> id, start |-> s,
                       num |-> IF rest < MaxSamp THEN rest ELSE MaxSamp]
<1>3. Packet(id, a, j) = P(a.start + a.num - s) /\ s \in Int
  BY <1>1 DEF Packet
<1> HIDE DEF s, k
<1>4. Packet(id, q, k) = P(q.start + q.num - s)
  BY <1>2 DEF Packet
<1> HIDE DEF P
<1>5. a.start + a.num - s = q.start + q.num - s
  BY <1>1, <1>3, SameRest, Zenon
<1>6. Packet(id, a, j) = Packet(id, q, k)
  BY <1>3, <1>4, <1>5
<1> QED
  BY <1>6 DEF k

(* A packet taken in is placed where its header says.                      *)
LEMMA Taken ==
    ASSUME NEW q \in Requests, NEW id, NEW k \in Int,
           NEW t, NEW u, NEW n \in Nat, NEW o, NEW w,
           Filled(id, q, t, n, o),
           u[n + 1].start = Packet(id, q, k).start,
           \A j \in 1 .. n : u[j] = t[j],
           w = [p \in Positions |->
                  IF p \in Packet(id, q, k).start ..
                            Packet(id, q, k).start + Packet(id, q, k).num - 1
                  THEN id ELSE o[p]]
    PROVE  Filled(id, q, u, n + 1, w)
<1> DEFINE s == q.start + (k - 1) * MaxSamp
           c == Packet(id, q, k).num
<1>1. MaxSamp \in Nat \ {0} /\ q.start \in Int /\ q.num \in Int
  BY ReadIqAssumption DEF Requests
<1>2. s \in Int /\ Packet(id, q, k).start = s
  BY <1>1 DEF Packet
<1>3. c = IF q.start + q.num - s < MaxSamp THEN q.start + q.num - s ELSE MaxSamp
  BY DEF Packet
<1>4. \A p \in Positions : w[p] = IF p \in s .. s + c - 1 THEN id ELSE o[p]
  BY <1>2
<1> HIDE DEF s, c
<1>5. c \in Int
  BY <1>1, <1>2, <1>3
<1>6. \A p \in Positions : o[p] = id => w[p] = id
  BY <1>4
<1>7. \A p \in Positions : p < q.start => w[p] = id
  BY <1>6 DEF Filled
<1>8. ASSUME NEW j \in 1 .. n + 1, NEW p \in Positions,
             u[j].start <= p, p < u[j].start + MaxSamp, p < q.start + q.num
      PROVE  w[p] = id
<2>1. CASE j \in 1 .. n
  BY <1>6, <1>8, <2>1 DEF Filled
<2>2. CASE j = n + 1
<3>1. s <= p /\ p < s + MaxSamp /\ p \in Int
  BY <1>2, <1>8, <2>2 DEF Positions
<3>2. p < s + c
  BY <1>1, <1>2, <1>3, <1>5, <1>8, <3>1
<3>3. p \in s .. s + c - 1
  BY <1>2, <1>5, <3>1, <3>2
<3> QED
  BY <1>4, <3>3
<2> QED
  BY <2>1, <2>2
<1> QED
  BY <1>7, <1>8 DEF Filled

-----------------------------------------------------------------------------
(* The steps of an exchange in which nothing is given up too early.        *)

LEMMA InitClean == Init => CleanInv
<1> SUFFICES ASSUME Init PROVE CleanInv
  OBVIOUS
<1>1. pc = "idle" /\ toNode = <<>> /\ toHost = <<>> /\ iqRetries = 0 /\ deferred = 0
  BY DEF Init
<1>2. Traffic /\ Follows /\ Here /\ ReturnsThisRead
  BY <1>1 DEF Traffic, Follows, Here, Busy, ReturnsThisRead
<1>3. Counted
  BY <1>1 DEF Counted, Deferred
<1> QED
  BY <1>2, <1>3 DEF CleanInv

(* A fresh request, while nothing is under way and what is before it is    *)
(* there.                                                                  *)
LEMMA CleanCall ==
    ASSUME NEW start \in Int, NEW i \in 1 .. NumPkts, Call(start, i),
           OneRequest => start = 0,
           toNode' = <<>>, toHost' = <<>>, deferred' \in Nat,
           \A p \in Positions : p < start => out'[p] = read'
    PROVE  CleanInv'
<1>1. /\ pc' = "send" /\ req' = NextRequest(start, i) /\ args' = req'
      /\ rcvd' = 0 /\ iqRetries' = 0
  BY DEF Call
<1>2. req' \in Requests /\ req'.start = start /\ req'.pkts \in Nat
  BY <1>1, RequestTyped DEF NextRequest, Request, Requests
<1>3. Fresh'
  BY <1>1, <1>2 DEF Fresh, InPlace
<1>4. Traffic' /\ Counted'
<2>1. ~Deferred'
  BY DEF Deferred
<2> QED
  BY <1>1, <1>3, <2>1 DEF Traffic, Counted
<1>5. Follows'
<2>1. (req'.pkts - req'.pkts) * MaxSamp = 0
  BY <1>2, ReadIqAssumption
<2> QED
  BY <1>1, <1>2, <2>1 DEF Follows
<1>6. Here'
  BY <1>1, <1>2 DEF Here, Filled
<1>7. ReturnsThisRead'
  BY <1>1 DEF ReturnsThisRead
<1> QED
  BY <1>4, <1>5, <1>6, <1>7 DEF CleanInv

LEMMA StartReadClean ==
    ASSUME ReadInv, CleanInv, StartRead
    PROVE  CleanInv'
<1>1. /\ pc \in {"idle", "done", "dead"} /\ Call(0, NumPkts)
      /\ UNCHANGED <<out, toNode, toHost, deferred>>
  BY DEF StartRead
<1>2. toNode' = <<>> /\ toHost' = <<>>
  BY <1>1 DEF CleanInv, Traffic
<1>3. deferred' \in Nat
  BY <1>1, ReadIqAssumption DEF ReadInv, Typed
<1>4. NumPkts \in 1 .. NumPkts
  BY Packets
<1>5. \A p \in Positions : p < 0 => out'[p] = read'
  BY Packets, ReadIqAssumption DEF Positions
<1> QED
  BY <1>1, <1>2, <1>3, <1>4, <1>5, CleanCall

(* The request is kept, and so are the samples placed for it. *)
LEMMA KeepsPlace ==
    ASSUME CleanInv, UNCHANGED <<read, req, tracker, out>>,
           rcvd \in Nat, rcvd' \in 0 .. rcvd,
           Busy' => Busy, pc' # "done"
    PROVE  Here' /\ ReturnsThisRead'
<1>1. Here'
<2> SUFFICES ASSUME Busy' PROVE Filled(read, req, tracker, rcvd', out)
  BY DEF Here
<2>1. Filled(read, req, tracker, rcvd, out)
  BY DEF CleanInv, Here
<2>2. 1 .. rcvd' \subseteq 1 .. rcvd
  OBVIOUS
<2> QED
  BY <2>1, <2>2 DEF Filled
<1> QED
  BY <1>1 DEF ReturnsThisRead

LEMMA SendRequestClean ==
    ASSUME ReadInv, CleanInv, SendRequest
    PROVE  CleanInv'
<1>1. /\ pc = "send" /\ pc' = "receive"
      /\ toNode' = Append(toNode, [id |-> read, args |-> args])
      /\ UNCHANGED <<read, req, args, tracker, rcvd, iqRetries, out, toHost,
                     deferred>>
  BY DEF SendRequest
<1>2. toNode = <<>> /\ toHost = <<>> /\ Fresh
  BY <1>1 DEF CleanInv, Traffic
<1>3. toNode' = <<[id |-> read, args |-> args]>>
  BY <1>1, <1>2
<1>4. Asked' /\ Fresh'
  BY <1>1, <1>2, <1>3 DEF Asked, Fresh
<1>5. ~Deferred'
  BY <1>3 DEF Deferred
<1>6. Traffic' /\ Follows' /\ Counted'
  BY <1>1, <1>4, <1>5 DEF CleanInv, Traffic, Follows, Busy, Counted
<1>7. Here' /\ ReturnsThisRead'
<2>1. rcvd \in Nat /\ rcvd' \in 0 .. rcvd
  BY <1>1 DEF ReadInv, Typed, Requests
<2> QED
  BY <1>1, <2>1, KeepsPlace DEF Busy
<1> QED
  BY <1>6, <1>7 DEF CleanInv

LEMMA TimeoutClean ==
    ASSUME ReadInv, CleanInv, Undisturbed, Timeout
    PROVE  CleanInv'
<1> DEFINE k == InOrder(tracker, rcvd)
<1>1. /\ pc = "receive" /\ toNode = <<>> /\ toHost = <<>>
      /\ UNCHANGED <<read, req, tracker, iqRetries, out, toNode, toHost, deferred>>
  BY DEF Timeout, Undisturbed
<1>2. /\ rcvd \in Nat /\ k \in 0 .. rcvd /\ InPlace(tracker, req, k)
      /\ req \in Requests /\ req.pkts \in Nat /\ req.start \in Int
  BY InOrderBounds DEF ReadInv, Typed, Requests
<1>3. ~Deferred' /\ toNode' = <<>> /\ toHost' = <<>>
  BY <1>1 DEF Deferred
<1>4. iqRetries <= deferred
  BY DEF CleanInv, Counted
<1> HIDE DEF k
<1>5. CASE retries >= MaxRetry
<2>1. pc' = "dead" /\ UNCHANGED <<args, rcvd>>
  BY <1>5 DEF Timeout
<2>2. Traffic' /\ Follows' /\ Counted'
  BY <1>1, <1>3, <1>4, <2>1 DEF Traffic, Follows, Busy, Counted
<2>3. rcvd' \in 0 .. rcvd
  BY <1>2, <2>1
<2>4. Here' /\ ReturnsThisRead'
  BY <1>1, <1>2, <2>1, <2>3, KeepsPlace DEF Busy
<2> QED
  BY <2>2, <2>4 DEF CleanInv
<1>6. CASE ~(retries >= MaxRetry)
<2>1. pc' = "send" /\ args' = Remainder(k) /\ rcvd' = k
  BY <1>6 DEF Timeout, k
<2>2. /\ args'.pkts = req.pkts - k /\ args'.start = req.start + k * MaxSamp
  BY <2>1 DEF Remainder, Request
<2>3. k = req.pkts - args'.pkts
  BY <1>2, <2>2
<2>4. Fresh'
  BY <1>1, <1>2, <2>1, <2>3 DEF Fresh
<2>5. Follows'
  BY <1>1, <2>2, <2>3 DEF Follows
<2>6. Traffic' /\ Counted'
  BY <1>1, <1>3, <1>4, <2>1, <2>4 DEF Traffic, Counted
<2>7. Here' /\ ReturnsThisRead'
  BY <1>1, <1>2, <2>1, KeepsPlace DEF Busy
<2> QED
  BY <2>5, <2>6, <2>7 DEF CleanInv
<1> QED
  BY <1>5, <1>6

LEMMA ReceiveNotReadyClean ==
    ASSUME ReadInv, CleanInv, Undisturbed, ReceiveNotReady
    PROVE  CleanInv'
<1>1. /\ pc = "receive" /\ toHost # <<>> /\ ~Head(toHost).ready
      /\ toHost' = Tail(toHost)
      /\ toNode' = Append(toNode, [id |-> read, args |-> args])
      /\ iqRetries' = iqRetries + 1
      /\ pc' = IF iqRetries' > MaxIqRetry THEN "dead" ELSE "receive"
      /\ UNCHANGED <<read, req, args, tracker, rcvd, out, deferred>>
  BY DEF ReceiveNotReady
<1>2. Deferred /\ Fresh
<2>1. toHost \in Seq(Msgs) /\ Len(toHost) \in Nat \ {0} /\ ~toHost[1].ready
  BY <1>1 DEF ReadInv, Typed
<2>2. ~Answered
<3> SUFFICES ASSUME Answered PROVE FALSE
  OBVIOUS
<3>1. toHost[1] = Packet(read, req, req.pkts - Len(toHost) + 1)
  BY <2>1 DEF Answered, Tails
<3>2. toHost[1].ready
  BY <3>1 DEF Packet
<3> QED
  BY <2>1, <3>2
<2> QED
  BY <1>1, <2>2 DEF CleanInv, Traffic, Asked
<1>3. toHost' = <<>>
<2>1. toHost \in Seq(Msgs) /\ Len(toHost) = 1
  BY <1>2 DEF ReadInv, Typed, Deferred
<2> QED
  BY <1>1, <2>1
<1>4. toNode' = <<[id |-> read, args |-> args]>>
  BY <1>1, <1>2 DEF Deferred
<1>5. iqRetries' <= deferred /\ ~(iqRetries' > MaxIqRetry)
<2>1. /\ iqRetries \in Nat /\ deferred \in 0 .. MaxDefer
      /\ MaxIqRetry \in Nat /\ MaxDefer \in Nat /\ MaxDefer <= MaxIqRetry
  BY ReadIqAssumption DEF ReadInv, Typed, Undisturbed
<2>2. iqRetries < deferred
  BY <1>2 DEF CleanInv, Counted
<2> QED
  BY <1>1, <2>1, <2>2
<1>6. pc' = "receive"
  BY <1>1, <1>5
<1>7. Asked' /\ Fresh' /\ ~Deferred'
  BY <1>1, <1>2, <1>3, <1>4 DEF Asked, Fresh, Deferred
<1>8. Traffic' /\ Follows' /\ Counted'
  BY <1>1, <1>5, <1>6, <1>7 DEF CleanInv, Traffic, Follows, Busy, Counted
<1>9. Here' /\ ReturnsThisRead'
<2>1. rcvd \in Nat /\ rcvd' \in 0 .. rcvd
  BY <1>1 DEF ReadInv, Typed, Requests
<2> QED
  BY <1>1, <1>6, <2>1, KeepsPlace DEF Busy
<1> QED
  BY <1>8, <1>9 DEF CleanInv

LEMMA ReceivePacketClean ==
    ASSUME ReadInv, CleanInv, ReceivePacket
    PROVE  CleanInv'
<1> DEFINE m == Head(toHost)
           t == [tracker EXCEPT ![rcvd + 1] = [start |-> m.start, num |-> m.num]]
           n == rcvd + 1
           l == Len(toHost)
           i == req.pkts - l + 1
<1>1. /\ pc = "receive" /\ toHost # <<>> /\ m.ready /\ toHost' = Tail(toHost)
      /\ out' = Place(m)
      /\ UNCHANGED <<read, toNode, deferred>>
  BY DEF ReceivePacket
<1>2. /\ toHost \in Seq(Msgs) /\ l \in Nat \ {0} /\ m = toHost[1]
      /\ Len(toHost') = l - 1
      /\ \A j \in 1 .. l - 1 : toHost'[j] = toHost[j + 1]
  BY <1>1 DEF ReadInv, Typed
<1>3. Busy /\ rcvd \in Nat /\ rcvd < req.pkts /\ req.pkts \in Nat /\ req \in Requests
  BY <1>1 DEF Busy, ReadInv, Typed, Waiting, Requests
<1>4. Answered
  BY <1>1, <1>2 DEF CleanInv, Traffic, Asked, Deferred
<1>5. /\ toNode' = <<>> /\ rcvd + l <= req.pkts
      /\ \A j \in 1 .. l : toHost[j] = Packet(read, req, req.pkts - l + j)
      /\ rcvd + l = req.pkts => InPlace(tracker, req, rcvd)
  BY <1>1, <1>4 DEF Answered, Tails
<1>6. m = Packet(read, req, i) /\ i \in Int
  BY <1>2, <1>3, <1>5
<1>7. /\ t[n].start = m.start /\ \A j \in 1 .. rcvd : t[j] = tracker[j]
  BY <1>3 DEF ReadInv, Typed
<1>8. \/ Continue(t, n, numRcvd + m.num)
      \/ Complete(t, n)
      \/ Repeat(t, n, numRcvd + m.num)
  BY DEF ReceivePacket
<1>9. n \in Nat /\ rcvd = n - 1 /\ n <= req.pkts
  BY <1>3
<1> HIDE DEF m, t, n, l, i
<1>10. InPlace(t, req, n) \/ n + (l - 1) # req.pkts
<2> SUFFICES ASSUME n + (l - 1) = req.pkts PROVE InPlace(t, req, n)
  OBVIOUS
<2>1. i = n /\ rcvd + l = req.pkts
  BY <1>2, <1>3, <1>9 DEF i
<2>2. t[n].start = req.start + (n - 1) * MaxSamp
  BY <1>6, <1>7, <2>1 DEF Packet
<2>3. \A j \in 1 .. rcvd : t[j].start = req.start + (j - 1) * MaxSamp
  BY <1>5, <1>7, <2>1 DEF InPlace
<2>4. \A j \in 1 .. n : j = n \/ j \in 1 .. rcvd
  BY <1>9
<2> QED
  BY <2>2, <2>3, <2>4 DEF InPlace
<1>11. Tails(read, req, t, n, toHost')
<2>1. n + Len(toHost') <= req.pkts
  BY <1>2, <1>3, <1>5, <1>9
<2>2. ASSUME NEW j \in 1 .. l - 1
      PROVE  toHost'[j] = Packet(read, req, req.pkts - (l - 1) + j)
<3>1. toHost'[j] = toHost[j + 1] /\ j + 1 \in 1 .. l
  BY <1>2, <2>2
<3>2. toHost[j + 1] = Packet(read, req, req.pkts - l + (j + 1))
  BY <1>5, <3>1
<3>3. req.pkts - l + (j + 1) = req.pkts - (l - 1) + j
<4>1. l \in Int /\ req.pkts \in Int /\ j \in Int
  BY <1>2, <1>3, <3>1
<4> QED
  BY <4>1
<3> QED
  BY <3>1, <3>2, <3>3
<2> QED
  BY <1>2, <1>10, <2>1, <2>2 DEF Tails
<1>12. Filled(read, req, t, n, out')
<2>1. Filled(read, req, tracker, rcvd, out)
  BY <1>3 DEF CleanInv, Here
<2>2. out' = [p \in Positions |->
                IF p \in Packet(read, req, i).start ..
                         Packet(read, req, i).start + Packet(read, req, i).num - 1
                THEN read ELSE out[p]]
  BY <1>1, <1>6 DEF Place, Packet
<2>3. t[rcvd + 1].start = Packet(read, req, i).start
  BY <1>6, <1>7 DEF n
<2>4. Filled(read, req, t, rcvd + 1, out')
  BY <1>3, <1>6, <1>7, <2>1, <2>2, <2>3, Taken
<2> QED
  BY <2>4 DEF n
<1>13. /\ args.start = req.start + (req.pkts - args.pkts) * MaxSamp
       /\ iqRetries <= deferred /\ deferred \in Nat
  BY <1>3, ReadIqAssumption DEF CleanInv, Follows, Counted, ReadInv, Typed
<1>14. ~Deferred'
<2>1. Len(toHost') = 1 => toHost'[1] = Packet(read, req, req.pkts - Len(toHost') + 1)
  BY <1>11 DEF Tails
<2> QED
  BY <2>1 DEF Deferred, Packet
<1>15. n = req.pkts => toHost' = <<>> /\ InPlace(t, req, n)
<2> HAVE n = req.pkts
<2>1. l = 1
  BY <1>2, <1>3, <1>5, <1>9
<2>2. toHost' = <<>>
  BY <1>1, <1>2, <2>1 DEF l
<2> QED
  BY <1>3, <1>10, <2>1, <2>2
<1>16. CASE Continue(t, n, numRcvd + m.num)
<2>1. /\ tracker' = t /\ rcvd' = n /\ iqRetries' = 0
      /\ UNCHANGED <<pc, req, args>>
  BY <1>16 DEF Continue
<2>2. Answered' /\ Traffic'
  BY <1>1, <1>5, <1>11, <2>1 DEF Answered, Traffic
<2>3. Follows' /\ Counted'
  BY <1>1, <1>13, <1>14, <2>1 DEF Follows, Counted
<2>4. Here' /\ ReturnsThisRead'
  BY <1>1, <1>12, <2>1 DEF Here, ReturnsThisRead
<2> QED
  BY <2>2, <2>3, <2>4 DEF CleanInv
<1>17. \A p \in Positions : n = req.pkts /\ p < req.start + req.num => out'[p] = read
<2> SUFFICES ASSUME NEW p \in Positions, n = req.pkts, p < req.start + req.num
             PROVE  out'[p] = read
  OBVIOUS
<2>1. InPlace(t, req, req.pkts) /\ Filled(read, req, t, req.pkts, out')
  BY <1>12, <1>15
<2>2. req.num <= req.pkts * MaxSamp
  BY <1>3, Sizes
<2> QED
  BY <1>3, <2>1, <2>2, Whole
<1>18. CASE Complete(t, n) /\ LastRequest
<2>1. /\ n = req.pkts /\ pc' = "done" /\ iqRetries' = 0
  BY <1>18 DEF Complete
<2>2. Traffic' /\ Follows' /\ Counted' /\ Here'
  BY <1>1, <1>5, <1>13, <1>14, <1>15, <2>1
     DEF Traffic, Follows, Counted, Here, Busy
<2>3. ReturnsThisRead'
<3> SUFFICES ASSUME NEW p \in 0 .. NumSamples - 1 PROVE out'[p] = read
  BY <1>1 DEF ReturnsThisRead
<3>1. /\ NumSamples <= NumPkts * MaxSamp /\ NumPkts \in Nat /\ NumSamples \in Nat
      /\ MaxSamp \in Nat
  BY Packets, ReadIqAssumption
<3>2. NumPkts * MaxSamp \in Int
  BY <3>1
<3>3. p \in Positions
  BY <3>1, <3>2 DEF Positions
<3>4. req.start + req.num >= NumSamples /\ req.start + req.num \in Int
  BY <1>3, <1>18, Sizes DEF Requests
<3>5. p < req.start + req.num
  BY <3>1, <3>4
<3> QED
  BY <1>17, <2>1, <3>3, <3>5
<2> QED
  BY <2>2, <2>3 DEF CleanInv
<1>19. CASE Complete(t, n) /\ ~LastRequest
<2>1. n = req.pkts /\ Call(req.start + req.num, left - req.pkts)
  BY <1>19 DEF Complete
<2>2. /\ ~OneRequest /\ left > UsefulPkts /\ left \in 0 .. NumPkts
      /\ UsefulPkts \in Nat \ {0} /\ NumPkts \in Nat
      /\ req = NextRequest((NumPkts - left) * MaxSamp, left)
<3>1. UsefulPkts \in Nat \ {0} /\ NumPkts \in Nat /\ left \in 0 .. NumPkts
  BY ReadIqAssumption, Packets DEF ReadInv, Typed
<3>2. ~OneRequest /\ ~(left <= UsefulPkts)
  BY <1>19 DEF LastRequest
<3>3. req = NextRequest((NumPkts - left) * MaxSamp, left)
  BY <1>3, <3>2 DEF ReadInv, Placed, Busy
<3> QED
  BY <3>1, <3>2, <3>3
<2>3. req.pkts = UsefulPkts
  BY <2>2 DEF NextRequest, Request
<2>4. left - req.pkts \in 1 .. NumPkts /\ req.start + req.num \in Int
  BY <1>3, <2>2, <2>3 DEF Requests
<2>5. deferred' \in Nat
  BY <1>1, <1>13
<2>6. \A p \in Positions : p < req.start + req.num => out'[p] = read'
  BY <1>1, <1>17, <2>1
<2> QED
  BY <1>5, <1>15, <2>1, <2>2, <2>4, <2>5, <2>6, CleanCall
<1>20. CASE Repeat(t, n, numRcvd + m.num)
<2>1. n = req.pkts /\ iqRetries' = 0
  BY <1>20 DEF Repeat
<2>2. InOrder(t, n) = n
  BY <1>9, <1>15, <2>1, InOrderBounds
<2>3. pc' = "dead"
  BY <1>20, <2>2 DEF Repeat
<2> QED
  BY <1>1, <1>5, <1>13, <1>14, <1>15, <2>1, <2>3
     DEF CleanInv, Traffic, Follows, Counted, Here, Busy, ReturnsThisRead
<1> QED
  BY <1>8, <1>16, <1>18, <1>19, <1>20

(* The answer to what was asked for is the end of the request.             *)
LEMMA AnswerClean ==
    ASSUME ReadInv, CleanInv, AnswerRequest
    PROVE  CleanInv'
<1> DEFINE m == Head(toNode)
<1>1. /\ toNode # <<>> /\ toNode' = Tail(toNode)
      /\ toHost' = toHost \o PacketsOf(m) /\ UNCHANGED <<host, deferred>>
  BY DEF AnswerRequest
<1>2. pc = "receive" /\ Asked /\ Fresh /\ Busy
  BY <1>1 DEF CleanInv, Traffic, Deferred, Answered, Busy
<1>3. /\ m = [id |-> read, args |-> args] /\ toNode' = <<>> /\ toHost = <<>>
  BY <1>1, <1>2 DEF Asked
<1>4. /\ req \in Requests /\ args \in Requests /\ args.pkts \in 0 .. req.pkts
      /\ req.pkts \in Nat /\ args.pkts \in Nat
      /\ args.start = req.start + (req.pkts - args.pkts) * MaxSamp
      /\ args.start + args.num = req.start + req.num
      /\ rcvd = req.pkts - args.pkts /\ InPlace(tracker, req, rcvd)
  BY <1>2 DEF ReadInv, Typed, SameEnd, CleanInv, Follows, Fresh, Requests
<1>5. /\ PacketsOf(m) = [j \in 1 .. args.pkts |-> Packet(read, args, j)]
  BY <1>3 DEF PacketsOf
<1>6. PacketsOf(m) \in Seq(Msgs)
<2>1. read \in 0 .. MaxReads
  BY DEF ReadInv, Typed
<2> QED
  BY <1>3, <1>4, <2>1, Answers
<1> HIDE DEF m
<1>7. toHost' = PacketsOf(m)
  BY <1>1, <1>3, <1>6
<1>8. Len(toHost') = args.pkts
  BY <1>4, <1>5, <1>7
<1>9. ASSUME NEW j \in 1 .. args.pkts
      PROVE  toHost'[j] = Packet(read, req, req.pkts - args.pkts + j)
  BY <1>4, <1>5, <1>7, EndOf
<1>10. Tails(read, req, tracker, rcvd, toHost')
<2>1. rcvd + Len(toHost') <= req.pkts
  BY <1>4, <1>8
<2> QED
  BY <1>4, <1>8, <1>9, <2>1 DEF Tails
<1>11. ~Deferred'
<2>1. Len(toHost') = 1 => toHost'[1] = Packet(read, req, req.pkts - Len(toHost') + 1)
  BY <1>10 DEF Tails
<2> QED
  BY <2>1 DEF Deferred, Packet
<1>12. /\ UNCHANGED <<pc, read, req, args, tracker, rcvd, iqRetries, out, deferred>>
  BY <1>1 DEF host
<1>13. Traffic' /\ Counted'
  BY <1>2, <1>3, <1>10, <1>11, <1>12 DEF CleanInv, Traffic, Answered, Counted
<1>14. Follows' /\ Here' /\ ReturnsThisRead'
  BY <1>12 DEF CleanInv, Follows, Here, Busy, ReturnsThisRead
<1> QED
  BY <1>13, <1>14 DEF CleanInv

LEMMA DeferClean ==
    ASSUME ReadInv, CleanInv, DeferRequest
    PROVE  CleanInv'
<1> DEFINE m == [ready |-> FALSE, id |-> Head(toNode).id, start |-> 0, num |-> 0]
<1>1. /\ toNode # <<>> /\ toNode' = Tail(toNode) /\ toHost' = Append(toHost, m)
      /\ deferred' = deferred + 1 /\ UNCHANGED host
  BY DEF DeferRequest
<1>2. pc = "receive" /\ Asked /\ Fresh
  BY <1>1 DEF CleanInv, Traffic, Deferred, Answered
<1>3. toNode' = <<>> /\ toHost' = <<m>> /\ ~m.ready
  BY <1>1, <1>2 DEF Asked
<1>4. Deferred'
<2> HIDE DEF m
<2>1. Len(toHost') = 1 /\ toHost'[1] = m
  BY <1>3
<2> QED
  BY <1>3, <2>1 DEF Deferred
<1>5. UNCHANGED <<pc, read, req, args, tracker, rcvd, iqRetries, out>>
  BY <1>1 DEF host
<1>6. Fresh'
  BY <1>2, <1>5 DEF Fresh
<1>7. Traffic'
  BY <1>2, <1>4, <1>5, <1>6 DEF Traffic
<1>8. iqRetries' < deferred' /\ iqRetries' <= deferred'
<2>1. iqRetries \in Int /\ deferred \in Int
  BY DEF ReadInv, Typed
<2> QED
  BY <1>1, <1>5, <2>1 DEF CleanInv, Counted
<1>9. Follows' /\ Here' /\ ReturnsThisRead'
  BY <1>5 DEF CleanInv, Follows, Here, Busy, ReturnsThisRead
<1> QED
  BY <1>7, <1>8, <1>9 DEF CleanInv, Counted

LEMMA LossClean ==
    ASSUME ReadInv, CleanInv, LoseRequest \/ LosePacket
    PROVE  CleanInv'
<1>1. UNCHANGED <<pc, read, req, args, tracker, rcvd, iqRetries, out, deferred>>
  BY DEF LoseRequest, LosePacket, host
<1>2. /\ toHost \in Seq(Msgs) /\ rcvd \in 0 .. req.pkts
      /\ req.pkts \in Nat
  BY DEF ReadInv, Typed, Requests
<1>3. Follows' /\ Here' /\ ReturnsThisRead'
  BY <1>1 DEF CleanInv, Follows, Here, Busy, ReturnsThisRead
<1>4. pc = "receive" /\ rcvd < req.pkts
<2>1. toNode # <<>> \/ toHost # <<>>
  BY DEF LoseRequest, LosePacket
<2>2. pc = "receive"
  BY <2>1 DEF CleanInv, Traffic
<2> QED
  BY <2>2 DEF ReadInv, Waiting
<1>5. ASSUME toNode' = <<>>, toHost' = <<>> PROVE Traffic' /\ Counted'
<2>1. Len(toHost') = 0
  BY <1>5
<2>2. Tails(read, req, tracker, rcvd, toHost')
  BY <1>2, <1>4, <2>1 DEF Tails
<2> QED
  BY <1>1, <1>4, <1>5, <2>1, <2>2 DEF CleanInv, Traffic, Answered, Counted, Deferred
<1>6. CASE LoseRequest
<2>1. toNode # <<>> /\ toNode' = Tail(toNode) /\ toHost' = toHost
  BY <1>6 DEF LoseRequest
<2>2. Asked
  BY <2>1 DEF CleanInv, Traffic, Deferred, Answered
<2>3. toNode' = <<>> /\ toHost' = <<>>
  BY <2>1, <2>2 DEF Asked
<2> QED
  BY <1>3, <1>5, <2>3 DEF CleanInv
<1>7. CASE LosePacket
<2>1. toHost # <<>> /\ toHost' = Tail(toHost) /\ toNode' = toNode
  BY <1>7 DEF LosePacket
<2>2. CASE Deferred
<3>1. Len(toHost) = 1 /\ toNode = <<>>
  BY <2>2 DEF Deferred
<3>2. toHost' = <<>>
  BY <1>2, <2>1, <3>1
<3> QED
  BY <1>3, <1>5, <2>1, <3>1, <3>2 DEF CleanInv
<2>3. CASE Answered
<3> DEFINE l == Len(toHost)
<3>1. /\ l \in Nat \ {0} /\ Len(toHost') = l - 1
      /\ \A j \in 1 .. l - 1 : toHost'[j] = toHost[j + 1]
  BY <1>2, <2>1
<3>2. /\ toNode = <<>> /\ rcvd + l <= req.pkts
      /\ \A j \in 1 .. l : toHost[j] = Packet(read, req, req.pkts - l + j)
  BY <2>3 DEF Answered, Tails
<3> HIDE DEF l
<3>3. rcvd + Len(toHost') < req.pkts
  BY <1>2, <3>1, <3>2
<3>4. ASSUME NEW j \in 1 .. l - 1
      PROVE  toHost'[j] = Packet(read, req, req.pkts - (l - 1) + j)
<4>1. toHost'[j] = toHost[j + 1] /\ j + 1 \in 1 .. l
  BY <3>1, <3>4
<4>2. toHost[j + 1] = Packet(read, req, req.pkts - l + (j + 1))
  BY <3>2, <4>1
<4>3. req.pkts - l + (j + 1) = req.pkts - (l - 1) + j
<5>1. l \in Int /\ req.pkts \in Int /\ j \in Int
  BY <1>2, <3>1, <4>1
<5> QED
  BY <5>1
<4> QED
  BY <4>1, <4>2, <4>3
<3>5. Tails(read, req, tracker, rcvd, toHost')
<4>1. rcvd + Len(toHost') \in Int /\ req.pkts \in Int
  BY <1>2, <3>1
<4> QED
  BY <3>1, <3>3, <3>4, <4>1 DEF Tails
<3>6. ~Deferred'
<4>1. Len(toHost') = 1 => toHost'[1] = Packet(read, req, req.pkts - Len(toHost') + 1)
  BY <3>5 DEF Tails
<4> QED
  BY <4>1 DEF Deferred, Packet
<3>7. Traffic' /\ Counted'
  BY <1>1, <1>4, <2>1, <3>2, <3>5, <3>6 DEF CleanInv, Traffic, Answered, Counted
<3> QED
  BY <1>3, <3>7 DEF CleanInv
<2> QED
  BY <1>4, <2>1, <2>2, <2>3 DEF CleanInv, Traffic, Asked
<1> QED
  BY <1>6, <1>7

(* The inductive invariant of the exchange. *)
THEOREM ExchangeInvariant == Undisturbed => (Spec => [](ReadInv /\ CleanInv))
<1> SUFFICES ASSUME Undisturbed PROVE Spec => [](ReadInv /\ CleanInv)
  OBVIOUS
<1>1. CleanInv /\ ReadInv /\ [Next]_vars => CleanInv'
<2> SUFFICES ASSUME CleanInv, ReadInv, [Next]_vars PROVE CleanInv'
  OBVIOUS
<2>1. CASE UNCHANGED vars
<3>1. UNCHANGED <<pc, read, req, args, tracker, rcvd, iqRetries, out, toNode,
                  toHost, deferred>>
  BY <2>1 DEF vars, host
<3> QED
  BY <3>1 DEF CleanInv, Traffic, Fresh, Asked, Deferred, Answered, Follows,
              Busy, Counted, Here, ReturnsThisRead
<2> QED
  BY <2>1, StartReadClean, SendRequestClean, ReceiveNotReadyClean,
     ReceivePacketClean, TimeoutClean, AnswerClean, DeferClean, LossClean
     DEF Next, HostStep
<1> QED
  BY <1>1, InitClean, ReadInvariant, PTL DEF Spec

(* When the host is patient and the node does not put it off too often,    *)
(* every sample a read returns was captured for this read, whatever is     *)
(* lost: no packet is taken for one of another read, nor for one of        *)
(* another place.                                                          *)
THEOREM ReturnsOwnSamples == Undisturbed => (Spec => []ReturnsThisRead)
<1> SUFFICES ASSUME Undisturbed PROVE Spec => []ReturnsThisRead
  OBVIOUS
<1>1. CleanInv => ReturnsThisRead
  BY DEF CleanInv
<1> QED
  BY <1>1, ExchangeInvariant, PTL

(* And nothing of a finished read is still under way when the next begins, *)
(* which is what keeps the reads apart: no message names its read.         *)
THEOREM LeavesNothing == Undisturbed => (Spec => []NothingLeftOver)
<1> SUFFICES ASSUME Undisturbed PROVE Spec => []NothingLeftOver
  OBVIOUS
<1>1. CleanInv => NothingLeftOver
  BY DEF CleanInv, Traffic, NothingLeftOver
<1> QED
  BY <1>1, ExchangeInvariant, PTL

=============================================================================
