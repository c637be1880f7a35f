------------------------ MODULE TriggerManager_proofs ------------------------
(***************************************************************************)
(* Proofs about the trigger manager, for any IDs, outputs, selections and  *)
(* numbers of commands, copies and frames.                                 *)
(*                                                                         *)
(* HoldInv: an output in hold mode holds a trigger until the host asks for *)
(* a clear.  HeldForHost is not inductive.  HoldInv adds what could undo   *)
(* it: such an output is still in hold mode, and no command that clears it *)
(* is under way, neither the host's current one nor a late copy of an      *)
(* earlier one.                                                            *)
(*                                                                         *)
(* TypeInv: the types, and room in the queue for all that is still sent.   *)
(*                                                                         *)
(* ViewInv: what the host expects of a frame is what the node does with    *)
(* it; OnlyWhenDue and Heard follow.                                       *)
(***************************************************************************)
EXTENDS TriggerManager, SequenceTheorems, TLAPS

InboxPackets ==
    [kind : {"command"}, req : Requests, no : Nat]
    \cup [kind : {"trigger"}, frame : Nat]

Frames == [ids : SUBSET Ids, due : [Outputs -> Effects],
           fired : [Outputs -> Nat]]

Typed ==
    /\ calls \in Nat
    /\ frames \in Seq(Frames)
    /\ inbox \in Seq(InboxPackets)
    /\ Waiting => call \in [sends : Nat, no : Nat, req : Requests]
    /\ hold \in [Outputs -> BOOLEAN]
    /\ latch \in [Outputs -> BOOLEAN]

(* No command that is under way clears o. *)
Safe(o) ==
    /\ Waiting => ~Clears(call.req, o)
    /\ \A k \in 1 .. Len(inbox) :
           inbox[k].kind = "command" => ~Clears(inbox[k].req, o)

HoldInv ==
    /\ Typed
    /\ unread \subseteq Outputs
    /\ \A o \in unread : hold[o] /\ latch[o] /\ Safe(o)


-----------------------------------------------------------------------------
LEMMA InitHold == Init => HoldInv
<1> SUFFICES ASSUME Init PROVE HoldInv
  OBVIOUS
<1>1. ~Waiting
  BY DEF Init, Waiting, NoCall
<1>2. Typed
<2>1. hold \in [Outputs -> BOOLEAN] /\ latch \in [Outputs -> BOOLEAN]
  BY DEF Init
<2>2. calls \in Nat /\ frames \in Seq(Frames) /\ inbox \in Seq(InboxPackets)
  BY DEF Init
<2> QED
  BY <1>1, <2>1, <2>2 DEF Typed
<1> QED
  BY <1>2 DEF Init, HoldInv

LEMMA Removed ==
    ASSUME NEW s \in Seq(InboxPackets), s # <<>>
    PROVE  /\ Len(s) \in Nat /\ 1 \in 1 .. Len(s) /\ Head(s) = s[1]
           /\ Tail(s) \in Seq(InboxPackets)
           /\ \A k \in 1 .. Len(Tail(s)) :
                 k + 1 \in 1 .. Len(s) /\ Tail(s)[k] = s[k + 1]
  OBVIOUS

LEMMA Added ==
    ASSUME NEW s \in Seq(InboxPackets), NEW p \in InboxPackets
    PROVE  /\ Append(s, p) \in Seq(InboxPackets)
           /\ \A k \in 1 .. Len(Append(s, p)) :
                 Append(s, p)[k] = p
                 \/ (k \in 1 .. Len(s) /\ Append(s, p)[k] = s[k])
  OBVIOUS

-----------------------------------------------------------------------------
(* The host.                                                               *)

(* A command that does not clear o may be sent. *)
LEMMA Sends ==
    ASSUME HoldInv, NEW req \in Requests, NEW no \in Nat,
           Deliver(Command(req, no))
    PROVE  /\ inbox' \in Seq(InboxPackets)
           /\ \A o \in Outputs :
                 (\A k \in 1 .. Len(inbox) :
                     inbox[k].kind = "command" => ~Clears(inbox[k].req, o))
                 /\ ~Clears(req, o) =>
                    \A k \in 1 .. Len(inbox') :
                        inbox'[k].kind = "command" => ~Clears(inbox'[k].req, o)
<1> DEFINE p == Command(req, no)
<1>1. p \in InboxPackets /\ p.req = req
  BY DEF Command, InboxPackets
<1>2. inbox \in Seq(InboxPackets)
  BY DEF HoldInv, Typed
<1>3. inbox' \in {inbox, Append(inbox, p)}
  BY DEF Deliver
<1> HIDE DEF p
<1>4. inbox' \in Seq(InboxPackets)
  BY <1>1, <1>2, <1>3, Added
<1>5. \A k \in 1 .. Len(inbox') :
          inbox'[k] = p \/ (k \in 1 .. Len(inbox) /\ inbox'[k] = inbox[k])
  BY <1>1, <1>2, <1>3, Added
<1> QED
  BY <1>1, <1>4, <1>5

LEMMA CallNodeStep ==
    ASSUME HoldInv, NEW req \in Requests, CallNode(req)
    PROVE  HoldInv'
<1> USE DEF HoldInv
<1>1. /\ calls \in Nat /\ calls' = calls + 1 /\ calls' \in Nat
      /\ call' = [sends |-> 1, no |-> calls', req |-> req]
      /\ Deliver(Command(req, calls'))
      /\ unread' = {o \in unread : ~Clears(req, o)}
      /\ UNCHANGED <<hold, latch, frames>>
  BY DEF CallNode, nodeVars, Typed
<1>2. call'.req = req /\ call' \in [sends : Nat, no : Nat, req : Requests]
  BY <1>1
<1>3. inbox' \in Seq(InboxPackets)
  BY <1>1, Sends
<1>4. Typed'
  BY <1>1, <1>2, <1>3 DEF Typed
<1>5. ASSUME NEW o \in unread' PROVE hold'[o] /\ latch'[o] /\ Safe(o)'
<2>1. o \in unread /\ ~Clears(req, o)
  BY <1>1, <1>5
<2>2. \A k \in 1 .. Len(inbox') :
          inbox'[k].kind = "command" => ~Clears(inbox'[k].req, o)
  BY <1>1, <2>1, Sends DEF Safe
<2> QED
  BY <1>1, <1>2, <2>1, <2>2 DEF Safe, Clears
<1> QED
  BY <1>1, <1>4, <1>5

LEMMA SendAgainStep ==
    ASSUME HoldInv, SendAgain
    PROVE  HoldInv'
<1> USE DEF HoldInv
<1>1. /\ Waiting /\ call \in [sends : Nat, no : Nat, req : Requests]
      /\ call' = [call EXCEPT !.sends = @ + 1]
      /\ Deliver(Command(call.req, call.no))
      /\ UNCHANGED <<hold, latch, calls, frames, unread>>
  BY DEF SendAgain, nodeVars, Typed
<1>2. /\ call.req \in Requests /\ call.no \in Nat /\ call'.req = call.req
      /\ call' \in [sends : Nat, no : Nat, req : Requests]
  BY <1>1
<1>3. inbox' \in Seq(InboxPackets)
  BY <1>1, <1>2, Sends
<1>4. Typed'
  BY <1>1, <1>2, <1>3 DEF Typed
<1>5. ASSUME NEW o \in unread' PROVE hold'[o] /\ latch'[o] /\ Safe(o)'
<2>1. o \in unread /\ ~Clears(call.req, o)
  BY <1>1, <1>5 DEF Safe
<2>2. \A k \in 1 .. Len(inbox') :
          inbox'[k].kind = "command" => ~Clears(inbox'[k].req, o)
  BY <1>1, <1>2, <2>1, Sends DEF Safe
<2> QED
  BY <1>1, <1>2, <2>1, <2>2 DEF Safe, Clears
<1> QED
  BY <1>1, <1>4, <1>5

LEMMA ReceiveAnswerStep ==
    ASSUME HoldInv, ReceiveAnswer
    PROVE  HoldInv'
<1> USE DEF HoldInv
<1>1. call'.sends = 0 /\ UNCHANGED <<hold, latch, calls, inbox, frames, unread>>
  BY DEF ReceiveAnswer, nodeVars
<1>2. ~Waiting'
  BY <1>1 DEF Waiting
<1>3. Typed'
  BY <1>1, <1>2 DEF Typed
<1> QED
  BY <1>1, <1>2, <1>3 DEF Safe, Clears

-----------------------------------------------------------------------------
(* Frames on the wire and in the queue.                                    *)

LEMMA PulseOrNot ==
    ASSUME HoldInv, NEW fs \in Seq(Frames), NEW f \in Nat,
           Pulse(fs, f) \/ NoPulse(fs)
    PROVE  /\ frames' \in Seq(Frames)
           /\ latch' \in [Outputs -> BOOLEAN]
           /\ unread' \subseteq Outputs
           /\ \A o \in unread' : hold[o] /\ latch'[o] /\ Safe(o)
<1> USE DEF HoldInv
<1>1. CASE NoPulse(fs)
  BY <1>1 DEF NoPulse, Typed
<1>2. CASE Pulse(fs, f)
<2>1. frames' \in Seq(Frames)
<3>1. CASE f \in 1 .. Len(fs)
<4> DEFINE n == [o \in Outputs |-> fs[f].fired[o] + (IF o \in Driven THEN 1 ELSE 0)]
           g == [fs[f] EXCEPT !.fired = n]
<4>1. fs[f] \in Frames
  BY <3>1
<4>2. n \in [Outputs -> Nat]
  BY <4>1 DEF Frames
<4>3. g \in Frames
  BY <4>1, <4>2 DEF Frames
<4>4. frames' = [fs EXCEPT ![f] = g]
  BY <1>2, <3>1 DEF Pulse
<4> HIDE DEF g
<4> QED
  BY <3>1, <4>3, <4>4, ExceptSeq
<3>2. CASE f \notin 1 .. Len(fs)
<4> DEFINE g == [fs[f] EXCEPT !.fired =
                    [o \in Outputs |-> @[o] + (IF o \in Driven THEN 1 ELSE 0)]]
<4>1. frames' = [fs EXCEPT ![f] = g]
  BY <1>2 DEF Pulse
<4> HIDE DEF g
<4>2. DOMAIN fs = 1 .. Len(fs) /\ fs = [j \in DOMAIN fs |-> fs[j]]
  OBVIOUS
<4>3. [fs EXCEPT ![f] = g] = fs
  BY <3>2, <4>2
<4> QED
  BY <4>1, <4>3
<3> QED
  BY <3>1, <3>2
<2>2. latch' = [o \in Outputs |-> latch[o] \/ (o \in Driven /\ hold[o])]
      /\ unread' = unread \cup {o \in Driven : Keeps(o)}
  BY <1>2 DEF Pulse
<2>3. latch' \in [Outputs -> BOOLEAN]
  BY <2>2 DEF Typed
<2>4. Driven \subseteq Outputs
  BY DEF Driven
<2>5. ASSUME NEW o \in Driven, Keeps(o) PROVE hold[o] /\ latch'[o] /\ Safe(o)
<3>1. hold[o] /\ Safe(o)
  BY <2>5 DEF Keeps, Safe, Typed
<3> QED
  BY <2>2, <2>4, <3>1
<2> QED
  BY <2>1, <2>2, <2>3, <2>4, <2>5
<1> QED
  BY <1>1, <1>2

LEMMA ArriveStep ==
    ASSUME HoldInv, NEW ids \in SUBSET Ids, Arrive(ids),
           \/ inbox' = inbox
           \/ inbox' = Append(inbox, [kind |-> "trigger", frame |-> Len(frames) + 1])
    PROVE  HoldInv'
<1> USE DEF HoldInv
<1> DEFINE new == [ids |-> ids, due |-> [o \in Outputs |-> Due(ids, o)],
                   fired |-> [o \in Outputs |-> 0]]
           fs  == Append(frames, new)
<1>1. new \in Frames
<2>1. \A o \in Outputs : Due(ids, o) \in Effects
  BY DEF Due, Effects
<2> QED
  BY <2>1 DEF Frames
<1>2. fs \in Seq(Frames) /\ Len(fs) \in Nat /\ Len(frames) + 1 \in Nat
  BY <1>1 DEF Typed
<1>3. /\ Pulse(fs, Len(fs)) \/ NoPulse(fs)
      /\ UNCHANGED <<hold, calls, call>>
  BY DEF Arrive, hostVars
<1> HIDE DEF fs
<1>4. /\ frames' \in Seq(Frames) /\ latch' \in [Outputs -> BOOLEAN]
      /\ unread' \subseteq Outputs
      /\ \A o \in unread' : hold[o] /\ latch'[o] /\ Safe(o)
  BY <1>2, <1>3, PulseOrNot
<1> DEFINE p == [kind |-> "trigger", frame |-> Len(frames) + 1]
<1>5. p \in InboxPackets /\ p.kind # "command"
  BY <1>2 DEF InboxPackets
<1> HIDE DEF p
<1>6. /\ inbox' \in Seq(InboxPackets)
      /\ \A k \in 1 .. Len(inbox') :
            inbox'[k] = p \/ (k \in 1 .. Len(inbox) /\ inbox'[k] = inbox[k])
<2>1. inbox \in Seq(InboxPackets)
  BY DEF Typed
<2>2. CASE inbox' = inbox
  BY <2>1, <2>2
<2>3. CASE inbox' = Append(inbox, p)
  BY <1>5, <2>1, <2>3, Added
<2> QED
  BY <2>2, <2>3 DEF p
<1>7. Typed'
  BY <1>3, <1>4, <1>6 DEF Typed, Waiting
<1>8. \A o \in unread' : Safe(o)'
  BY <1>3, <1>4, <1>5, <1>6 DEF Safe, Clears, Waiting
<1> QED
  BY <1>3, <1>4, <1>7, <1>8

-----------------------------------------------------------------------------
(* The node.                                                               *)

(* What remains in the queue is as it was. *)
LEMMA TakesPacket ==
    ASSUME HoldInv, NEW kind, NextPacket(kind)
    PROVE  /\ inbox' \in Seq(InboxPackets)
           /\ Head(inbox) = inbox[1] /\ 1 \in 1 .. Len(inbox)
           /\ inbox[1] \in InboxPackets /\ inbox[1].kind = kind
           /\ \A k \in 1 .. Len(inbox') :
                 k + 1 \in 1 .. Len(inbox) /\ inbox'[k] = inbox[k + 1]
<1>1. /\ inbox \in Seq(InboxPackets) /\ inbox # <<>>
      /\ inbox' = Tail(inbox) /\ Head(inbox).kind = kind
  BY DEF HoldInv, Typed, NextPacket
<1> QED
  BY <1>1, Removed

LEMMA TriggerInStep ==
    ASSUME HoldInv, TriggerIn
    PROVE  HoldInv'
<1> USE DEF HoldInv
<1> DEFINE f == Head(inbox).frame
<1>1. /\ NextPacket("trigger") /\ UNCHANGED <<hold, calls, call>>
      /\ Pulse(frames, f) \/ NoPulse(frames)
  BY DEF TriggerIn, hostVars
<1>2. /\ inbox' \in Seq(InboxPackets) /\ f \in Nat
      /\ \A k \in 1 .. Len(inbox') :
            k + 1 \in 1 .. Len(inbox) /\ inbox'[k] = inbox[k + 1]
<2>1. Head(inbox) \in InboxPackets /\ Head(inbox).kind = "trigger"
  BY <1>1, TakesPacket
<2>2. Head(inbox).frame \in Nat
  BY <2>1 DEF InboxPackets
<2> QED
  BY <1>1, <2>2, TakesPacket
<1> HIDE DEF f
<1>3. /\ frames' \in Seq(Frames) /\ latch' \in [Outputs -> BOOLEAN]
      /\ unread' \subseteq Outputs
      /\ \A o \in unread' : hold[o] /\ latch'[o] /\ Safe(o)
  BY <1>1, <1>2, PulseOrNot DEF Typed
<1>4. Typed'
  BY <1>1, <1>2, <1>3 DEF Typed, Waiting
<1>5. ASSUME NEW o \in unread' PROVE Safe(o)'
<2>1. Safe(o)
  BY <1>3, <1>5
<2> QED
  BY <1>1, <1>2, <2>1 DEF Safe, Clears, Waiting
<1> QED
  BY <1>1, <1>3, <1>4, <1>5

(* A command that is carried out: the outputs it clears are not among      *)
(* those that hold a trigger for the host.                                 *)
LEMMA ReceiveStep ==
    ASSUME HoldInv, NEW ops, Receive(ops),
           hold' \in [Outputs -> BOOLEAN], latch' \in [Outputs -> BOOLEAN],
           \A o \in unread : ~Clears(Head(inbox).req, o) =>
               hold'[o] = hold[o] /\ latch'[o] = latch[o]
    PROVE  HoldInv'
<1> USE DEF HoldInv
<1>1. NextPacket("command") /\ UNCHANGED <<calls, call, frames, unread>>
  BY DEF Receive, hostVars
<1>2. /\ inbox' \in Seq(InboxPackets)
      /\ Head(inbox) = inbox[1] /\ 1 \in 1 .. Len(inbox)
      /\ inbox[1].kind = "command"
      /\ \A k \in 1 .. Len(inbox') :
            k + 1 \in 1 .. Len(inbox) /\ inbox'[k] = inbox[k + 1]
  BY <1>1, TakesPacket
<1>3. Typed'
  BY <1>1, <1>2 DEF Typed, Waiting
<1>4. ASSUME NEW o \in unread PROVE hold'[o] /\ latch'[o]
  BY <1>2, <1>4 DEF Safe
<1>5. \A o \in unread' : Safe(o)'
  BY <1>1, <1>2 DEF Safe, Clears, Waiting
<1> QED
  BY <1>1, <1>3, <1>4, <1>5

LEMMA CommandStep ==
    ASSUME HoldInv,
           \/ ChangeIds \/ SetType \/ InputSel \/ OutputHold
           \/ OutputClear \/ OutputRead \/ Initialize
    PROVE  HoldInv'
<1> USE DEF HoldInv, Typed
<1>1. CASE ChangeIds
<2>1. Receive({"add", "del", "clr"}) /\ UNCHANGED <<hold, latch>>
  BY <1>1 DEF ChangeIds, UpdateControl
<2> QED
  BY <2>1, ReceiveStep
<1>2. CASE SetType
<2>1. Receive({"type"}) /\ UNCHANGED <<hold, latch>>
  BY <1>2 DEF SetType
<2> QED
  BY <2>1, ReceiveStep
<1>3. CASE InputSel
<2>1. Receive({"sel"}) /\ UNCHANGED <<hold, latch>>
  BY <1>3 DEF InputSel
<2> QED
  BY <2>1, ReceiveStep
<1>4. CASE OutputRead
<2>1. Receive({"read"}) /\ UNCHANGED <<hold, latch>>
  BY <1>4 DEF OutputRead
<2> QED
  BY <2>1, ReceiveStep
<1>5. CASE OutputHold
<2> DEFINE req == Head(inbox).req
<2>1. /\ Receive({"hold"}) /\ req.op = "hold"
      /\ hold' = [hold EXCEPT ![req.out] = req.on]
      /\ latch' = [latch EXCEPT ![req.out] = @ /\ req.on]
  BY <1>5 DEF OutputHold, Receive
<2>2. req.on \in BOOLEAN
<3>1. Head(inbox) \in InboxPackets /\ Head(inbox).kind = "command"
  BY <2>1, TakesPacket DEF Receive
<3>2. req \in Requests
  BY <3>1 DEF InboxPackets
<3> QED
  BY <2>1, <3>2 DEF Requests
<2>3. \A o \in Outputs : ~Clears(req, o) => o # req.out
  BY <2>1 DEF Clears
<2> HIDE DEF req
<2>4. hold' \in [Outputs -> BOOLEAN] /\ latch' \in [Outputs -> BOOLEAN]
  BY <2>1, <2>2
<2>5. \A o \in unread : ~Clears(req, o) =>
          hold'[o] = hold[o] /\ latch'[o] = latch[o]
  BY <2>1, <2>3
<2> QED
  BY <2>1, <2>4, <2>5, ReceiveStep DEF req
<1>6. CASE OutputClear
<2> DEFINE req == Head(inbox).req
<2>1. /\ Receive({"clear"}) /\ req.op = "clear" /\ hold' = hold
      /\ latch' = [latch EXCEPT ![req.out] = @ /\ ~hold[req.out]]
  BY <1>6 DEF OutputClear, Receive
<2>2. \A o \in Outputs : ~Clears(req, o) => o # req.out
  BY <2>1 DEF Clears
<2> HIDE DEF req
<2>3. latch' \in [Outputs -> BOOLEAN]
  BY <2>1
<2>4. \A o \in unread : ~Clears(req, o) =>
          hold'[o] = hold[o] /\ latch'[o] = latch[o]
  BY <2>1, <2>2
<2> QED
  BY <2>1, <2>3, <2>4, ReceiveStep DEF req
<1>7. CASE Initialize
<2>1. /\ Receive({"init"}) /\ Head(inbox).req.op = "init"
      /\ hold' \in [Outputs -> BOOLEAN] /\ latch' \in [Outputs -> BOOLEAN]
  BY <1>7 DEF Initialize, Receive
<2>2. \A o \in unread : Clears(Head(inbox).req, o)
  BY <2>1 DEF Clears
<2> QED
  BY <2>1, <2>2, ReceiveStep
<1> QED
  BY <1>1, <1>2, <1>3, <1>4, <1>5, <1>6, <1>7

(* Steps that touch neither outputs nor commands. *)
LEMMA OtherStep ==
    ASSUME HoldInv, UNCHANGED <<hold, latch, hostVars, inbox, frames, unread>>
    PROVE  HoldInv'
<1>1. UNCHANGED <<call, calls>>
  BY DEF hostVars
<1>2. Typed'
  BY <1>1 DEF HoldInv, Typed, Waiting
<1> QED
  BY <1>1, <1>2 DEF HoldInv, Safe, Clears, Waiting

-----------------------------------------------------------------------------
(* The inductive invariant. *)
THEOREM HoldInvariant == Spec => []HoldInv
<1>1. HoldInv /\ [Next]_vars => HoldInv'
<2> SUFFICES ASSUME HoldInv, [Next]_vars PROVE HoldInv'
  OBVIOUS
<2>1. ASSUME NEW req \in Requests, CallNode(req) PROVE HoldInv'
  BY <2>1, CallNodeStep
<2>2. CASE SendAgain
  BY <2>2, SendAgainStep
<2>3. CASE ReceiveAnswer
  BY <2>3, ReceiveAnswerStep
<2>4. ASSUME NEW ids \in IdSets, Trigger(ids) PROVE HoldInv'
<3>1. ids \in SUBSET Ids
  BY TriggerAssumption
<3> QED
  BY <2>4, <3>1, ArriveStep DEF Trigger
<2>5. CASE OtherFrame
  BY <2>5, ArriveStep DEF OtherFrame
<2>6. CASE TriggerIn
  BY <2>6, TriggerInStep
<2>7. CASE \/ ChangeIds \/ SetType \/ InputSel \/ OutputHold
           \/ OutputClear \/ OutputRead \/ Initialize
  BY <2>7, CommandStep
<2>8. CASE RegisterWrite
  BY <2>8, OtherStep DEF RegisterWrite, ClearTemplate, WriteTemplate,
        ClearOps, WriteOps, EnableAll, Gate, StepTo
<2>9. CASE UNCHANGED vars
  BY <2>9, OtherStep DEF vars, nodeVars
<2> QED
  BY <2>1, <2>2, <2>3, <2>4, <2>5, <2>6, <2>7, <2>8, <2>9
     DEF Next, HostStep, NodeStep
<1> QED
  BY <1>1, InitHold, PTL DEF Spec

(* An output in hold mode holds a trigger until the host asks to clear it  *)
(* (OUTPUT_HOLD, OUTPUT_CLEAR), whatever late copies of other commands the *)
(* node carries out and whatever frames come meanwhile.                    *)
THEOREM HoldsForHost == Spec => []HeldForHost
<1>1. HoldInv => HeldForHost
  BY DEF HoldInv, HeldForHost
<1> QED
  BY <1>1, HoldInvariant, PTL

-----------------------------------------------------------------------------
(***************************************************************************)
(* Type correctness, if the inputs the host selects are Readable.          *)
(***************************************************************************)
Selections == [or : SUBSET Field, and : SUBSET Field]

(* What the host configures. *)
Views == [ids : SUBSET Ids, sw : BOOLEAN, conf : [Outputs -> Lists],
          ands : [Outputs -> Lists]]

Plain ==
    /\ mask \subseteq Ids
    /\ sw \in BOOLEAN /\ ethEnabled \in BOOLEAN
    /\ detector \in [ids : SUBSET Ids, blank : BOOLEAN]
    /\ conf \in [Outputs -> Selections]
    /\ \A o \in Outputs : latch[o] => hold[o]
    /\ work \in [step : Steps, ids : SUBSET Ids, no : 0 .. MaxCalls]
    /\ answered \in BOOLEAN
    /\ asked \in Views

Counted ==
    /\ call.no = calls /\ calls <= MaxCalls
    /\ call.sends \in 0 .. MaxSends
    /\ work.no <= calls
    /\ Len(frames) <= MaxFrames
    /\ \A k \in 1 .. Len(inbox) :
           inbox[k].kind = "command" => inbox[k].no <= calls

(* Packets that may still be sent. *)
Unsent ==
    MaxSends * (MaxCalls - calls)
    + (IF Waiting THEN MaxSends - call.sends ELSE 0)
    + (MaxFrames - Len(frames))

Room == Len(inbox) + Unsent <= MaxCalls * MaxSends + MaxFrames

TypeInv == Plain /\ Counted /\ Room

LEMMA Selected ==
    ASSUME Readable, NEW c \in Selections,
           NEW ors \in Lists, NEW ands \in Lists
    PROVE  /\ Select(c, ors, ands) =
                  [or |-> Inputs(ors), and |-> Inputs(ands)]
           /\ Select(c, ors, ands) \in Selections
<1>1. ASSUME NEW list \in Lists
      PROVE  Bits(SumOfMasks(list)) = Inputs(list) /\ Inputs(list) \subseteq Field
<2>1. Listed(list) \subseteq 1 .. 9 /\ Bits(SumOfMasks(list)) = Inputs(list)
  BY DEF Readable, NumInputs
<2>2. \A i \in 1 .. 9 : i - 1 \in 0 .. 8
  OBVIOUS
<2> QED
  BY <2>1, <2>2 DEF Inputs, Field, NumInputs
<1>2. c.or \ Field = {} /\ c.and \ Field = {}
  BY DEF Selections
<1> QED
  BY <1>1, <1>2 DEF Select, Selections

LEMMA Defaults ==
    ASSUME NEW o \in Outputs PROVE DefaultInputs(o) \in Lists /\ <<>> \in Lists
  BY DEF DefaultInputs, Lists

LEMMA RequestTypes ==
    ASSUME NEW req \in Requests
    PROVE  /\ req.op \in {"add", "del", "clr", "init", "read", "type", "sel",
                          "hold", "clear"}
           /\ req.op \in {"add", "del"} => req.ids \subseteq Ids
           /\ req.op = "type" => req.sw \in BOOLEAN
           /\ req.op = "sel" => /\ req.out \in Outputs
                                /\ req.ors \in Lists /\ req.ands \in Lists
           /\ req.op = "hold" => req.out \in Outputs /\ req.on \in BOOLEAN
<1>1. \A ids \in IdSets : ids \subseteq Ids
  BY TriggerAssumption
<1> QED
  BY <1>1 DEF Requests, Lists

LEMMA CountTypes ==
    ASSUME HoldInv, Counted
    PROVE  /\ calls \in Nat /\ call.sends \in Nat /\ Len(frames) \in Nat
           /\ Len(inbox) \in Nat
           /\ MaxSends \in Nat \ {0} /\ MaxCalls \in Nat /\ MaxFrames \in Nat
<1>1. MaxSends \in Nat \ {0} /\ MaxCalls \in Nat /\ MaxFrames \in Nat
  BY TriggerAssumption
<1>2. frames \in Seq(Frames) /\ inbox \in Seq(InboxPackets)
  BY DEF HoldInv, Typed
<1> QED
  BY <1>1, <1>2 DEF HoldInv, Typed, Counted

LEMMA InitType == Readable /\ Init => TypeInv
<1> SUFFICES ASSUME Readable, Init PROVE TypeInv
  OBVIOUS
<1>1. NoInputs \in Selections
  BY DEF NoInputs, Selections
<1>2. conf \in [Outputs -> Selections]
<2>1. \A o \in Outputs : Select(NoInputs, DefaultInputs(o), <<>>) \in Selections
  BY <1>1, Defaults, Selected
<2> QED
  BY <2>1 DEF Init
<1>3. asked \in Views
  BY Defaults DEF Init, Views
<1>4. /\ ~Waiting /\ call.no = 0 /\ call.sends = 0 /\ work.no = 0
      /\ Len(frames) = 0 /\ Len(inbox) = 0 /\ calls = 0
  BY DEF Init, NoCall, Waiting, Idle
<1>5. MaxSends \in Nat /\ MaxCalls \in Nat /\ MaxFrames \in Nat
  BY TriggerAssumption
<1>6. Plain
<2>1. work \in [step : Steps, ids : SUBSET Ids, no : 0 .. MaxCalls]
  BY <1>5 DEF Init, Idle, Steps
<2> QED
  BY <1>2, <1>3, <2>1 DEF Init, Plain
<1>7. Counted
  BY <1>4, <1>5 DEF Counted
<1>8. Room
  BY <1>4, <1>5 DEF Room, Unsent
<1> QED
  BY <1>6, <1>7, <1>8 DEF TypeInv

(* What the node is configured as after a command; Configured, of any       *)
(* configuration.                                                          *)
After(a, req) ==
    CASE req.op = "add"  -> [a EXCEPT !.ids = @ \cup req.ids]
      [] req.op = "del"  -> [a EXCEPT !.ids = @ \ req.ids]
      [] req.op = "clr"  -> [a EXCEPT !.ids = {}]
      [] req.op = "type" -> [a EXCEPT !.sw = req.sw]
      [] req.op = "sel"  -> [a EXCEPT !.conf[req.out] = req.ors,
                                      !.ands[req.out] = req.ands]
      [] req.op = "init" -> [ids |-> {}, sw |-> FALSE,
                             conf |-> [o \in Outputs |-> DefaultInputs(o)],
                             ands |-> [o \in Outputs |-> <<>>]]
      [] OTHER -> a

LEMMA ConfiguredAfter ==
    ASSUME NEW req PROVE Configured(req) = After(asked, req)
  BY DEF Configured, After

(* A command that is carried out twice does what it does once. *)
LEMMA AfterTwice ==
    ASSUME NEW req \in Requests, NEW a \in Views
    PROVE  /\ After(a, req) \in Views
           /\ After(After(a, req), req) = After(a, req)
<1> DEFINE b == After(a, req)
<1>1. a = [ids |-> a.ids, sw |-> a.sw, conf |-> a.conf, ands |-> a.ands]
      /\ a.ids \subseteq Ids /\ a.sw \in BOOLEAN
      /\ a.conf \in [Outputs -> Lists] /\ a.ands \in [Outputs -> Lists]
  BY DEF Views
<1>2. CASE req.op = "add"
<2>1. b = [a EXCEPT !.ids = @ \cup req.ids] /\ req.ids \subseteq Ids
  BY <1>2, RequestTypes DEF After
<2>2. b \in Views /\ b.ids = a.ids \cup req.ids
  BY <1>1, <2>1 DEF Views
<2> HIDE DEF b
<2>3. After(b, req) = [b EXCEPT !.ids = @ \cup req.ids]
  BY <1>2 DEF After
<2>4. b.ids \cup req.ids = b.ids
  BY <2>2
<2>5. After(b, req) = b
  BY <2>2, <2>3, <2>4 DEF Views
<2> QED
  BY <2>2, <2>5 DEF b
<1>3. CASE req.op = "del"
<2>1. b = [a EXCEPT !.ids = @ \ req.ids]
  BY <1>3 DEF After
<2>2. b \in Views /\ b.ids = a.ids \ req.ids
  BY <1>1, <2>1 DEF Views
<2> HIDE DEF b
<2>3. After(b, req) = [b EXCEPT !.ids = @ \ req.ids]
  BY <1>3 DEF After
<2>4. b.ids \ req.ids = b.ids
  BY <2>2
<2>5. After(b, req) = b
  BY <2>2, <2>3, <2>4 DEF Views
<2> QED
  BY <2>2, <2>5 DEF b
<1>4. CASE req.op = "clr"
<2>1. b = [a EXCEPT !.ids = {}]
  BY <1>4 DEF After
<2>2. b \in Views /\ b.ids = {}
  BY <1>1, <2>1 DEF Views
<2> HIDE DEF b
<2>3. After(b, req) = [b EXCEPT !.ids = {}]
  BY <1>4 DEF After
<2>5. After(b, req) = b
  BY <2>2, <2>3 DEF Views
<2> QED
  BY <2>2, <2>5 DEF b
<1>5. CASE req.op = "type"
<2>1. b = [a EXCEPT !.sw = req.sw] /\ req.sw \in BOOLEAN
  BY <1>5, RequestTypes DEF After
<2>2. b \in Views /\ b.sw = req.sw
  BY <1>1, <2>1 DEF Views
<2> HIDE DEF b
<2>3. After(b, req) = [b EXCEPT !.sw = req.sw]
  BY <1>5 DEF After
<2>5. After(b, req) = b
  BY <2>2, <2>3 DEF Views
<2> QED
  BY <2>2, <2>5 DEF b
<1>6. CASE req.op = "sel"
<2> DEFINE r == req.out
<2>1. b = [a EXCEPT !.conf[r] = req.ors, !.ands[r] = req.ands]
      /\ r \in Outputs /\ req.ors \in Lists /\ req.ands \in Lists
  BY <1>6, RequestTypes DEF After
<2>2. /\ b = [ids |-> a.ids, sw |-> a.sw, conf |-> [a.conf EXCEPT ![r] = req.ors],
              ands |-> [a.ands EXCEPT ![r] = req.ands]]
      /\ b \in Views
<3> DEFINE f == [a.conf EXCEPT ![r] = req.ors]
           g == [a.ands EXCEPT ![r] = req.ands]
<3>1. f \in [Outputs -> Lists] /\ g \in [Outputs -> Lists]
  BY <1>1, <2>1
<3>2. b = [[a EXCEPT !.conf = f] EXCEPT !.ands = g]
  BY <1>1, <2>1
<3> HIDE DEF f, g
<3>3. b = [ids |-> a.ids, sw |-> a.sw, conf |-> f, ands |-> g]
  BY <1>1, <3>2
<3>4. b \in Views
  BY <1>1, <3>1, <3>3 DEF Views
<3> QED
  BY <3>3, <3>4 DEF f, g
<2> HIDE DEF b
<2>3. After(b, req) = [b EXCEPT !.conf[r] = req.ors, !.ands[r] = req.ands]
  BY <1>6 DEF After
<2>4. /\ [b.conf EXCEPT ![r] = req.ors] = b.conf
      /\ [b.ands EXCEPT ![r] = req.ands] = b.ands
  BY <1>1, <2>1, <2>2
<2>5. After(b, req) = b
  BY <2>2, <2>3, <2>4
<2> QED
  BY <2>2, <2>5 DEF b
<1>7. CASE req.op = "init"
<2>1. /\ b = [ids |-> {}, sw |-> FALSE,
              conf |-> [o \in Outputs |-> DefaultInputs(o)],
              ands |-> [o \in Outputs |-> <<>>]]
      /\ b \in Views
  BY <1>7, Defaults DEF After, Views
<2>2. After(b, req) = b
  BY <1>7, <2>1 DEF After
<2> QED
  BY <2>1, <2>2
<1>8. CASE req.op \in {"read", "hold", "clear"}
  BY <1>8 DEF After
<1> QED
  BY <1>2, <1>3, <1>4, <1>5, <1>6, <1>7, <1>8, RequestTypes

-----------------------------------------------------------------------------
(* The packets still to be sent, counted. *)
LEMMA Budget ==
    ASSUME NEW s \in Nat, NEW m \in Nat, NEW c \in Nat
    PROVE  s * (m - c) \in Int /\ s * (m - (c + 1)) = s * (m - c) - s
<1>1. s * (m - (c + 1)) = s * ((m - c) - 1) /\ m - c \in Int
  OBVIOUS
<1>2. \A d \in Int : s * d \in Int /\ s * (d - 1) = s * d - s
  OBVIOUS
<1> QED
  BY <1>1, <1>2

LEMMA CallNodeType ==
    ASSUME HoldInv, TypeInv, NEW req \in Requests, CallNode(req)
    PROVE  TypeInv'
<1>1. /\ ~Waiting /\ calls < MaxCalls /\ calls' = calls + 1
      /\ call' = [sends |-> 1, no |-> calls', req |-> req]
      /\ Deliver(Command(req, calls'))
      /\ UNCHANGED <<mask, sw, ethEnabled, detector, conf, hold, latch, work,
                     asked, answered, frames>>
  BY DEF CallNode, nodeVars
<1>2. /\ inbox \in Seq(InboxPackets) /\ Command(req, calls') \in InboxPackets
      /\ Command(req, calls').no = calls' /\ calls' \in Nat
  BY <1>1, CountTypes DEF TypeInv, HoldInv, Typed, Command, InboxPackets
<1>3. /\ inbox' \in {inbox, Append(inbox, Command(req, calls'))}
      /\ call'.sends = 1 /\ call'.no = calls' /\ Waiting'
  BY <1>1 DEF Deliver, Waiting
<1>4. Plain'
  BY <1>1 DEF TypeInv, Plain
<1>5. Counted'
<2>1. \A k \in 1 .. Len(inbox') :
          inbox'[k].kind = "command" => inbox'[k].no <= calls'
<3> SUFFICES ASSUME NEW k \in 1 .. Len(inbox'), inbox'[k].kind = "command"
             PROVE  inbox'[k].no <= calls'
  OBVIOUS
<3> DEFINE p == Command(req, calls')
<3> HIDE DEF p
<3>1. inbox'[k] = p \/ (k \in 1 .. Len(inbox) /\ inbox'[k] = inbox[k])
  BY <1>2, <1>3, Added DEF p
<3>2. CASE inbox'[k] = p
  BY <3>2, <1>2 DEF p
<3>3. CASE k \in 1 .. Len(inbox) /\ inbox'[k] = inbox[k]
<4>1. inbox[k] \in InboxPackets /\ inbox[k].kind = "command"
  BY <3>3, <1>2
<4>2. inbox[k].no \in Nat
  BY <4>1 DEF InboxPackets
<4> QED
  BY <3>3, <4>1, <4>2, <1>1, CountTypes DEF TypeInv, Counted
<3> QED
  BY <3>1, <3>2, <3>3
<2>2. work'.no <= calls' /\ calls' <= MaxCalls
<3>1. work.no \in Nat
  BY TriggerAssumption DEF TypeInv, Plain
<3> QED
  BY <1>1, <3>1, CountTypes DEF TypeInv, Counted
<2> QED
  BY <1>1, <1>3, <2>1, <2>2, CountTypes DEF TypeInv, Counted
<1>6. Room'
<2> DEFINE d == MaxSends * (MaxCalls - calls)
<2>1. d \in Int /\ MaxSends * (MaxCalls - calls') = d - MaxSends
  BY <1>1, CountTypes, Budget DEF TypeInv
<2>2. Unsent = d + 0 + (MaxFrames - Len(frames))
  BY <1>1 DEF Unsent
<2>3. Unsent' = (d - MaxSends) + (MaxSends - 1) + (MaxFrames - Len(frames))
  BY <1>1, <1>3, <2>1 DEF Unsent
<2>4. Len(inbox') \in Nat /\ Len(inbox') <= Len(inbox) + 1
  BY <1>2, <1>3
<2> DEFINE e == MaxCalls * MaxSends
<2>5. e \in Int
  BY TriggerAssumption
<2>6. Len(inbox) + Unsent <= e + MaxFrames
  BY DEF TypeInv, Room
<2> HIDE DEF d, e
<2>7. Len(inbox') + Unsent' <= e + MaxFrames
<3>1. /\ d \in Int /\ e \in Int /\ Len(frames) \in Nat
      /\ Len(inbox) \in Int /\ MaxSends \in Int /\ MaxFrames \in Int
  BY <2>1, <2>5, CountTypes DEF TypeInv
<3> QED
  BY <3>1, <2>2, <2>3, <2>4, <2>6
<2> QED
  BY <2>7 DEF Room, e
<1> QED
  BY <1>4, <1>5, <1>6 DEF TypeInv

LEMMA SendAgainType ==
    ASSUME HoldInv, TypeInv, SendAgain
    PROVE  TypeInv'
<1>1. /\ Waiting /\ call.sends < MaxSends
      /\ call' = [call EXCEPT !.sends = @ + 1]
      /\ Deliver(Command(call.req, call.no))
      /\ UNCHANGED <<mask, sw, ethEnabled, detector, conf, hold, latch, work,
                     calls, asked, answered, frames>>
  BY DEF SendAgain, nodeVars
<1>2. /\ call \in [sends : Nat, no : Nat, req : Requests]
      /\ call.no = calls /\ inbox \in Seq(InboxPackets)
  BY <1>1 DEF HoldInv, Typed, TypeInv, Counted
<1>3. /\ call'.sends = call.sends + 1 /\ call'.no = calls
      /\ Waiting' /\ call.sends \in Nat
  BY <1>1, <1>2 DEF Waiting
<1> DEFINE p == Command(call.req, call.no)
<1>4. p \in InboxPackets /\ p.no = calls
  BY <1>2 DEF Command, InboxPackets
<1>5. inbox' \in {inbox, Append(inbox, p)}
  BY <1>1 DEF Deliver
<1> HIDE DEF p
<1>6. Plain'
  BY <1>1 DEF TypeInv, Plain
<1>7. Counted'
<2>1. \A k \in 1 .. Len(inbox') :
          inbox'[k].kind = "command" => inbox'[k].no <= calls
<3> SUFFICES ASSUME NEW k \in 1 .. Len(inbox'), inbox'[k].kind = "command"
             PROVE  inbox'[k].no <= calls
  OBVIOUS
<3>1. inbox'[k] = p \/ (k \in 1 .. Len(inbox) /\ inbox'[k] = inbox[k])
  BY <1>2, <1>4, <1>5, Added
<3> QED
  BY <3>1, <1>4, CountTypes DEF TypeInv, Counted
<2> QED
  BY <1>1, <1>3, <2>1, CountTypes DEF TypeInv, Counted
<1>8. Room'
<2> DEFINE d == MaxSends * (MaxCalls - calls)
           e == MaxCalls * MaxSends
<2>1. d \in Int /\ e \in Int
  BY CountTypes, Budget DEF TypeInv
<2>2. Unsent = d + (MaxSends - call.sends) + (MaxFrames - Len(frames))
  BY <1>1 DEF Unsent
<2>3. Unsent' = d + (MaxSends - (call.sends + 1)) + (MaxFrames - Len(frames))
  BY <1>1, <1>3 DEF Unsent
<2>4. Len(inbox') \in Nat /\ Len(inbox') <= Len(inbox) + 1
  BY <1>2, <1>4, <1>5
<2>5. Len(inbox) + Unsent <= e + MaxFrames
  BY DEF TypeInv, Room
<2> HIDE DEF d, e
<2>6. Len(inbox') + Unsent' <= e + MaxFrames
<3>1. /\ d \in Int /\ e \in Int /\ call.sends \in Int /\ Len(frames) \in Nat
      /\ Len(inbox) \in Int /\ MaxSends \in Int /\ MaxFrames \in Int
  BY <2>1, CountTypes DEF TypeInv
<3>2. Unsent' = Unsent - 1 /\ Unsent \in Int
  BY <3>1, <2>2, <2>3
<3> QED
  BY <3>1, <3>2, <2>4, <2>5
<2> QED
  BY <2>6 DEF Room, e
<1> QED
  BY <1>6, <1>7, <1>8 DEF TypeInv

LEMMA ReceiveAnswerType ==
    ASSUME HoldInv, TypeInv, ReceiveAnswer
    PROVE  TypeInv'
<1>1. /\ Waiting /\ answered' = FALSE /\ asked' = Configured(call.req)
      /\ call' = [sends |-> 0, no |-> call.no]
      /\ UNCHANGED <<mask, sw, ethEnabled, detector, conf, hold, latch, work,
                     calls, inbox, frames>>
  BY DEF ReceiveAnswer, nodeVars
<1>2. call.req \in Requests
  BY <1>1 DEF HoldInv, Typed
<1>3. asked' \in Views
  BY <1>1, <1>2, ConfiguredAfter, AfterTwice DEF TypeInv, Plain
<1>4. ~Waiting' /\ call'.no = call.no /\ call'.sends = 0
  BY <1>1 DEF Waiting
<1>5. Plain'
  BY <1>1, <1>3 DEF TypeInv, Plain
<1>6. Counted'
  BY <1>1, <1>4, CountTypes DEF TypeInv, Counted
<1>7. Room'
<2> DEFINE d == MaxSends * (MaxCalls - calls)
           e == MaxCalls * MaxSends
<2>1. d \in Int /\ e \in Int
  BY CountTypes, Budget DEF TypeInv
<2>2. Unsent = d + (MaxSends - call.sends) + (MaxFrames - Len(frames))
  BY <1>1 DEF Unsent
<2>3. Unsent' = d + 0 + (MaxFrames - Len(frames))
  BY <1>1, <1>4 DEF Unsent
<2>4. call.sends <= MaxSends
  BY CountTypes DEF TypeInv, Counted
<2>5. Len(inbox) + Unsent <= e + MaxFrames
  BY DEF TypeInv, Room
<2> HIDE DEF d, e
<2>6. Len(inbox) + Unsent' <= e + MaxFrames
<3>1. /\ d \in Int /\ e \in Int /\ call.sends \in Int /\ Len(frames) \in Int
      /\ Len(inbox) \in Int /\ MaxSends \in Int /\ MaxFrames \in Int
  BY <2>1, CountTypes DEF TypeInv
<3> QED
  BY <3>1, <2>2, <2>3, <2>4, <2>5
<2> QED
  BY <1>1, <2>6 DEF Room, e
<1> QED
  BY <1>5, <1>6, <1>7 DEF TypeInv

(* A pulse is counted for the frame that causes it. *)
LEMMA Marks ==
    ASSUME NEW fs \in Seq(Frames), NEW f \in 1 .. Len(fs), NEW hit \in BOOLEAN,
           IF hit THEN Pulse(fs, f) ELSE NoPulse(fs)
    PROVE  /\ Len(frames') = Len(fs)
           /\ \A g \in 1 .. Len(fs) :
                 /\ frames'[g].ids = fs[g].ids /\ frames'[g].due = fs[g].due
                 /\ \A o \in Outputs :
                       frames'[g].fired[o] =
                           IF hit /\ g = f /\ o \in Driven
                           THEN fs[g].fired[o] + 1 ELSE fs[g].fired[o]
           /\ \A o \in Outputs : latch'[o] => latch[o] \/ hold[o]
<1> SUFFICES ASSUME hit
             PROVE  /\ Len(frames') = Len(fs)
                    /\ \A g \in 1 .. Len(fs) :
                          /\ frames'[g].ids = fs[g].ids
                          /\ frames'[g].due = fs[g].due
                          /\ \A o \in Outputs :
                                frames'[g].fired[o] =
                                    IF g = f /\ o \in Driven
                                    THEN fs[g].fired[o] + 1 ELSE fs[g].fired[o]
                    /\ \A o \in Outputs : latch'[o] => latch[o] \/ hold[o]
<2> SUFFICES ASSUME ~hit
             PROVE  frames' = fs /\ latch' = latch
  OBVIOUS
<2> QED
  BY DEF NoPulse
<1> DEFINE n == [o \in Outputs |-> fs[f].fired[o] + (IF o \in Driven THEN 1 ELSE 0)]
           m == [fs[f] EXCEPT !.fired = n]
<1>1. /\ frames' = [fs EXCEPT ![f] = m]
      /\ latch' = [o \in Outputs |-> latch[o] \/ (o \in Driven /\ hold[o])]
  BY DEF Pulse
<1>2. fs[f] \in Frames
  OBVIOUS
<1>3. m.ids = fs[f].ids /\ m.due = fs[f].due /\ m.fired = n
  BY <1>2 DEF Frames
<1>4. \A o \in Outputs : n[o] = IF o \in Driven
                                THEN fs[f].fired[o] + 1 ELSE fs[f].fired[o]
<2> SUFFICES ASSUME NEW o \in Outputs
             PROVE  n[o] = IF o \in Driven
                           THEN fs[f].fired[o] + 1 ELSE fs[f].fired[o]
  OBVIOUS
<2>1. fs[f].fired[o] \in Nat
  BY <1>2 DEF Frames
<2> QED
  BY <2>1
<1> HIDE DEF n, m
<1>5. /\ Len(frames') = Len(fs)
      /\ \A g \in 1 .. Len(fs) : frames'[g] = IF g = f THEN m ELSE fs[g]
  BY <1>1
<1>6. ASSUME NEW g \in 1 .. Len(fs)
      PROVE  /\ frames'[g].ids = fs[g].ids /\ frames'[g].due = fs[g].due
             /\ \A o \in Outputs :
                   frames'[g].fired[o] = IF g = f /\ o \in Driven
                                         THEN fs[g].fired[o] + 1
                                         ELSE fs[g].fired[o]
<2>1. CASE g = f
  BY <1>3, <1>4, <1>5, <2>1
<2>2. CASE g # f
  BY <1>5, <2>2
<2> QED
  BY <2>1, <2>2
<1>7. \A o \in Outputs : latch'[o] => latch[o] \/ hold[o]
  BY <1>1
<1> QED
  BY <1>5, <1>6, <1>7

LEMMA ArriveType ==
    ASSUME HoldInv, TypeInv, NEW ids \in SUBSET Ids, Arrive(ids),
           \/ inbox' = inbox
           \/ inbox' = Append(inbox, [kind |-> "trigger", frame |-> Len(frames) + 1])
    PROVE  TypeInv'
<1> DEFINE new == [ids |-> ids, due |-> [o \in Outputs |-> Due(ids, o)],
                   fired |-> [o \in Outputs |-> 0]]
           fs  == Append(frames, new)
           p == [kind |-> "trigger", frame |-> Len(frames) + 1]
<1>1. new \in Frames
<2>1. \A o \in Outputs : Due(ids, o) \in Effects
  BY DEF Due, Effects
<2> QED
  BY <2>1 DEF Frames
<1>2. /\ frames \in Seq(Frames) /\ inbox \in Seq(InboxPackets)
      /\ Len(frames) \in Nat
  BY DEF HoldInv, Typed
<1>3. fs \in Seq(Frames) /\ Len(fs) = Len(frames) + 1 /\ Len(fs) \in 1 .. Len(fs)
  BY <1>1, <1>2
<1>4. p \in InboxPackets /\ p.kind = "trigger"
  BY <1>2 DEF InboxPackets
<1>5. /\ Len(frames) < MaxFrames
      /\ UNCHANGED <<mask, sw, ethEnabled, detector, conf, hold, work, call,
                     calls, asked, answered>>
  BY DEF Arrive, hostVars
<1>6. PICK match \in Matches(ids) :
          IF match /\ ethEnabled /\ ~sw THEN Pulse(fs, Len(fs)) ELSE NoPulse(fs)
  BY DEF Arrive
<1>7. (match /\ ethEnabled /\ ~sw) \in BOOLEAN
  OBVIOUS
<1> HIDE DEF fs, p
<1>8. Len(frames') = Len(fs) /\ \A o \in Outputs : latch'[o] => latch[o] \/ hold[o]
<2> DEFINE hit == match /\ ethEnabled /\ ~sw
<2>1. hit \in BOOLEAN /\ (IF hit THEN Pulse(fs, Len(fs)) ELSE NoPulse(fs))
  BY <1>6
<2> HIDE DEF hit
<2> QED
  BY <1>3, <2>1, Marks
<1>9. inbox' = inbox \/ inbox' = Append(inbox, p)
  BY DEF p
<1>10. Plain'
  BY <1>5, <1>8 DEF TypeInv, Plain
<1>11. Counted'
<2>1. \A k \in 1 .. Len(inbox') :
          inbox'[k].kind = "command" => inbox'[k].no <= calls
<3> SUFFICES ASSUME NEW k \in 1 .. Len(inbox'), inbox'[k].kind = "command"
             PROVE  inbox'[k].no <= calls
  OBVIOUS
<3>1. inbox'[k] = p \/ (k \in 1 .. Len(inbox) /\ inbox'[k] = inbox[k])
  BY <1>2, <1>4, <1>9, Added
<3> QED
  BY <3>1, <1>4 DEF TypeInv, Counted
<2> QED
  BY <1>3, <1>5, <1>8, <2>1, CountTypes DEF TypeInv, Counted
<1>12. Room'
<2> DEFINE d == MaxSends * (MaxCalls - calls)
                + (IF Waiting THEN MaxSends - call.sends ELSE 0)
           e == MaxCalls * MaxSends
<2>1. d \in Int /\ e \in Int
  BY CountTypes, Budget DEF TypeInv
<2>2. Unsent = d + (MaxFrames - Len(frames))
  BY DEF Unsent
<2>3. Unsent' = d + (MaxFrames - Len(frames'))
  BY <1>5 DEF Unsent, Waiting
<2>4. Len(inbox') \in Nat /\ Len(inbox') <= Len(inbox) + 1
  BY <1>2, <1>4, <1>9
<2>5. Len(inbox) + Unsent <= e + MaxFrames
  BY DEF TypeInv, Room
<2> HIDE DEF d, e
<2>6. Len(inbox') + Unsent' <= e + MaxFrames
<3>1. /\ d \in Int /\ e \in Int /\ Len(frames) \in Nat
      /\ Len(inbox) \in Int /\ MaxFrames \in Int
  BY <2>1, CountTypes DEF TypeInv
<3>2. Unsent' = Unsent - 1 /\ Unsent \in Int
  BY <3>1, <2>2, <2>3, <1>3, <1>8
<3> QED
  BY <3>1, <3>2, <2>4, <2>5
<2> QED
  BY <2>6 DEF Room, e
<1> QED
  BY <1>10, <1>11, <1>12 DEF TypeInv

(* The node takes a packet, or none, and sends nothing that is counted. *)
LEMMA NodeCounts ==
    ASSUME HoldInv, TypeInv, UNCHANGED <<call, calls>>,
           Len(frames') = Len(frames), work'.no <= calls,
           inbox' = inbox \/ (\E kind : NextPacket(kind))
    PROVE  Counted' /\ Room'
<1>1. inbox \in Seq(InboxPackets)
  BY DEF HoldInv, Typed
<1>2. /\ Len(inbox') \in Nat /\ Len(inbox') <= Len(inbox)
      /\ \A k \in 1 .. Len(inbox') :
            \E j \in 1 .. Len(inbox) : inbox'[k] = inbox[j]
<2>1. CASE inbox' = inbox
  BY <1>1, <2>1
<2>2. CASE \E kind : NextPacket(kind)
<3>1. inbox' = Tail(inbox) /\ inbox # <<>>
  BY <2>2 DEF NextPacket
<3>2. Len(Tail(inbox)) = Len(inbox) - 1 /\ Len(inbox) \in Nat
  BY <1>1, <3>1
<3>3. \A k \in 1 .. Len(Tail(inbox)) :
          k + 1 \in 1 .. Len(inbox) /\ Tail(inbox)[k] = inbox[k + 1]
  BY <1>1, <3>1, Removed
<3>4. Len(inbox') \in Nat /\ Len(inbox') <= Len(inbox)
<4>1. Len(Tail(inbox)) \in Nat
  BY <1>1, <3>1, Removed
<4>2. Len(Tail(inbox)) <= Len(inbox)
  BY <3>2, <4>1
<4> QED
  BY <3>1, <4>1, <4>2, Zenon
<3> QED
  BY <3>1, <3>3, <3>4
<2> QED
  BY <2>1, <2>2
<1>3. Counted'
<2>1. \A k \in 1 .. Len(inbox') :
          inbox'[k].kind = "command" => inbox'[k].no <= calls
  BY <1>2 DEF TypeInv, Counted
<2> QED
  BY <2>1 DEF TypeInv, Counted
<1>4. Unsent' = Unsent
  BY DEF Unsent, Waiting
<1>5. Unsent \in Int
<2> DEFINE d == MaxSends * (MaxCalls - calls)
<2>1. d \in Int
  BY CountTypes, Budget DEF TypeInv
<2>2. Unsent = d + (IF Waiting THEN MaxSends - call.sends ELSE 0)
                 + (MaxFrames - Len(frames))
  BY DEF Unsent
<2> HIDE DEF d
<2> QED
  BY <2>1, <2>2, CountTypes DEF TypeInv
<1>6. Room'
<2> DEFINE e == MaxCalls * MaxSends
<2>1. Len(inbox) + Unsent <= e + MaxFrames /\ e \in Int
  BY TriggerAssumption DEF TypeInv, Room
<2> HIDE DEF e
<2>2. Len(inbox') + Unsent' <= e + MaxFrames
  BY <1>1, <1>2, <1>4, <1>5, <2>1, TriggerAssumption
<2> QED
  BY <2>2 DEF Room, e
<1> QED
  BY <1>3, <1>6

(* The command at the head of the queue. *)
LEMMA HeadTypes ==
    ASSUME HoldInv, TypeInv, NEW ops, Receive(ops)
    PROVE  /\ NextPacket("command")
           /\ UNCHANGED <<call, calls, asked, frames, unread>>
           /\ Head(inbox).req \in Requests /\ Head(inbox).req.op \in ops
           /\ Head(inbox).no \in 0 .. MaxCalls /\ Head(inbox).no <= calls
<1>1. NextPacket("command") /\ UNCHANGED <<call, calls, asked, frames, unread>>
  BY DEF Receive, hostVars
<1>2. /\ Head(inbox) = inbox[1] /\ 1 \in 1 .. Len(inbox)
      /\ inbox[1] \in InboxPackets /\ inbox[1].kind = "command"
  BY <1>1, TakesPacket
<1>3. inbox[1].req \in Requests /\ inbox[1].no \in Nat
  BY <1>2 DEF InboxPackets
<1>4. inbox[1].no <= calls /\ calls <= MaxCalls /\ calls \in Nat
  BY <1>2, CountTypes DEF TypeInv, Counted
<1> QED
  BY <1>1, <1>2, <1>3, <1>4, TriggerAssumption DEF Receive

LEMMA CommandType ==
    ASSUME Readable, HoldInv, TypeInv,
           \/ ChangeIds \/ SetType \/ InputSel \/ OutputHold
           \/ OutputClear \/ OutputRead \/ Initialize
    PROVE  TypeInv'
<1> DEFINE req == Head(inbox).req
           no == Head(inbox).no
<1>1. PICK ops : Receive(ops)
  BY DEF ChangeIds, SetType, InputSel, OutputHold, OutputClear, OutputRead,
         Initialize
<1>2. /\ NextPacket("command") /\ UNCHANGED <<call, calls, asked, frames>>
      /\ req \in Requests /\ no \in 0 .. MaxCalls /\ no <= calls
  BY <1>1, HeadTypes
<1>3. /\ conf \in [Outputs -> Selections] /\ mask \subseteq Ids
      /\ sw \in BOOLEAN /\ ethEnabled \in BOOLEAN /\ answered \in BOOLEAN
      /\ detector \in [ids : SUBSET Ids, blank : BOOLEAN]
      /\ work \in [step : Steps, ids : SUBSET Ids, no : 0 .. MaxCalls]
      /\ asked \in Views /\ work.no <= calls
  BY DEF TypeInv, Plain, Counted
<1>4. hold \in [Outputs -> BOOLEAN] /\ latch \in [Outputs -> BOOLEAN]
      /\ \A o \in Outputs : latch[o] => hold[o]
  BY DEF HoldInv, Typed, TypeInv, Plain
<1> HIDE DEF req, no
<1>5. \A n : Answer(n) => answered' \in BOOLEAN
  BY <1>3 DEF Answer
<1>6. Plain' /\ work'.no <= calls
<2>1. CASE ChangeIds
<3>1. /\ mask' = NewMask(req) /\ req.op \in {"add", "del", "clr"}
      /\ work' = [step |-> "template", ids |-> IF sw THEN {} ELSE mask', no |-> no]
      /\ UNCHANGED <<sw, ethEnabled, detector, conf, hold, latch, answered>>
  BY <2>1 DEF ChangeIds, UpdateControl, Receive, req, no
<3>2. mask' \subseteq Ids
  BY <1>2, <1>3, <3>1, RequestTypes DEF NewMask
<3>3. work' \in [step : Steps, ids : SUBSET Ids, no : 0 .. MaxCalls]
      /\ work'.no = no
  BY <1>2, <3>1, <3>2 DEF Steps
<3> QED
  BY <1>2, <1>3, <1>4, <3>1, <3>2, <3>3 DEF Plain
<2>2. CASE SetType
<3>1. /\ sw' = req.sw /\ req.op = "type" /\ Answer(no)
      /\ UNCHANGED <<mask, ethEnabled, detector, conf, hold, latch, work>>
  BY <2>2 DEF SetType, Receive, req, no
<3>2. sw' \in BOOLEAN
  BY <1>2, <3>1, RequestTypes
<3> QED
  BY <1>2, <1>3, <1>4, <1>5, <3>1, <3>2 DEF Plain
<2>3. CASE InputSel
<3>1. /\ conf' = [conf EXCEPT ![req.out] =
                     Select(conf[req.out], req.ors, req.ands)]
      /\ req.op = "sel" /\ Answer(no)
      /\ UNCHANGED <<mask, sw, ethEnabled, detector, hold, latch, work>>
  BY <2>3 DEF InputSel, Receive, req, no
<3>2. req.out \in Outputs /\ req.ors \in Lists /\ req.ands \in Lists
  BY <1>2, <3>1, RequestTypes
<3>3. Select(conf[req.out], req.ors, req.ands) \in Selections
  BY <1>3, <3>2, Selected
<3>4. conf' \in [Outputs -> Selections]
  BY <1>3, <3>1, <3>3
<3> QED
  BY <1>2, <1>3, <1>4, <1>5, <3>1, <3>4 DEF Plain
<2>4. CASE OutputHold
<3>1. /\ hold' = [hold EXCEPT ![req.out] = req.on]
      /\ latch' = [latch EXCEPT ![req.out] = @ /\ req.on]
      /\ Answer(no)
      /\ UNCHANGED <<mask, sw, ethEnabled, detector, conf, work>>
  BY <2>4 DEF OutputHold, req, no
<3>2. \A o \in Outputs : latch'[o] => hold'[o]
  BY <1>4, <3>1
<3> QED
  BY <1>2, <1>3, <1>5, <3>1, <3>2 DEF Plain
<2>5. CASE OutputClear
<3>1. /\ latch' = [latch EXCEPT ![req.out] = @ /\ ~hold[req.out]]
      /\ Answer(no)
      /\ UNCHANGED <<mask, sw, ethEnabled, detector, conf, hold, work>>
  BY <2>5 DEF OutputClear, req, no
<3>2. \A o \in Outputs : latch'[o] => hold'[o]
  BY <1>4, <3>1
<3> QED
  BY <1>2, <1>3, <1>5, <3>1, <3>2 DEF Plain
<2>6. CASE OutputRead
<3>1. /\ Answer(no)
      /\ UNCHANGED <<mask, sw, ethEnabled, detector, conf, hold, latch, work>>
  BY <2>6 DEF OutputRead, no
<3> QED
  BY <1>2, <1>3, <1>4, <1>5, <3>1 DEF Plain
<2>7. CASE Initialize
<3>1. /\ mask' = {} /\ sw' = FALSE /\ ethEnabled' = FALSE
      /\ conf' = [o \in Outputs |-> Select(conf[o], DefaultInputs(o), <<>>)]
      /\ latch' = [o \in Outputs |-> FALSE]
      /\ work' = [step |-> "enableAll", ids |-> {}, no |-> no]
      /\ UNCHANGED <<detector, answered>>
  BY <2>7 DEF Initialize, DisableAll, no
<3>2. \A o \in Outputs :
          Select(conf[o], DefaultInputs(o), <<>>) \in Selections
  BY <1>3, Defaults, Selected
<3>3. work' \in [step : Steps, ids : SUBSET Ids, no : 0 .. MaxCalls]
      /\ work'.no = no
  BY <1>2, <3>1 DEF Steps
<3> QED
  BY <1>2, <1>3, <3>1, <3>2, <3>3 DEF Plain
<2> QED
  BY <2>1, <2>2, <2>3, <2>4, <2>5, <2>6, <2>7
<1> QED
  BY <1>2, <1>6, NodeCounts DEF TypeInv

LEMMA RegisterWriteType ==
    ASSUME HoldInv, TypeInv, RegisterWrite
    PROVE  TypeInv'
<1>1. /\ UNCHANGED <<mask, sw, conf, hold, latch, call, calls, asked, inbox,
                     frames>>
  BY DEF RegisterWrite, ClearTemplate, WriteTemplate, ClearOps, WriteOps,
         EnableAll, Gate, StepTo, hostVars
<1>2. /\ ethEnabled \in BOOLEAN /\ answered \in BOOLEAN
      /\ detector \in [ids : SUBSET Ids, blank : BOOLEAN]
      /\ work \in [step : Steps, ids : SUBSET Ids, no : 0 .. MaxCalls]
      /\ work.no <= calls /\ MaxCalls \in Nat /\ calls \in Nat
  BY CountTypes DEF TypeInv, Plain, Counted
<1>3. /\ ethEnabled' \in BOOLEAN /\ answered' \in BOOLEAN
      /\ detector' \in [ids : SUBSET Ids, blank : BOOLEAN]
      /\ work' \in [step : Steps, ids : SUBSET Ids, no : 0 .. MaxCalls]
      /\ work'.no <= calls
<2>1. CASE ClearTemplate
  BY <1>2, <2>1 DEF ClearTemplate, StepTo, Steps
<2>2. CASE WriteTemplate
  BY <1>2, <2>2 DEF WriteTemplate, StepTo, Steps
<2>3. CASE ClearOps
  BY <1>2, <2>3 DEF ClearOps, StepTo, Steps
<2>4. CASE WriteOps
  BY <1>2, <2>4 DEF WriteOps, StepTo, Steps
<2>5. CASE EnableAll
  BY <1>2, <2>5 DEF EnableAll, StepTo, Steps
<2>6. CASE Gate
<3>1. /\ ethEnabled' = (mask # {}) /\ work' = Idle /\ detector' = detector
      /\ Answer(work.no)
  BY <2>6 DEF Gate
<3>2. work' \in [step : Steps, ids : SUBSET Ids, no : 0 .. MaxCalls]
      /\ work'.no = 0
  BY <1>2, <3>1 DEF Idle, Steps
<3>3. answered' \in BOOLEAN
  BY <1>2, <3>1 DEF Answer
<3>4. ethEnabled' \in BOOLEAN
  BY <3>1
<3>5. work'.no <= calls
  BY <1>2, <3>2
<3>6. detector' \in [ids : SUBSET Ids, blank : BOOLEAN]
  BY <1>2, <3>1
<3> QED
  BY <3>2, <3>3, <3>4, <3>5, <3>6, Zenon
<2> QED
  BY <2>1, <2>2, <2>3, <2>4, <2>5, <2>6 DEF RegisterWrite
<1>4. Plain'
  BY <1>1, <1>3 DEF TypeInv, Plain
<1> QED
  BY <1>1, <1>3, <1>4, NodeCounts DEF TypeInv

LEMMA TriggerInType ==
    ASSUME HoldInv, TypeInv, TriggerIn
    PROVE  TypeInv'
<1> DEFINE f == Head(inbox).frame
           hit == frames[f].ids \cap mask # {} /\ sw /\ ethEnabled
<1>1. /\ NextPacket("trigger")
      /\ UNCHANGED <<mask, sw, ethEnabled, detector, conf, hold, work, call,
                     calls, asked, answered>>
      /\ IF hit THEN Pulse(frames, f) ELSE NoPulse(frames)
  BY DEF TriggerIn, hostVars
<1>2. frames \in Seq(Frames) /\ work.no <= calls
  BY DEF HoldInv, Typed, TypeInv, Counted
<1> HIDE DEF f, hit
<1>3. Len(frames') = Len(frames) /\ \A o \in Outputs : latch'[o] => latch[o] \/ hold[o]
<2>1. CASE Pulse(frames, f)
<3>1. /\ DOMAIN frames' = DOMAIN frames
      /\ latch' = [o \in Outputs |-> latch[o] \/ (o \in Driven /\ hold[o])]
  BY <2>1 DEF Pulse
<3>2. frames' \in Seq(Frames)
  BY TriggerInStep DEF HoldInv, Typed
<3>3. Len(frames') = Len(frames)
  BY <1>2, <3>1, <3>2
<3> QED
  BY <3>1, <3>3
<2>2. CASE NoPulse(frames)
  BY <2>2 DEF NoPulse
<2> QED
  BY <1>1, <2>1, <2>2
<1>4. Plain'
  BY <1>1, <1>3 DEF TypeInv, Plain
<1> QED
  BY <1>1, <1>2, <1>3, <1>4, NodeCounts DEF TypeInv

LEMMA StutterType ==
    ASSUME TypeInv, UNCHANGED vars
    PROVE  TypeInv'
  BY DEF vars, nodeVars, hostVars, TypeInv, Plain, Counted, Room, Unsent, Waiting

THEOREM TypeInvariant == Readable => (Spec => []TypeInv)
<1> SUFFICES ASSUME Readable PROVE Spec => []TypeInv
  OBVIOUS
<1>1. HoldInv /\ TypeInv /\ [Next]_vars => TypeInv'
<2> SUFFICES ASSUME HoldInv, TypeInv, [Next]_vars PROVE TypeInv'
  OBVIOUS
<2>1. ASSUME NEW req \in Requests, CallNode(req) PROVE TypeInv'
  BY <2>1, CallNodeType
<2>2. CASE SendAgain
  BY <2>2, SendAgainType
<2>3. CASE ReceiveAnswer
  BY <2>3, ReceiveAnswerType
<2>4. ASSUME NEW ids \in IdSets, Trigger(ids) PROVE TypeInv'
<3>1. ids \in SUBSET Ids
  BY TriggerAssumption
<3> QED
  BY <2>4, <3>1, ArriveType DEF Trigger
<2>5. CASE OtherFrame
  BY <2>5, ArriveType DEF OtherFrame
<2>6. CASE TriggerIn
  BY <2>6, TriggerInType
<2>7. CASE \/ ChangeIds \/ SetType \/ InputSel \/ OutputHold
           \/ OutputClear \/ OutputRead \/ Initialize
  BY <2>7, CommandType
<2>8. CASE RegisterWrite
  BY <2>8, RegisterWriteType
<2>9. CASE UNCHANGED vars
  BY <2>9, StutterType
<2> QED
  BY <2>1, <2>2, <2>3, <2>4, <2>5, <2>6, <2>7, <2>8, <2>9
     DEF Next, HostStep, NodeStep
<1>2. Init => TypeInv
  BY InitType
<1> QED
  BY <1>1, <1>2, HoldInvariant, PTL DEF Spec

-----------------------------------------------------------------------------
(***************************************************************************)
(* What the host expects of a frame is what the node does with it.         *)
(*                                                                         *)
(* OnlyWhenDue and Heard are not inductive.  ViewInv relates the node to   *)
(* what the host has configured (asked): the node agrees with it, or has   *)
(* already carried out the command the host waits for, and then only       *)
(* copies of that command are queued (Phase); a late copy of an earlier    *)
(* command asks for what is configured anyway.  It relates the detector    *)
(* and the gate of the Ethernet input to the mask, at every step of their  *)
(* update (Gates), and a queued trigger to the frame it was sent as        *)
(* (InQueue).                                                              *)
(***************************************************************************)

(* Mask m, trigger type s and selections c are those of configuration a. *)
Agree(m, s, c, a) ==
    /\ m = a.ids /\ s = a.sw
    /\ \A o \in Outputs : c[o] = [or  |-> Inputs(a.conf[o]),
                                  and |-> Inputs(a.ands[o])]

(* Packet p is a copy of command c, which the host waits for. *)
Current(p, c) == c.sends > 0 /\ p.kind = "command" /\ p.no = c.no

(* IDs of the detector, when it is up to date. *)
Template == IF sw THEN {} ELSE mask

Gates ==
    /\ work.step = "idle" => (ethEnabled <=> mask # {})
    /\ work.step = "idle" /\ ~sw /\ mask # {} =>
           detector = [ids |-> mask, blank |-> FALSE]
    /\ work.step \in {"template", "newTemplate"} => work.ids = Template
    /\ work.step \in {"ops", "newOps", "gate"} => detector.ids = Template
    /\ work.step = "gate" => ~detector.blank
    /\ work.step \in {"enableAll", "disableEth"} => mask = {}

(* Behind a copy of the current command there are only copies of it. *)
Numbered ==
    \A k \in 1 .. Len(inbox) :
        Current(inbox[k], call) =>
            /\ inbox[k].req = call.req
            /\ \A j \in k .. Len(inbox) : Current(inbox[j], call)

Pending ==
    /\ Agree(mask, sw, conf, asked)
    /\ Waiting => ~answered /\ (Updating => work.no # call.no)
    /\ \A k \in 1 .. Len(inbox) :
           inbox[k].kind = "command" /\ ~Current(inbox[k], call) =>
               After(asked, inbox[k].req) = asked

Carried ==
    /\ Waiting /\ Agree(mask, sw, conf, After(asked, call.req))
    /\ \A k \in 1 .. Len(inbox) : Current(inbox[k], call)

Phase ==
    /\ Numbered
    /\ Pending \/ Carried
    /\ ~Waiting => ~answered
    /\ Waiting /\ call.req.op = "type" /\ ~call.req.sw => asked.ids = {}

Connected(a, o) == EthA \in Listed(a.conf[o]) \/ Listed(a.ands[o]) = {EthA}

Wants(a, ids, o) == a.ids \cap ids # {} /\ Connected(a, o)

(* A queued trigger is the only one of its frame, and the frame has not    *)
(* driven an output before.                                                *)
InQueue ==
    \A k \in 1 .. Len(inbox) :
        inbox[k].kind = "trigger" =>
            /\ inbox[k].frame \in 1 .. Len(frames)
            /\ \A j \in 1 .. Len(inbox) :
                   j # k /\ inbox[j].kind = "trigger" =>
                       inbox[j].frame # inbox[k].frame
            /\ asked.sw =>
                   \A o \in Outputs :
                       /\ frames[inbox[k].frame].fired[o] = 0
                       /\ frames[inbox[k].frame].due[o] =
                              IF Wants(asked, frames[inbox[k].frame].ids, o)
                              THEN "fire" ELSE "quiet"

Served ==
    \A f \in 1 .. Len(frames), o \in Outputs :
        /\ frames[f].due[o] = "quiet" => frames[f].fired[o] = 0
        /\ frames[f].fired[o] <= 1
        /\ frames[f].due[o] = "fire" =>
               frames[f].fired[o] = 1 \/ (asked.sw /\ Queued(f))

ViewInv == Gates /\ Phase /\ InQueue /\ Served

-----------------------------------------------------------------------------
(* A command makes of a node that agrees with a one that agrees with       *)
(* After(a, req).                                                          *)
LEMMA CommandDoes ==
    ASSUME Readable, HoldInv, TypeInv,
           \/ ChangeIds \/ SetType \/ InputSel \/ OutputHold
           \/ OutputClear \/ OutputRead \/ Initialize,
           NEW a \in Views, Agree(mask, sw, conf, a)
    PROVE  Agree(mask', sw', conf', After(a, Head(inbox).req))
<1> DEFINE req == Head(inbox).req
           b == After(a, req)
<1>1. PICK ops : Receive(ops)
  BY DEF ChangeIds, SetType, InputSel, OutputHold, OutputClear, OutputRead,
         Initialize
<1>2. req \in Requests
  BY <1>1, HeadTypes
<1>3. a.conf \in [Outputs -> Lists] /\ a.ands \in [Outputs -> Lists]
      /\ a = [ids |-> a.ids, sw |-> a.sw, conf |-> a.conf, ands |-> a.ands]
  BY DEF Views
<1>4. conf \in [Outputs -> Selections]
  BY DEF TypeInv, Plain
<1>5. mask = a.ids /\ sw = a.sw
      /\ \A o \in Outputs : conf[o] = [or |-> Inputs(a.conf[o]),
                                       and |-> Inputs(a.ands[o])]
  BY DEF Agree
<1> HIDE DEF req
<1>6. CASE ChangeIds
<2>1. /\ mask' = NewMask(req) /\ req.op \in {"add", "del", "clr"}
      /\ UNCHANGED <<sw, conf>>
  BY <1>6 DEF ChangeIds, UpdateControl, Receive, req
<2>2. b.ids = NewMask(req) /\ b.sw = a.sw /\ b.conf = a.conf /\ b.ands = a.ands
<3>1. CASE req.op = "add"
  BY <3>1, <1>3, <1>5 DEF After, NewMask
<3>2. CASE req.op = "del"
  BY <3>2, <1>3, <1>5 DEF After, NewMask
<3>3. CASE req.op = "clr"
  BY <3>3, <1>3, <1>5 DEF After, NewMask
<3> QED
  BY <2>1, <3>1, <3>2, <3>3
<2> HIDE DEF b
<2> QED
  BY <1>5, <2>1, <2>2 DEF Agree, b, req
<1>7. CASE SetType
<2>1. sw' = req.sw /\ req.op = "type" /\ UNCHANGED <<mask, conf>>
  BY <1>7 DEF SetType, Receive, req
<2>2. b.sw = req.sw /\ b.ids = a.ids /\ b.conf = a.conf /\ b.ands = a.ands
  BY <2>1, <1>3 DEF After
<2> HIDE DEF b
<2> QED
  BY <1>5, <2>1, <2>2 DEF Agree, b, req
<1>8. CASE InputSel
<2> DEFINE r == req.out
           s == Select(conf[r], req.ors, req.ands)
<2>1. /\ conf' = [conf EXCEPT ![r] = s]
      /\ req.op = "sel" /\ UNCHANGED <<mask, sw>>
  BY <1>8 DEF InputSel, Receive, req
<2>2. r \in Outputs /\ req.ors \in Lists /\ req.ands \in Lists
  BY <1>2, <2>1, RequestTypes
<2>3. s = [or |-> Inputs(req.ors), and |-> Inputs(req.ands)]
  BY <1>4, <2>2, Selected
<2>4. b = [a EXCEPT !.conf[r] = req.ors, !.ands[r] = req.ands]
  BY <2>1 DEF After
<2>5. /\ b.ids = a.ids /\ b.sw = a.sw
      /\ b.conf = [a.conf EXCEPT ![r] = req.ors]
      /\ b.ands = [a.ands EXCEPT ![r] = req.ands]
  BY <1>3, <2>4
<2> HIDE DEF b, s, r
<2>6. ASSUME NEW o \in Outputs
      PROVE  conf'[o] = [or |-> Inputs(b.conf[o]), and |-> Inputs(b.ands[o])]
<3>1. CASE o = r
<4>1. b.conf[o] = req.ors /\ b.ands[o] = req.ands
  BY <1>3, <2>2, <2>5, <3>1
<4>2. conf'[o] = s
  BY <1>4, <2>1, <2>2, <3>1
<4> QED
  BY <2>3, <4>1, <4>2
<3>2. CASE o # r
<4>1. b.conf[o] = a.conf[o] /\ b.ands[o] = a.ands[o]
  BY <1>3, <2>5, <3>2
<4>2. conf'[o] = conf[o]
  BY <1>4, <2>1, <3>2
<4> QED
  BY <1>5, <4>1, <4>2
<3> QED
  BY <3>1, <3>2
<2> QED
  BY <1>5, <2>1, <2>5, <2>6 DEF Agree, b, req
<1>9. CASE OutputHold \/ OutputClear \/ OutputRead
<2>1. req.op \in {"hold", "clear", "read"} /\ UNCHANGED <<mask, sw, conf>>
  BY <1>9 DEF OutputHold, OutputClear, OutputRead, Receive, req
<2>2. b = a
  BY <2>1 DEF After
<2> HIDE DEF b
<2> QED
  BY <1>5, <2>1, <2>2 DEF Agree, b, req
<1>10. CASE Initialize
<2>1. /\ req.op = "init" /\ mask' = {} /\ sw' = FALSE
      /\ conf' = [o \in Outputs |-> Select(conf[o], DefaultInputs(o), <<>>)]
  BY <1>10 DEF Initialize, Receive, req
<2>2. b = [ids |-> {}, sw |-> FALSE,
           conf |-> [o \in Outputs |-> DefaultInputs(o)],
           ands |-> [o \in Outputs |-> <<>>]]
  BY <2>1 DEF After
<2> HIDE DEF b
<2>3. ASSUME NEW o \in Outputs
      PROVE  conf'[o] = [or |-> Inputs(b.conf[o]), and |-> Inputs(b.ands[o])]
<3>1. conf'[o] = [or |-> Inputs(DefaultInputs(o)), and |-> Inputs(<<>>)]
  BY <1>4, <2>1, Defaults, Selected
<3> QED
  BY <2>2, <3>1
<2>4. b.ids = {} /\ b.sw = FALSE
  BY <2>2
<2> QED
  BY <2>1, <2>3, <2>4 DEF Agree, b, req
<1> QED
  BY <1>6, <1>7, <1>8, <1>9, <1>10

(* Which outputs a pulse drives. *)
LEMMA DrivenOutputs ==
    ASSUME Readable, NEW a \in Views, Agree(mask, sw, conf, a),
           NEW o \in Outputs
    PROVE  o \in Driven <=> Connected(a, o)
<1>1. a.conf[o] \in Lists /\ a.ands[o] \in Lists
  BY DEF Views
<1>2. Listed(a.conf[o]) \subseteq 1 .. 9 /\ Listed(a.ands[o]) \subseteq 1 .. 9
  BY <1>1 DEF Readable, NumInputs
<1>3. conf[o].or = Inputs(a.conf[o]) /\ conf[o].and = Inputs(a.ands[o])
<2>1. conf[o] = [or |-> Inputs(a.conf[o]), and |-> Inputs(a.ands[o])]
  BY DEF Agree
<2> QED
  BY <2>1
<1>4. ASSUME NEW l, l \subseteq 1 .. 9
      PROVE  /\ 0 \in {i - 1 : i \in l} <=> 1 \in l
             /\ {i - 1 : i \in l} \cap (0 .. 8) = {0} <=> l = {1}
<2>1. 0 \in {i - 1 : i \in l} <=> 1 \in l
  BY <1>4
<2>2. \A i \in l : i \in Int /\ i - 1 \in 0 .. 8
  BY <1>4
<2>3. {i - 1 : i \in l} \cap (0 .. 8) = {i - 1 : i \in l}
  BY <2>2
<2>4. ASSUME {i - 1 : i \in l} = {0} PROVE l = {1}
<3>1. \A i \in l : i - 1 = 0
  BY <2>4
<3>2. \A i \in l : i = 1
  BY <2>2, <3>1
<3>3. 1 \in l
  BY <2>1, <2>4
<3> QED
  BY <3>2, <3>3
<2>5. ASSUME l = {1} PROVE {i - 1 : i \in l} = {0}
  BY <2>5
<2> QED
  BY <2>1, <2>3, <2>4, <2>5
<1> QED
  BY <1>2, <1>3, <1>4
     DEF Driven, Drives, Connected, EthA, Inputs, Field, NumInputs

-----------------------------------------------------------------------------
(* The queue. *)
LEMMA Grown ==
    ASSUME NEW s \in Seq(InboxPackets), NEW p \in InboxPackets
    PROVE  /\ Len(s) \in Nat /\ Len(Append(s, p)) = Len(s) + 1
           /\ Append(s, p)[Len(s) + 1] = p
           /\ \A k \in 1 .. Len(s) : Append(s, p)[k] = s[k]
           /\ \A k \in 1 .. Len(Append(s, p)) :
                 k \in 1 .. Len(s) \/ k = Len(s) + 1
  OBVIOUS

LEMMA Taken ==
    ASSUME HoldInv, NEW kind, NextPacket(kind)
    PROVE  /\ Len(inbox) \in Nat \ {0} /\ Len(inbox') = Len(inbox) - 1
           /\ Head(inbox) = inbox[1] /\ inbox[1].kind = kind
           /\ \A k \in 1 .. Len(inbox') :
                 k + 1 \in 1 .. Len(inbox) /\ inbox'[k] = inbox[k + 1]
           /\ \A k \in 1 .. Len(inbox) :
                 k # 1 => /\ k - 1 \in 1 .. Len(inbox')
                          /\ inbox'[k - 1] = inbox[k]
<1>1. /\ inbox \in Seq(InboxPackets) /\ inbox # <<>>
      /\ inbox' = Tail(inbox) /\ Head(inbox).kind = kind
  BY DEF HoldInv, Typed, NextPacket
<1>2. Len(inbox) \in Nat \ {0} /\ Len(Tail(inbox)) = Len(inbox) - 1
  BY <1>1
<1>3. /\ Head(inbox) = inbox[1] /\ inbox[1].kind = kind
      /\ \A k \in 1 .. Len(inbox') :
            k + 1 \in 1 .. Len(inbox) /\ inbox'[k] = inbox[k + 1]
  BY TakesPacket
<1>4. Len(inbox') = Len(inbox) - 1
  BY <1>1, <1>2, Zenon
<1>5. ASSUME NEW k \in 1 .. Len(inbox), k # 1
      PROVE  k - 1 \in 1 .. Len(inbox') /\ inbox'[k - 1] = inbox[k]
<2>1. k - 1 \in 1 .. Len(inbox') /\ (k - 1) + 1 = k
  BY <1>2, <1>4, <1>5
<2> QED
  BY <1>3, <2>1
<1> QED
  BY <1>2, <1>3, <1>4, <1>5

-----------------------------------------------------------------------------
(* Phase. *)

LEMMA InitView == Readable /\ Init => ViewInv
<1> SUFFICES ASSUME Readable, Init PROVE ViewInv
  OBVIOUS
<1>1. Len(inbox) = 0 /\ Len(frames) = 0 /\ ~Waiting /\ ~answered
  BY DEF Init, NoCall, Waiting
<1>2. Gates
  BY DEF Init, Gates, Idle
<1>3. Agree(mask, sw, conf, asked)
<2>1. mask = asked.ids /\ sw = asked.sw
  BY DEF Init
<2>2. ASSUME NEW o \in Outputs
      PROVE  conf[o] = [or  |-> Inputs(asked.conf[o]),
                        and |-> Inputs(asked.ands[o])]
<3>1. NoInputs \in Selections
  BY DEF NoInputs, Selections
<3>2. conf[o] = Select(NoInputs, DefaultInputs(o), <<>>)
      /\ asked.conf[o] = DefaultInputs(o) /\ asked.ands[o] = <<>>
  BY DEF Init
<3> QED
  BY <3>1, <3>2, Defaults, Selected
<2> QED
  BY <2>1, <2>2 DEF Agree
<1>4. Phase
  BY <1>1, <1>3 DEF Phase, Numbered, Pending
<1>5. InQueue /\ Served
  BY <1>1 DEF InQueue, Served
<1> QED
  BY <1>2, <1>4, <1>5 DEF ViewInv

LEMMA CallNodePhase ==
    ASSUME HoldInv, TypeInv, Phase, NEW req \in Requests, CallNode(req)
    PROVE  Phase'
<1> DEFINE p == Command(req, calls')
<1>1. /\ ~Waiting /\ calls < MaxCalls /\ calls' = calls + 1
      /\ call' = [sends |-> 1, no |-> calls', req |-> req]
      /\ Deliver(p) /\ Sensible(req)
      /\ UNCHANGED <<mask, sw, conf, work, asked, answered>>
  BY DEF CallNode, nodeVars
<1>2. /\ inbox \in Seq(InboxPackets) /\ p \in InboxPackets
      /\ p.no = calls' /\ p.req = req /\ p.kind = "command"
      /\ calls' \in Nat /\ calls \in Nat
  BY <1>1, CountTypes DEF TypeInv, HoldInv, Typed, Command, InboxPackets
<1>3. call'.sends = 1 /\ call'.no = calls' /\ call'.req = req /\ Waiting'
  BY <1>1 DEF Waiting
<1>4. inbox' = inbox \/ inbox' = Append(inbox, p)
  BY <1>1 DEF Deliver
<1> HIDE DEF p
<1>5. Current(p, call')
  BY <1>2, <1>3 DEF Current
<1>6. \A k \in 1 .. Len(inbox) :
          ~Current(inbox[k], call') /\ ~Current(inbox[k], call)
<2> SUFFICES ASSUME NEW k \in 1 .. Len(inbox)
             PROVE  ~Current(inbox[k], call') /\ ~Current(inbox[k], call)
  OBVIOUS
<2>1. ASSUME inbox[k].kind = "command" PROVE inbox[k].no # call'.no
<3>1. inbox[k] \in InboxPackets
  BY <1>2
<3>2. inbox[k].no \in Nat
  BY <2>1, <3>1 DEF InboxPackets
<3>3. inbox[k].no <= calls
  BY <2>1 DEF TypeInv, Counted
<3> QED
  BY <1>1, <1>2, <1>3, <3>2, <3>3
<2> QED
  BY <1>1, <2>1 DEF Current, Waiting
<1>7. \A k \in 1 .. Len(inbox') :
          \/ k \in 1 .. Len(inbox) /\ inbox'[k] = inbox[k]
          \/ k = Len(inbox') /\ inbox'[k] = p
<2>1. CASE inbox' = inbox
  BY <2>1
<2>2. CASE inbox' = Append(inbox, p)
  BY <1>2, <2>2, Grown
<2> QED
  BY <1>4, <2>1, <2>2
<1>8. Numbered'
<2> SUFFICES ASSUME NEW k \in 1 .. Len(inbox'), Current(inbox'[k], call')
             PROVE  /\ inbox'[k].req = req
                    /\ \A j \in k .. Len(inbox') : Current(inbox'[j], call')
  BY <1>3 DEF Numbered
<2>1. k = Len(inbox') /\ inbox'[k] = p
  BY <1>6, <1>7
<2>2. \A j \in k .. Len(inbox') : j = k
  BY <2>1
<2> QED
  BY <1>2, <1>5, <2>1, <2>2
<1>9. Pending'
<2>1. Pending
  BY <1>1 DEF Phase, Carried
<2>2. ~answered' /\ work'.no # call'.no
<3>1. work.no \in Int /\ work.no <= calls
  BY DEF TypeInv, Plain, Counted
<3> QED
  BY <1>1, <1>2, <1>3, <3>1 DEF Phase
<2>3. \A k \in 1 .. Len(inbox') :
          inbox'[k].kind = "command" /\ ~Current(inbox'[k], call') =>
              After(asked, inbox'[k].req) = asked
  BY <1>5, <1>6, <1>7, <2>1 DEF Pending
<2> QED
  BY <1>1, <2>1, <2>2, <2>3 DEF Pending
<1>10. call'.req.op = "type" /\ ~call'.req.sw => asked.ids = {}
  BY <1>1, <1>3 DEF Sensible
<1> QED
  BY <1>1, <1>3, <1>8, <1>9, <1>10 DEF Phase

LEMMA SendAgainPhase ==
    ASSUME HoldInv, TypeInv, Phase, SendAgain
    PROVE  Phase'
<1> DEFINE p == Command(call.req, call.no)
<1>1. /\ Waiting /\ call' = [call EXCEPT !.sends = @ + 1] /\ Deliver(p)
      /\ UNCHANGED <<mask, sw, conf, work, asked, answered>>
  BY DEF SendAgain, nodeVars
<1>2. /\ call \in [sends : Nat, no : Nat, req : Requests]
      /\ inbox \in Seq(InboxPackets)
  BY <1>1 DEF HoldInv, Typed
<1>3. /\ p \in InboxPackets /\ p.no = call.no /\ p.req = call.req
      /\ p.kind = "command"
  BY <1>2 DEF Command, InboxPackets
<1>4. inbox' = inbox \/ inbox' = Append(inbox, p)
  BY <1>1 DEF Deliver
<1>5. /\ call'.sends = call.sends + 1 /\ call'.no = call.no
      /\ call'.req = call.req /\ Waiting' /\ call'.sends > 0 /\ call.sends > 0
  BY <1>1, <1>2 DEF Waiting
<1> HIDE DEF p
<1>6. \A q : Current(q, call') <=> Current(q, call)
  BY <1>5 DEF Current
<1>7. Current(p, call')
  BY <1>3, <1>5 DEF Current
<1>8. /\ Len(inbox) \in Nat
      /\ \A k \in 1 .. Len(inbox') :
            \/ k \in 1 .. Len(inbox) /\ inbox'[k] = inbox[k]
            \/ k = Len(inbox') /\ inbox'[k] = p
<2>1. CASE inbox' = inbox
  BY <1>2, <2>1
<2>2. CASE inbox' = Append(inbox, p)
  BY <1>2, <1>3, <2>2, Grown
<2> QED
  BY <1>4, <2>1, <2>2
<1>9. Numbered'
<2> SUFFICES ASSUME NEW k \in 1 .. Len(inbox'), Current(inbox'[k], call')
             PROVE  /\ inbox'[k].req = call.req
                    /\ \A j \in k .. Len(inbox') : Current(inbox'[j], call')
  BY <1>5 DEF Numbered
<2>1. CASE k \in 1 .. Len(inbox) /\ inbox'[k] = inbox[k]
<3>1. /\ inbox[k].req = call.req
      /\ \A j \in k .. Len(inbox) : Current(inbox[j], call)
  BY <1>6, <2>1 DEF Phase, Numbered
<3>2. ASSUME NEW j \in k .. Len(inbox') PROVE Current(inbox'[j], call')
<4>1. j \in 1 .. Len(inbox')
  BY <2>1
<4>2. CASE j \in 1 .. Len(inbox) /\ inbox'[j] = inbox[j]
<5>1. j \in k .. Len(inbox)
  BY <2>1, <4>2
<5> QED
  BY <1>6, <3>1, <4>2, <5>1
<4>3. CASE inbox'[j] = p
  BY <1>7, <4>3
<4> QED
  BY <1>8, <4>1, <4>2, <4>3
<3> QED
  BY <2>1, <3>1, <3>2
<2>2. CASE k = Len(inbox') /\ inbox'[k] = p
<3>1. \A j \in k .. Len(inbox') : j = k
  BY <2>2
<3> QED
  BY <1>3, <1>7, <2>2, <3>1
<2> QED
  BY <1>8, <2>1, <2>2
<1>10. Pending => Pending'
<2> SUFFICES ASSUME Pending PROVE Pending'
  OBVIOUS
<2>1. \A k \in 1 .. Len(inbox') :
          inbox'[k].kind = "command" /\ ~Current(inbox'[k], call') =>
              After(asked, inbox'[k].req) = asked
  BY <1>6, <1>7, <1>8 DEF Pending
<2>2. Updating' <=> Updating
  BY <1>1 DEF Updating
<2> QED
  BY <1>1, <1>5, <2>1, <2>2 DEF Pending
<1>11. Carried => Carried'
<2> SUFFICES ASSUME Carried PROVE Carried'
  OBVIOUS
<2>1. \A k \in 1 .. Len(inbox') : Current(inbox'[k], call')
  BY <1>6, <1>7, <1>8 DEF Carried
<2> QED
  BY <1>1, <1>5, <2>1 DEF Carried
<1> QED
  BY <1>1, <1>5, <1>9, <1>10, <1>11 DEF Phase

LEMMA ReceiveAnswerPhase ==
    ASSUME HoldInv, TypeInv, Phase, ReceiveAnswer
    PROVE  Phase' /\ Carried
<1>1. /\ Waiting /\ answered /\ ~answered' /\ asked' = Configured(call.req)
      /\ call'.sends = 0
      /\ UNCHANGED <<mask, sw, conf, work, inbox>>
  BY DEF ReceiveAnswer, nodeVars
<1>2. Carried
  BY <1>1 DEF Phase, Pending
<1>3. call.req \in Requests /\ asked \in Views
  BY <1>1 DEF HoldInv, Typed, TypeInv, Plain
<1>4. asked' = After(asked, call.req) /\ After(asked', call.req) = asked'
  BY <1>1, <1>3, ConfiguredAfter, AfterTwice
<1>5. ~Waiting' /\ \A q : ~Current(q, call')
  BY <1>1 DEF Waiting, Current
<1>6. \A k \in 1 .. Len(inbox') : After(asked', inbox'[k].req) = asked'
<2>1. \A k \in 1 .. Len(inbox) : inbox[k].req = call.req
  BY <1>2 DEF Carried, Phase, Numbered
<2> QED
  BY <1>1, <1>4, <2>1
<1>7. Pending'
  BY <1>1, <1>2, <1>4, <1>5, <1>6 DEF Pending, Carried
<1> QED
  BY <1>1, <1>2, <1>5, <1>7 DEF Phase, Numbered

(* A frame comes in; the queue may get a trigger. *)
LEMMA ArrivePhase ==
    ASSUME HoldInv, Phase,
           \/ inbox' = inbox
           \/ /\ ~Waiting
              /\ inbox' = Append(inbox, [kind |-> "trigger", frame |-> Len(frames) + 1]),
           UNCHANGED <<mask, sw, conf, work, call, asked, answered>>
    PROVE  Phase'
<1>1. CASE inbox' = inbox
  BY <1>1 DEF Phase, Numbered, Pending, Carried, Waiting, Updating
<1>2. CASE /\ ~Waiting
           /\ inbox' = Append(inbox, [kind |-> "trigger", frame |-> Len(frames) + 1])
<2> DEFINE p == [kind |-> "trigger", frame |-> Len(frames) + 1]
<2>1. p \in InboxPackets /\ p.kind = "trigger" /\ inbox \in Seq(InboxPackets)
  BY DEF HoldInv, Typed, InboxPackets
<2> HIDE DEF p
<2>2. \A k \in 1 .. Len(inbox') :
          inbox'[k] = p \/ (k \in 1 .. Len(inbox) /\ inbox'[k] = inbox[k])
  BY <1>2, <2>1, Added DEF p
<2>3. ~Waiting' /\ Pending /\ \A q : ~Current(q, call) /\ ~Current(q, call')
  BY <1>2 DEF Waiting, Current, Phase, Carried
<2>4. \A k \in 1 .. Len(inbox') :
          inbox'[k].kind = "command" => After(asked, inbox'[k].req) = asked
  BY <2>1, <2>2, <2>3 DEF Pending
<2>5. Pending'
  BY <2>3, <2>4 DEF Pending
<2> QED
  BY <1>2, <2>3, <2>5 DEF Phase, Numbered
<1> QED
  BY <1>1, <1>2

(* What is behind the head stays in order. *)
LEMMA TakenNumbered ==
    ASSUME HoldInv, Numbered, NEW kind, NextPacket(kind), UNCHANGED call
    PROVE  Numbered'
<1> SUFFICES ASSUME NEW k \in 1 .. Len(inbox'), Current(inbox'[k], call)
             PROVE  /\ inbox'[k].req = call.req
                    /\ \A j \in k .. Len(inbox') : Current(inbox'[j], call)
  BY DEF Numbered
<1>1. k + 1 \in 1 .. Len(inbox) /\ inbox'[k] = inbox[k + 1]
      /\ Len(inbox) \in Nat /\ Len(inbox') = Len(inbox) - 1
  BY Taken
<1>2. /\ inbox[k + 1].req = call.req
      /\ \A j \in k + 1 .. Len(inbox) : Current(inbox[j], call)
  BY <1>1 DEF Numbered
<1>3. ASSUME NEW j \in k .. Len(inbox') PROVE Current(inbox'[j], call)
<2>1. j \in 1 .. Len(inbox') /\ j + 1 \in k + 1 .. Len(inbox)
  BY <1>1
<2>2. inbox'[j] = inbox[j + 1]
  BY <2>1, Taken
<2> QED
  BY <1>2, <2>1, <2>2
<1> QED
  BY <1>1, <1>2, <1>3

(* A trigger is not behind the current command, so that the node agrees    *)
(* with what the host has configured when it takes the trigger.            *)
LEMMA TriggerInPhase ==
    ASSUME HoldInv, Phase, TriggerIn
    PROVE  Phase' /\ Pending
<1>1. /\ NextPacket("trigger")
      /\ UNCHANGED <<mask, sw, conf, work, call, asked, answered>>
  BY DEF TriggerIn, hostVars
<1>2. inbox[1].kind = "trigger" /\ 1 \in 1 .. Len(inbox)
  BY <1>1, Taken
<1>3. Pending
<2>1. ~Current(inbox[1], call)
  BY <1>2 DEF Current
<2> QED
  BY <1>2, <2>1 DEF Phase, Carried
<1>4. Numbered'
  BY <1>1, TakenNumbered DEF Phase
<1>5. \A k \in 1 .. Len(inbox') :
          inbox'[k].kind = "command" /\ ~Current(inbox'[k], call) =>
              After(asked, inbox'[k].req) = asked
<2>1. \A k \in 1 .. Len(inbox') :
          k + 1 \in 1 .. Len(inbox) /\ inbox'[k] = inbox[k + 1]
  BY <1>1, Taken
<2> QED
  BY <1>3, <2>1 DEF Pending
<1>6. Pending'
  BY <1>1, <1>3, <1>5 DEF Pending, Waiting, Updating
<1> QED
  BY <1>1, <1>3, <1>4, <1>6 DEF Phase, Waiting

(* The answer to a command, or the register writes it begins, carry its    *)
(* number.                                                                 *)
LEMMA CommandTagged ==
    ASSUME \/ ChangeIds \/ SetType \/ InputSel \/ OutputHold
           \/ OutputClear \/ OutputRead \/ Initialize
    PROVE  /\ ~Updating
           /\ \/ Answer(Head(inbox).no) /\ work' = work
              \/ answered' = answered /\ work'.no = Head(inbox).no
<1>1. ~Updating
  BY DEF ChangeIds, SetType, InputSel, OutputHold, OutputClear, OutputRead,
         Initialize, Receive, NextPacket
<1>2. CASE ChangeIds
  BY <1>1, <1>2 DEF ChangeIds, UpdateControl
<1>3. CASE Initialize
  BY <1>1, <1>3 DEF Initialize
<1>4. CASE SetType \/ InputSel \/ OutputHold \/ OutputClear \/ OutputRead
  BY <1>1, <1>4 DEF SetType, InputSel, OutputHold, OutputClear, OutputRead
<1> QED
  BY <1>2, <1>3, <1>4

LEMMA CommandPhase ==
    ASSUME Readable, HoldInv, TypeInv, Phase,
           \/ ChangeIds \/ SetType \/ InputSel \/ OutputHold
           \/ OutputClear \/ OutputRead \/ Initialize
    PROVE  Phase'
<1> DEFINE p == Head(inbox)
<1>1. PICK ops : Receive(ops)
  BY DEF ChangeIds, SetType, InputSel, OutputHold, OutputClear, OutputRead,
         Initialize
<1>2. /\ NextPacket("command") /\ UNCHANGED <<call, asked>>
      /\ p.req \in Requests
  BY <1>1, HeadTypes
<1>3. /\ p = inbox[1] /\ p.kind = "command" /\ 1 \in 1 .. Len(inbox)
      /\ Len(inbox) \in Nat
      /\ \A k \in 1 .. Len(inbox') :
            k + 1 \in 1 .. Len(inbox) /\ inbox'[k] = inbox[k + 1]
  BY <1>2, Taken
<1>4. /\ ~Updating
      /\ \/ Answer(p.no) /\ work' = work
         \/ answered' = answered /\ work'.no = p.no
  BY CommandTagged
<1>5. asked \in Views /\ (Waiting' <=> Waiting) /\ answered \in BOOLEAN
  BY <1>2 DEF TypeInv, Plain, Waiting
<1>6. \A a \in Views : Agree(mask, sw, conf, a) =>
          Agree(mask', sw', conf', After(a, p.req))
  BY CommandDoes
<1> HIDE DEF p
<1>7. Numbered'
  BY <1>2, TakenNumbered DEF Phase
<1>8. ~Waiting' => ~answered'
  BY <1>4, <1>5 DEF Phase, Answer
<1>9. Pending' \/ Carried'
<2>1. CASE Current(p, call)
<3>1. /\ Waiting /\ p.req = call.req /\ call.req \in Requests
      /\ \A k \in 1 .. Len(inbox) : Current(inbox[k], call)
  BY <1>2, <1>3, <2>1 DEF Phase, Numbered, Current, Waiting
<3>2. Agree(mask', sw', conf', After(asked, call.req))
<4>1. CASE Pending
  BY <1>5, <1>6, <3>1, <4>1 DEF Pending
<4>2. CASE Carried
<5>1. /\ After(asked, call.req) \in Views
      /\ After(After(asked, call.req), call.req) = After(asked, call.req)
  BY <1>5, <3>1, AfterTwice
<5>2. Agree(mask, sw, conf, After(asked, call.req))
  BY <4>2 DEF Carried
<5> QED
  BY <1>6, <3>1, <5>1, <5>2
<4> QED
  BY <4>1, <4>2 DEF Phase
<3>3. \A k \in 1 .. Len(inbox') : Current(inbox'[k], call)
  BY <1>3, <3>1
<3> QED
  BY <1>2, <1>5, <3>1, <3>2, <3>3 DEF Carried
<2>2. CASE ~Current(p, call)
<3>1. Pending
  BY <1>3, <2>2 DEF Phase, Carried
<3>2. After(asked, p.req) = asked
  BY <1>3, <2>2, <3>1 DEF Pending
<3>3. Agree(mask', sw', conf', asked)
  BY <1>5, <1>6, <3>1, <3>2 DEF Pending
<3>4. Waiting => p.no # call.no
  BY <1>3, <2>2 DEF Current, Waiting
<3>5. Waiting => ~answered' /\ (Updating' => work'.no # call.no)
<4> SUFFICES ASSUME Waiting
             PROVE  ~answered' /\ (Updating' => work'.no # call.no)
  OBVIOUS
<4>1. ~answered /\ p.no # call.no
  BY <3>1, <3>4 DEF Pending
<4>2. CASE Answer(p.no) /\ work' = work
  BY <1>4, <4>1, <4>2 DEF Answer, Updating
<4>3. CASE answered' = answered /\ work'.no = p.no
  BY <4>1, <4>3
<4> QED
  BY <1>4, <4>2, <4>3
<3>6. \A k \in 1 .. Len(inbox') :
          inbox'[k].kind = "command" /\ ~Current(inbox'[k], call) =>
              After(asked, inbox'[k].req) = asked
  BY <1>3, <3>1 DEF Pending
<3> QED
  BY <1>2, <1>5, <3>3, <3>5, <3>6 DEF Pending
<2> QED
  BY <2>1, <2>2
<1> QED
  BY <1>2, <1>5, <1>7, <1>8, <1>9 DEF Phase

LEMMA RegisterWritePhase ==
    ASSUME Phase, RegisterWrite
    PROVE  Phase'
<1>1. UNCHANGED <<mask, sw, conf, call, asked, inbox>>
  BY DEF RegisterWrite, ClearTemplate, WriteTemplate, ClearOps, WriteOps,
         EnableAll, Gate, StepTo, hostVars
<1>2. Updating /\ (Waiting' <=> Waiting)
  BY <1>1 DEF RegisterWrite, ClearTemplate, WriteTemplate, ClearOps, WriteOps,
         EnableAll, Gate, StepTo, Updating, Waiting
<1>3. \/ answered' = answered /\ (Updating' => work'.no = work.no)
      \/ Answer(work.no) /\ work' = Idle
<2>1. CASE Gate
  BY <2>1 DEF Gate
<2>2. CASE \E from, to : StepTo(from, to)
<3>1. PICK from, to : StepTo(from, to)
  BY <2>2
<3>2. answered' = answered /\ work' = [work EXCEPT !.step = to]
  BY <3>1 DEF StepTo
<3> QED
  BY <3>2
<2> QED
  BY <2>1, <2>2 DEF RegisterWrite, ClearTemplate, WriteTemplate, ClearOps,
                    WriteOps, EnableAll
<1>4. ~Waiting' => ~answered'
  BY <1>2, <1>3 DEF Phase, Answer
<1>5. Pending => Pending'
<2> SUFFICES ASSUME Pending PROVE Pending'
  OBVIOUS
<2>1. Waiting => ~answered /\ work.no # call.no
  BY <1>2 DEF Pending
<2>2. Waiting => ~answered' /\ (Updating' => work'.no # call.no)
<3>1. CASE answered' = answered /\ (Updating' => work'.no = work.no)
  BY <2>1, <3>1
<3>2. CASE Answer(work.no) /\ work' = Idle
<4>1. ~Updating'
  BY <3>2 DEF Updating, Idle
<4>2. Waiting => ~answered'
  BY <2>1, <3>2 DEF Answer
<4> QED
  BY <4>1, <4>2
<3> QED
  BY <1>3, <3>1, <3>2
<2> QED
  BY <1>1, <1>2, <2>2 DEF Pending
<1>6. Carried => Carried'
  BY <1>1, <1>2 DEF Carried
<1> QED
  BY <1>1, <1>2, <1>4, <1>5, <1>6 DEF Phase, Numbered

-----------------------------------------------------------------------------
(* The detector and the gate. *)

LEMMA GatesKept ==
    ASSUME Gates, UNCHANGED <<mask, sw, ethEnabled, detector, work>>
    PROVE  Gates'
  BY DEF Gates, Template

LEMMA CommandGates ==
    ASSUME HoldInv, TypeInv, Gates, Phase,
           \/ ChangeIds \/ SetType \/ InputSel \/ OutputHold
           \/ OutputClear \/ OutputRead \/ Initialize
    PROVE  Gates'
<1>1. CASE ChangeIds
<2>1. /\ work' = [step |-> "template", ids |-> IF sw THEN {} ELSE mask',
                  no |-> Head(inbox).no]
      /\ sw' = sw
  BY <1>1 DEF ChangeIds, UpdateControl
<2>2. work'.step = "template" /\ work'.ids = Template'
  BY <2>1 DEF Template
<2> QED
  BY <2>2 DEF Gates
<1>2. CASE SetType
<2> DEFINE p == Head(inbox)
           req == p.req
<2>1. /\ Receive({"type"}) /\ sw' = req.sw
      /\ UNCHANGED <<mask, ethEnabled, detector, work>>
  BY <1>2 DEF SetType
<2>2. /\ NextPacket("command") /\ req \in Requests /\ req.op = "type"
  BY <2>1, HeadTypes
<2>3. /\ p = inbox[1] /\ p.kind = "command" /\ 1 \in 1 .. Len(inbox)
  BY <2>2, Taken
<2>4. work.step = "idle" /\ req.sw \in BOOLEAN /\ asked \in Views
  BY <2>2, RequestTypes DEF NextPacket, Updating, TypeInv, Plain
<2>5. \A a \in Views : After(a, req).sw = req.sw
  BY <2>2 DEF After, Views
<2> HIDE DEF p, req
<2>6. ~sw' => ~sw \/ mask = {}
<3> SUFFICES ASSUME ~req.sw PROVE ~sw \/ mask = {}
  BY <2>1
<3>1. CASE Current(p, call)
<4>1. Waiting /\ req = call.req
  BY <2>3, <3>1 DEF Phase, Numbered, Current, Waiting, req
<4>2. asked.ids = {}
  BY <2>2, <4>1 DEF Phase
<4>3. CASE Pending
  BY <4>2, <4>3 DEF Pending, Agree
<4>4. CASE Carried
<5>1. sw = After(asked, req).sw
  BY <4>1, <4>4 DEF Carried, Agree
<5> QED
  BY <2>4, <2>5, <5>1
<4> QED
  BY <4>3, <4>4 DEF Phase
<3>2. CASE ~Current(p, call)
<4>1. Pending
  BY <2>3, <3>2 DEF Phase, Carried
<4>2. After(asked, req) = asked /\ sw = asked.sw
  BY <2>3, <3>2, <4>1 DEF Pending, Agree, req
<4> QED
  BY <2>4, <2>5, <4>2
<3> QED
  BY <3>1, <3>2
<2>7. work'.step = "idle" /\ (ethEnabled' <=> mask' # {})
  BY <2>1, <2>4 DEF Gates
<2>8. ~sw' /\ mask' # {} => detector' = [ids |-> mask', blank |-> FALSE]
  BY <2>1, <2>4, <2>6 DEF Gates
<2> QED
  BY <2>7, <2>8 DEF Gates
<1>3. CASE InputSel \/ OutputHold \/ OutputClear \/ OutputRead
  BY <1>3, GatesKept DEF InputSel, OutputHold, OutputClear, OutputRead
<1>4. CASE Initialize
<2>1. mask' = {} /\ work'.step = "enableAll"
  BY <1>4 DEF Initialize
<2> QED
  BY <2>1 DEF Gates
<1> QED
  BY <1>1, <1>2, <1>3, <1>4

LEMMA RegisterWriteGates ==
    ASSUME TypeInv, Gates, RegisterWrite
    PROVE  Gates'
<1>1. /\ work \in [step : Steps, ids : SUBSET Ids, no : 0 .. MaxCalls]
      /\ detector \in [ids : SUBSET Ids, blank : BOOLEAN]
  BY DEF TypeInv, Plain
<1>2. ASSUME NEW from, NEW to, StepTo(from, to)
      PROVE  /\ work.step = from /\ work'.step = to /\ work'.ids = work.ids
             /\ UNCHANGED <<mask, sw>> /\ Template' = Template
  BY <1>1, <1>2 DEF StepTo, Template
<1>3. CASE ClearTemplate
<2>1. work'.step = "newTemplate" /\ work'.ids = Template'
  BY <1>2, <1>3 DEF ClearTemplate, Gates
<2> QED
  BY <2>1 DEF Gates
<1>4. CASE WriteTemplate
<2>1. work'.step = "ops" /\ detector' = [detector EXCEPT !.ids = work.ids]
      /\ work.ids = Template'
  BY <1>2, <1>4 DEF WriteTemplate, Gates
<2>2. detector'.ids = Template'
  BY <1>1, <2>1
<2> QED
  BY <2>1, <2>2 DEF Gates
<1>5. CASE ClearOps
<2>1. work'.step = "newOps" /\ detector' = [detector EXCEPT !.blank = TRUE]
      /\ detector.ids = Template'
  BY <1>2, <1>5 DEF ClearOps, Gates
<2>2. detector'.ids = Template'
  BY <1>1, <2>1
<2> QED
  BY <2>1, <2>2 DEF Gates
<1>6. CASE WriteOps
<2>1. work'.step = "gate" /\ detector' = [detector EXCEPT !.blank = FALSE]
      /\ detector.ids = Template'
  BY <1>2, <1>6 DEF WriteOps, Gates
<2>2. detector'.ids = Template' /\ ~detector'.blank
  BY <1>1, <2>1
<2> QED
  BY <2>1, <2>2 DEF Gates
<1>7. CASE EnableAll
<2>1. work'.step = "disableEth" /\ mask' = {}
  BY <1>2, <1>7 DEF EnableAll, Gates
<2> QED
  BY <2>1 DEF Gates
<1>8. CASE Gate
<2>1. /\ work.step \in {"gate", "disableEth"} /\ work'.step = "idle"
      /\ ethEnabled' = (mask # {}) /\ UNCHANGED <<mask, sw, detector>>
  BY <1>8 DEF Gate, Idle
<2>2. CASE work.step = "gate"
<3>1. ~detector.blank /\ detector.ids = Template
  BY <2>2 DEF Gates
<3>2. detector = [ids |-> Template, blank |-> FALSE]
  BY <1>1, <3>1
<3> QED
  BY <2>1, <3>2 DEF Gates, Template
<2>3. CASE work.step = "disableEth"
<3>1. mask = {}
  BY <2>3 DEF Gates
<3> QED
  BY <2>1, <3>1 DEF Gates
<2> QED
  BY <2>1, <2>2, <2>3
<1> QED
  BY <1>3, <1>4, <1>5, <1>6, <1>7, <1>8 DEF RegisterWrite

-----------------------------------------------------------------------------
(* Frames. *)

(* What becomes of a frame that comes in. *)
LEMMA ArriveFrames ==
    ASSUME HoldInv, NEW ids \in SUBSET Ids, Arrive(ids)
    PROVE  \E hit \in BOOLEAN, match \in Matches(ids) :
              /\ hit <=> match /\ ethEnabled /\ ~sw
              /\ Len(frames) \in Nat /\ Len(frames') = Len(frames) + 1
              /\ \A g \in 1 .. Len(frames) :
                    /\ frames'[g].ids = frames[g].ids
                    /\ frames'[g].due = frames[g].due
                    /\ \A o \in Outputs :
                          frames'[g].fired[o] = frames[g].fired[o]
              /\ frames'[Len(frames) + 1].ids = ids
              /\ \A o \in Outputs :
                    /\ frames'[Len(frames) + 1].due[o] = Due(ids, o)
                    /\ frames'[Len(frames) + 1].fired[o] =
                           IF hit /\ o \in Driven THEN 1 ELSE 0
<1> DEFINE new == [ids |-> ids, due |-> [o \in Outputs |-> Due(ids, o)],
                   fired |-> [o \in Outputs |-> 0]]
           fs  == Append(frames, new)
           n   == Len(frames) + 1
<1>1. new \in Frames
<2>1. \A o \in Outputs : Due(ids, o) \in Effects
  BY DEF Due, Effects
<2> QED
  BY <2>1 DEF Frames
<1>2. frames \in Seq(Frames) /\ Len(frames) \in Nat
  BY DEF HoldInv, Typed
<1>3. PICK match \in Matches(ids) :
          IF match /\ ethEnabled /\ ~sw THEN Pulse(fs, Len(fs)) ELSE NoPulse(fs)
  BY DEF Arrive
<1>4. /\ new.ids = ids
      /\ \A o \in Outputs : new.due[o] = Due(ids, o) /\ new.fired[o] = 0
  OBVIOUS
<1> HIDE DEF new
<1>5. /\ fs \in Seq(Frames) /\ Len(fs) = n /\ n \in 1 .. Len(fs) /\ fs[n] = new
      /\ \A g \in 1 .. Len(frames) : g \in 1 .. n /\ g # n /\ fs[g] = frames[g]
  BY <1>1, <1>2
<1> HIDE DEF fs
<1> DEFINE hit == match /\ ethEnabled /\ ~sw
<1>6. hit \in BOOLEAN /\ (IF hit THEN Pulse(fs, n) ELSE NoPulse(fs))
      /\ (hit <=> match /\ ethEnabled /\ ~sw)
  BY <1>3, <1>5
<1> HIDE DEF hit, n
<1>7. /\ Len(frames') = n
      /\ \A g \in 1 .. n :
            /\ frames'[g].ids = fs[g].ids /\ frames'[g].due = fs[g].due
            /\ \A o \in Outputs :
                  frames'[g].fired[o] =
                      IF hit /\ g = n /\ o \in Driven
                      THEN fs[g].fired[o] + 1 ELSE fs[g].fired[o]
  BY <1>5, <1>6, Marks
<1>8. \A g \in 1 .. Len(frames) :
         /\ frames'[g].ids = frames[g].ids
         /\ frames'[g].due = frames[g].due
         /\ \A o \in Outputs : frames'[g].fired[o] = frames[g].fired[o]
  BY <1>5, <1>7
<1>9. /\ frames'[n].ids = ids
      /\ \A o \in Outputs :
            /\ frames'[n].due[o] = Due(ids, o)
            /\ frames'[n].fired[o] = IF hit /\ o \in Driven THEN 1 ELSE 0
  BY <1>4, <1>5, <1>7
<1> QED
  BY <1>2, <1>3, <1>6, <1>7, <1>8, <1>9 DEF n

(* A frame that comes in does what is expected of it, or waits for the     *)
(* main loop. *)
LEMMA NewFrame ==
    ASSUME Readable, TypeInv, Gates, NEW ids \in SUBSET Ids,
           Agree(mask, sw, conf, asked) \/ ids = {},
           NEW hit \in BOOLEAN, NEW match \in Matches(ids),
           hit <=> match /\ ethEnabled /\ ~sw,
           NEW o \in Outputs, NEW fired,
           fired = IF hit /\ o \in Driven THEN 1 ELSE 0
    PROVE  /\ Due(ids, o) = "quiet" => fired = 0
           /\ fired <= 1
           /\ Due(ids, o) = "fire" => ids # {} /\ (fired = 1 \/ sw)
           /\ sw => /\ fired = 0
                    /\ Due(ids, o) = IF Wants(asked, ids, o)
                                     THEN "fire" ELSE "quiet"
<1>1. Due(ids, o) = IF Updating /\ ~sw THEN "any"
                    ELSE IF Wants(asked, ids, o) THEN "fire" ELSE "quiet"
  BY DEF Due, Wants, Connected
<1>2. asked \in Views
  BY DEF TypeInv, Plain
<1>3. fired <= 1
  OBVIOUS
<1>4. sw => /\ fired = 0
            /\ Due(ids, o) = IF Wants(asked, ids, o) THEN "fire" ELSE "quiet"
  BY <1>1
<1>5. Due(ids, o) = "fire" => ids # {}
  BY <1>1 DEF Wants
<1>6. ASSUME ~sw, ~Updating
      PROVE  fired = 1 <=> Wants(asked, ids, o)
<2>1. work.step = "idle" /\ (ethEnabled <=> mask # {})
  BY <1>6 DEF Gates, Updating
<2>2. hit <=> ids \cap mask # {}
<3>1. CASE mask = {}
  BY <2>1, <3>1
<3>2. CASE mask # {}
<4>1. detector = [ids |-> mask, blank |-> FALSE]
  BY <1>6, <2>1, <3>2 DEF Gates
<4>2. Matches(ids) = {ids \cap mask # {}}
  BY <4>1 DEF Matches
<4> QED
  BY <1>6, <2>1, <3>2, <4>2
<3> QED
  BY <3>1, <3>2
<2>3. CASE ids = {}
  BY <2>2, <2>3 DEF Wants
<2>4. CASE Agree(mask, sw, conf, asked)
<3>1. mask = asked.ids
  BY <2>4 DEF Agree
<3>2. o \in Driven <=> Connected(asked, o)
  BY <1>2, <2>4, DrivenOutputs
<3> QED
  BY <2>2, <3>1, <3>2 DEF Wants
<2> QED
  BY <2>3, <2>4
<1>7. /\ Due(ids, o) = "quiet" => fired = 0
      /\ Due(ids, o) = "fire" => fired = 1 \/ sw
<2>1. CASE sw
  BY <1>4, <2>1
<2>2. CASE ~sw /\ Updating
  BY <1>1, <2>2
<2>3. CASE ~sw /\ ~Updating
  BY <1>1, <1>6, <2>3
<2> QED
  BY <2>1, <2>2, <2>3
<1> QED
  BY <1>3, <1>4, <1>5, <1>7

LEMMA OtherFrameView ==
    ASSUME Readable, HoldInv, TypeInv, ViewInv, OtherFrame
    PROVE  ViewInv'
<1>1. Arrive({}) /\ inbox' = inbox /\ {} \in SUBSET Ids
  BY DEF OtherFrame
<1>2. UNCHANGED <<mask, sw, ethEnabled, detector, conf, work, call, asked,
                  answered>>
  BY <1>1 DEF Arrive, hostVars
<1>3. Gates'
  BY <1>2, GatesKept DEF ViewInv
<1>4. Phase'
  BY <1>1, <1>2, ArrivePhase DEF ViewInv
<1> DEFINE n == Len(frames) + 1
<1>5. PICK hit \in BOOLEAN, match \in Matches({}) :
          /\ hit <=> match /\ ethEnabled /\ ~sw
          /\ Len(frames) \in Nat /\ Len(frames') = n
          /\ \A g \in 1 .. Len(frames) :
                /\ frames'[g].ids = frames[g].ids
                /\ frames'[g].due = frames[g].due
                /\ \A o \in Outputs : frames'[g].fired[o] = frames[g].fired[o]
          /\ frames'[n].ids = {}
          /\ \A o \in Outputs :
                /\ frames'[n].due[o] = Due({}, o)
                /\ frames'[n].fired[o] = IF hit /\ o \in Driven THEN 1 ELSE 0
  BY <1>1, ArriveFrames
<1>6. InQueue'
  BY <1>1, <1>2, <1>5 DEF InQueue, ViewInv
<1>7. Served'
<2> SUFFICES ASSUME NEW f \in 1 .. Len(frames'), NEW o \in Outputs
             PROVE  /\ frames'[f].due[o] = "quiet" => frames'[f].fired[o] = 0
                    /\ frames'[f].fired[o] <= 1
                    /\ frames'[f].due[o] = "fire" =>
                           frames'[f].fired[o] = 1 \/ (asked.sw /\ Queued(f))
  BY <1>1, <1>2 DEF Served, Queued
<2>1. CASE f \in 1 .. Len(frames)
  BY <1>5, <2>1 DEF ViewInv, Served
<2>2. CASE f = n
<3>1. /\ Due({}, o) = "quiet" => frames'[n].fired[o] = 0
      /\ frames'[n].fired[o] <= 1 /\ Due({}, o) # "fire"
  BY <1>1, <1>5, NewFrame DEF ViewInv
<3> QED
  BY <1>5, <2>2, <3>1
<2> QED
  BY <1>5, <2>1, <2>2
<1> QED
  BY <1>3, <1>4, <1>6, <1>7 DEF ViewInv

LEMMA TriggerView ==
    ASSUME Readable, HoldInv, TypeInv, ViewInv,
           NEW ids \in SUBSET Ids, Trigger(ids)
    PROVE  ViewInv'
<1> DEFINE n == Len(frames) + 1
           p == [kind |-> "trigger", frame |-> n]
<1>1. Arrive(ids) /\ inbox' = Append(inbox, p) /\ ~Waiting
  BY DEF Trigger
<1>2. UNCHANGED <<mask, sw, ethEnabled, detector, conf, work, call, asked,
                  answered>>
  BY <1>1 DEF Arrive, hostVars
<1>3. Gates'
  BY <1>2, GatesKept DEF ViewInv
<1>4. Phase'
  BY <1>1, <1>2, ArrivePhase DEF ViewInv
<1>5. Agree(mask, sw, conf, asked)
  BY <1>1 DEF ViewInv, Phase, Pending, Carried
<1>6. sw = asked.sw
  BY <1>5 DEF Agree
<1>7. PICK hit \in BOOLEAN, match \in Matches(ids) :
          /\ hit <=> match /\ ethEnabled /\ ~sw
          /\ Len(frames) \in Nat /\ Len(frames') = n
          /\ \A g \in 1 .. Len(frames) :
                /\ frames'[g].ids = frames[g].ids
                /\ frames'[g].due = frames[g].due
                /\ \A o \in Outputs : frames'[g].fired[o] = frames[g].fired[o]
          /\ frames'[n].ids = ids
          /\ \A o \in Outputs :
                /\ frames'[n].due[o] = Due(ids, o)
                /\ frames'[n].fired[o] = IF hit /\ o \in Driven THEN 1 ELSE 0
  BY <1>1, ArriveFrames
<1>8. ASSUME NEW o \in Outputs
      PROVE  /\ frames'[n].due[o] = "quiet" => frames'[n].fired[o] = 0
             /\ frames'[n].fired[o] <= 1
             /\ frames'[n].due[o] = "fire" => frames'[n].fired[o] = 1 \/ sw
             /\ sw => /\ frames'[n].fired[o] = 0
                      /\ frames'[n].due[o] = IF Wants(asked, ids, o)
                                             THEN "fire" ELSE "quiet"
  BY <1>5, <1>7, NewFrame DEF ViewInv
<1>9. p \in InboxPackets /\ p.kind = "trigger" /\ p.frame = n
  BY <1>7 DEF InboxPackets
<1>10. n \in Nat /\ n \in 1 .. n /\ \A g \in 1 .. Len(frames) : g \in 1 .. n /\ g # n
  BY <1>7
<1>11. \A g \in 1 .. n : g \in 1 .. Len(frames) \/ g = n
  BY <1>7
<1> HIDE DEF p, n
<1>12. /\ Len(inbox) \in Nat /\ Len(inbox') = Len(inbox) + 1
       /\ inbox'[Len(inbox) + 1] = p
       /\ \A k \in 1 .. Len(inbox) : inbox'[k] = inbox[k]
       /\ \A k \in 1 .. Len(inbox') : k \in 1 .. Len(inbox) \/ k = Len(inbox) + 1
<2>1. inbox \in Seq(InboxPackets)
  BY DEF HoldInv, Typed
<2> QED
  BY <1>1, <1>9, <2>1, Grown
<1>13. InQueue'
<2> SUFFICES ASSUME NEW k \in 1 .. Len(inbox'), inbox'[k].kind = "trigger"
             PROVE  /\ inbox'[k].frame \in 1 .. Len(frames')
                    /\ \A j \in 1 .. Len(inbox') :
                           j # k /\ inbox'[j].kind = "trigger" =>
                               inbox'[j].frame # inbox'[k].frame
                    /\ asked.sw =>
                          \A o \in Outputs :
                             /\ frames'[inbox'[k].frame].fired[o] = 0
                             /\ frames'[inbox'[k].frame].due[o] =
                                    IF Wants(asked, frames'[inbox'[k].frame].ids, o)
                                    THEN "fire" ELSE "quiet"
  BY <1>2 DEF InQueue
<2>1. CASE k \in 1 .. Len(inbox)
<3> DEFINE f == inbox[k].frame
<3>1. /\ inbox'[k] = inbox[k] /\ f \in 1 .. Len(frames)
      /\ \A j \in 1 .. Len(inbox) :
             j # k /\ inbox[j].kind = "trigger" => inbox[j].frame # f
      /\ asked.sw =>
            \A o \in Outputs :
               /\ frames[f].fired[o] = 0
               /\ frames[f].due[o] = IF Wants(asked, frames[f].ids, o)
                                     THEN "fire" ELSE "quiet"
  BY <1>12, <2>1 DEF ViewInv, InQueue
<3> HIDE DEF f
<3>2. \A j \in 1 .. Len(inbox') :
          j # k /\ inbox'[j].kind = "trigger" => inbox'[j].frame # f
  BY <1>9, <1>10, <1>12, <3>1
<3>3. inbox'[k].frame = f
  BY <3>1 DEF f
<3> QED
  BY <1>7, <1>10, <3>1, <3>2, <3>3
<2>2. CASE k = Len(inbox) + 1
<3>1. inbox'[k].frame = n /\ n \in 1 .. n
  BY <1>9, <1>10, <1>12, <2>2
<3>2. \A j \in 1 .. Len(inbox') :
          j # k /\ inbox'[j].kind = "trigger" => inbox'[j].frame # n
<4> SUFFICES ASSUME NEW j \in 1 .. Len(inbox'), j # k, inbox'[j].kind = "trigger"
             PROVE  inbox'[j].frame # n
  OBVIOUS
<4>1. j \in 1 .. Len(inbox) /\ inbox'[j] = inbox[j]
  BY <1>12, <2>2
<4>2. inbox[j].frame \in 1 .. Len(frames)
  BY <4>1 DEF ViewInv, InQueue
<4> QED
  BY <1>10, <4>1, <4>2
<3> QED
  BY <1>6, <1>7, <1>8, <3>1, <3>2
<2> QED
  BY <1>12, <2>1, <2>2
<1>14. Served'
<2> SUFFICES ASSUME NEW f \in 1 .. Len(frames'), NEW o \in Outputs
             PROVE  /\ frames'[f].due[o] = "quiet" => frames'[f].fired[o] = 0
                    /\ frames'[f].fired[o] <= 1
                    /\ frames'[f].due[o] = "fire" =>
                           frames'[f].fired[o] = 1 \/ (asked.sw /\ Queued(f)')
  BY <1>2 DEF Served, Queued
<2>1. CASE f \in 1 .. Len(frames)
<3>1. Queued(f) => Queued(f)'
<4>1. inbox \in Seq(InboxPackets) /\ inbox' \in Seq(InboxPackets)
  BY <1>1, <1>9, Added DEF HoldInv, Typed
<4>2. DOMAIN inbox = 1 .. Len(inbox) /\ DOMAIN inbox' = 1 .. Len(inbox')
  BY <4>1
<4>3. \A k \in 1 .. Len(inbox) : k \in 1 .. Len(inbox')
  BY <1>12
<4> QED
  BY <1>12, <4>2, <4>3 DEF Queued
<3>2. /\ frames[f].due[o] = "quiet" => frames[f].fired[o] = 0
      /\ frames[f].fired[o] <= 1
      /\ frames[f].due[o] = "fire" =>
             frames[f].fired[o] = 1 \/ (asked.sw /\ Queued(f))
  BY <2>1 DEF ViewInv, Served
<3> QED
  BY <1>7, <2>1, <3>1, <3>2
<2>2. CASE f = n
<3>1. Queued(f)'
<4>1. inbox' \in Seq(InboxPackets)
  BY <1>1, <1>9, Added DEF HoldInv, Typed
<4>2. Len(inbox) + 1 \in DOMAIN inbox'
  BY <1>12, <4>1
<4> QED
  BY <1>9, <1>12, <2>2, <4>2 DEF Queued
<3> QED
  BY <1>6, <1>8, <2>2, <3>1
<2> QED
  BY <1>7, <1>11, <2>1, <2>2
<1> QED
  BY <1>3, <1>4, <1>13, <1>14 DEF ViewInv

LEMMA TriggerInView ==
    ASSUME Readable, HoldInv, TypeInv, ViewInv, TriggerIn
    PROVE  ViewInv'
<1> DEFINE h == Head(inbox).frame
           hit == frames[h].ids \cap mask # {} /\ sw /\ ethEnabled
<1>1. /\ NextPacket("trigger")
      /\ UNCHANGED <<mask, sw, ethEnabled, detector, conf, work, asked>>
      /\ IF hit THEN Pulse(frames, h) ELSE NoPulse(frames)
  BY DEF TriggerIn, hostVars
<1>2. Gates' /\ Phase' /\ Pending
  BY <1>1, GatesKept, TriggerInPhase DEF ViewInv
<1>3. Agree(mask, sw, conf, asked) /\ asked \in Views
  BY <1>2 DEF Pending, TypeInv, Plain
<1>4. /\ sw = asked.sw /\ mask = asked.ids
      /\ \A o \in Outputs : o \in Driven <=> Connected(asked, o)
  BY <1>3, DrivenOutputs DEF Agree
<1>5. ethEnabled <=> mask # {}
  BY <1>1 DEF NextPacket, Updating, ViewInv, Gates
<1>6. /\ Len(inbox) \in Nat \ {0} /\ 1 \in 1 .. Len(inbox)
      /\ h = inbox[1].frame /\ inbox[1].kind = "trigger"
      /\ \A k \in 1 .. Len(inbox') :
            /\ k + 1 \in 1 .. Len(inbox) /\ inbox'[k] = inbox[k + 1]
            /\ k + 1 # 1
      /\ \A k \in 1 .. Len(inbox) :
            k # 1 => k - 1 \in 1 .. Len(inbox') /\ inbox'[k - 1] = inbox[k]
<2>1. \A k \in 1 .. Len(inbox') : k + 1 # 1
  OBVIOUS
<2> QED
  BY <1>1, <2>1, Taken
<1>7. hit \in BOOLEAN /\ (hit <=> sw /\ asked.ids \cap frames[h].ids # {})
  BY <1>4, <1>5
<1> HIDE DEF h, hit
<1>8. h \in 1 .. Len(frames) /\ frames \in Seq(Frames)
  BY <1>6 DEF ViewInv, InQueue, HoldInv, Typed
<1>9. /\ Len(frames') = Len(frames)
      /\ \A g \in 1 .. Len(frames) :
            /\ frames'[g].ids = frames[g].ids /\ frames'[g].due = frames[g].due
            /\ \A o \in Outputs :
                  frames'[g].fired[o] =
                      IF hit /\ g = h /\ o \in Driven
                      THEN frames[g].fired[o] + 1 ELSE frames[g].fired[o]
  BY <1>1, <1>7, <1>8, Marks
<1>10. InQueue'
<2> SUFFICES ASSUME NEW k \in 1 .. Len(inbox'), inbox'[k].kind = "trigger"
             PROVE  /\ inbox'[k].frame \in 1 .. Len(frames')
                    /\ \A j \in 1 .. Len(inbox') :
                           j # k /\ inbox'[j].kind = "trigger" =>
                               inbox'[j].frame # inbox'[k].frame
                    /\ asked.sw =>
                          \A o \in Outputs :
                             /\ frames'[inbox'[k].frame].fired[o] = 0
                             /\ frames'[inbox'[k].frame].due[o] =
                                    IF Wants(asked, frames'[inbox'[k].frame].ids, o)
                                    THEN "fire" ELSE "quiet"
  BY <1>1 DEF InQueue
<2> DEFINE f == inbox[k + 1].frame
<2>1. /\ inbox'[k] = inbox[k + 1] /\ k + 1 \in 1 .. Len(inbox) /\ k + 1 # 1
  BY <1>6
<2>2. /\ f \in 1 .. Len(frames)
      /\ \A j \in 1 .. Len(inbox) :
             j # k + 1 /\ inbox[j].kind = "trigger" => inbox[j].frame # f
      /\ asked.sw =>
            \A o \in Outputs :
               /\ frames[f].fired[o] = 0
               /\ frames[f].due[o] = IF Wants(asked, frames[f].ids, o)
                                     THEN "fire" ELSE "quiet"
  BY <2>1 DEF ViewInv, InQueue
<2>3. f # h
  BY <1>6, <2>1, <2>2
<2>4. inbox'[k].frame = f
  BY <2>1
<2> HIDE DEF f
<2>5. ASSUME NEW j \in 1 .. Len(inbox'), j # k, inbox'[j].kind = "trigger"
      PROVE  inbox'[j].frame # f
<3>1. j + 1 \in 1 .. Len(inbox) /\ inbox'[j] = inbox[j + 1] /\ j + 1 # k + 1
  BY <1>6, <2>5
<3> QED
  BY <2>2, <2>5, <3>1
<2> QED
  BY <1>9, <2>2, <2>3, <2>4, <2>5
<1>11. Served'
<2> SUFFICES ASSUME NEW f \in 1 .. Len(frames'), NEW o \in Outputs
             PROVE  /\ frames'[f].due[o] = "quiet" => frames'[f].fired[o] = 0
                    /\ frames'[f].fired[o] <= 1
                    /\ frames'[f].due[o] = "fire" =>
                           frames'[f].fired[o] = 1 \/ (asked.sw /\ Queued(f)')
  BY <1>1 DEF Served, Queued
<2>1. /\ f \in 1 .. Len(frames)
      /\ frames[f].due[o] = "quiet" => frames[f].fired[o] = 0
      /\ frames[f].fired[o] <= 1
      /\ frames[f].due[o] = "fire" =>
             frames[f].fired[o] = 1 \/ (asked.sw /\ Queued(f))
  BY <1>9 DEF ViewInv, Served
<2>2. CASE f = h /\ asked.sw
<3>1. /\ frames[f].fired[o] = 0
      /\ frames[f].due[o] = IF Wants(asked, frames[f].ids, o)
                            THEN "fire" ELSE "quiet"
  BY <1>6, <2>2 DEF ViewInv, InQueue
<3>2. hit /\ o \in Driven <=> Wants(asked, frames[f].ids, o)
  BY <1>4, <1>7, <2>2 DEF Wants
<3>3. frames'[f].due = frames[f].due
      /\ frames'[f].fired[o] = IF hit /\ o \in Driven THEN 1 ELSE 0
  BY <1>9, <2>1, <2>2, <3>1
<3> QED
  BY <3>1, <3>2, <3>3
<2>3. CASE ~asked.sw
<3>1. ~hit
  BY <1>4, <1>7, <2>3
<3> QED
  BY <1>9, <2>1, <2>3, <3>1
<2>4. CASE f # h
<3>1. Queued(f) => Queued(f)'
<4>1. inbox \in Seq(InboxPackets) /\ inbox' \in Seq(InboxPackets)
  BY <1>1, TakesPacket DEF HoldInv, Typed
<4>2. DOMAIN inbox = 1 .. Len(inbox) /\ DOMAIN inbox' = 1 .. Len(inbox')
  BY <4>1
<4> QED
  BY <1>6, <2>4, <4>2 DEF Queued
<3> QED
  BY <1>9, <2>1, <2>4, <3>1
<2> QED
  BY <2>2, <2>3, <2>4
<1> QED
  BY <1>2, <1>10, <1>11 DEF ViewInv

(* Steps that leave the frames and their triggers in the queue alone. *)
LEMMA FramesKept ==
    ASSUME InQueue, Served, UNCHANGED <<frames, asked>>,
           DOMAIN inbox = 1 .. Len(inbox), DOMAIN inbox' = 1 .. Len(inbox'),
           \E old \in [1 .. Len(inbox') -> Int] :
              /\ \A k \in 1 .. Len(inbox') : inbox'[k].kind = "trigger" =>
                    old[k] \in 1 .. Len(inbox) /\ inbox'[k] = inbox[old[k]]
              /\ \A j, k \in 1 .. Len(inbox') : j # k => old[j] # old[k],
           \A k \in 1 .. Len(inbox) : inbox[k].kind = "trigger" =>
              \E j \in 1 .. Len(inbox') : inbox'[j] = inbox[k]
    PROVE  InQueue' /\ Served'
<1>1. PICK old \in [1 .. Len(inbox') -> Int] :
          /\ \A k \in 1 .. Len(inbox') : inbox'[k].kind = "trigger" =>
                old[k] \in 1 .. Len(inbox) /\ inbox'[k] = inbox[old[k]]
          /\ \A j, k \in 1 .. Len(inbox') : j # k => old[j] # old[k]
  OBVIOUS
<1>2. InQueue'
<2> SUFFICES ASSUME NEW k \in 1 .. Len(inbox'), inbox'[k].kind = "trigger"
             PROVE  /\ inbox'[k].frame \in 1 .. Len(frames)
                    /\ \A j \in 1 .. Len(inbox') :
                           j # k /\ inbox'[j].kind = "trigger" =>
                               inbox'[j].frame # inbox'[k].frame
                    /\ asked.sw =>
                          \A o \in Outputs :
                             /\ frames[inbox'[k].frame].fired[o] = 0
                             /\ frames[inbox'[k].frame].due[o] =
                                    IF Wants(asked, frames[inbox'[k].frame].ids, o)
                                    THEN "fire" ELSE "quiet"
  BY DEF InQueue
<2>1. old[k] \in 1 .. Len(inbox) /\ inbox'[k] = inbox[old[k]]
  BY <1>1
<2>2. ASSUME NEW j \in 1 .. Len(inbox'), j # k, inbox'[j].kind = "trigger"
      PROVE  inbox'[j].frame # inbox'[k].frame
<3>1. /\ old[j] \in 1 .. Len(inbox) /\ inbox'[j] = inbox[old[j]]
      /\ old[j] # old[k]
  BY <1>1, <2>2
<3>2. inbox[old[j]].kind = "trigger" /\ inbox[old[k]].kind = "trigger"
  BY <2>1, <2>2, <3>1
<3>3. inbox[old[j]].frame # inbox[old[k]].frame
  BY <2>1, <3>1, <3>2 DEF InQueue
<3> QED
  BY <2>1, <3>1, <3>3
<2> DEFINE p == inbox[old[k]]
<2>3. /\ p.frame \in 1 .. Len(frames)
      /\ asked.sw =>
            \A o \in Outputs :
               /\ frames[p.frame].fired[o] = 0
               /\ frames[p.frame].due[o] =
                      IF Wants(asked, frames[p.frame].ids, o)
                      THEN "fire" ELSE "quiet"
<3>1. old[k] \in 1 .. Len(inbox) /\ p.kind = "trigger"
  BY <2>1
<3> QED
  BY <3>1 DEF InQueue
<2>4. inbox'[k] = p
  BY <2>1
<2> HIDE DEF p
<2> QED
  BY <2>2, <2>3, <2>4
<1>3. \A f \in 1 .. Len(frames) : Queued(f) => Queued(f)'
<2> SUFFICES ASSUME NEW f \in 1 .. Len(frames), Queued(f) PROVE Queued(f)'
  OBVIOUS
<2>1. PICK k \in 1 .. Len(inbox) :
          inbox[k].kind = "trigger" /\ inbox[k].frame = f
  BY DEF Queued
<2>2. PICK j \in 1 .. Len(inbox') : inbox'[j] = inbox[k]
  BY <2>1
<2> QED
  BY <2>1, <2>2 DEF Queued
<1>4. Served'
<2> SUFFICES ASSUME NEW f \in 1 .. Len(frames), NEW o \in Outputs
             PROVE  /\ frames[f].due[o] = "quiet" => frames[f].fired[o] = 0
                    /\ frames[f].fired[o] <= 1
                    /\ frames[f].due[o] = "fire" =>
                           frames[f].fired[o] = 1 \/ (asked.sw /\ Queued(f)')
  BY DEF Served, Queued
<2> QED
  BY <1>3 DEF Served
<1> QED
  BY <1>2, <1>4

LEMMA CommandTaken ==
    ASSUME HoldInv, InQueue, Served, UNCHANGED <<frames, asked>>,
           NextPacket("command")
    PROVE  InQueue' /\ Served'
<1>1. /\ Len(inbox) \in Nat \ {0} /\ inbox[1].kind = "command"
      /\ \A k \in 1 .. Len(inbox') :
            k + 1 \in 1 .. Len(inbox) /\ inbox'[k] = inbox[k + 1]
      /\ \A k \in 1 .. Len(inbox) :
            k # 1 => k - 1 \in 1 .. Len(inbox') /\ inbox'[k - 1] = inbox[k]
  BY Taken
<1>2. inbox \in Seq(InboxPackets) /\ inbox' \in Seq(InboxPackets)
  BY TakesPacket DEF HoldInv, Typed
<1>3. DOMAIN inbox = 1 .. Len(inbox) /\ DOMAIN inbox' = 1 .. Len(inbox')
  BY <1>2
<1> DEFINE old == [k \in 1 .. Len(inbox') |-> k + 1]
<1>4. /\ old \in [1 .. Len(inbox') -> Int]
      /\ \A k \in 1 .. Len(inbox') :
            old[k] \in 1 .. Len(inbox) /\ inbox'[k] = inbox[old[k]]
      /\ \A j, k \in 1 .. Len(inbox') : j # k => old[j] # old[k]
  BY <1>1
<1>5. \A k \in 1 .. Len(inbox) : inbox[k].kind = "trigger" =>
          \E j \in 1 .. Len(inbox') : inbox'[j] = inbox[k]
  BY <1>1
<1> HIDE DEF old
<1>6. \E f \in [1 .. Len(inbox') -> Int] :
          /\ \A k \in 1 .. Len(inbox') : inbox'[k].kind = "trigger" =>
                f[k] \in 1 .. Len(inbox) /\ inbox'[k] = inbox[f[k]]
          /\ \A j, k \in 1 .. Len(inbox') : j # k => f[j] # f[k]
  BY <1>4
<1> QED
  BY <1>3, <1>5, <1>6, FramesKept

LEMMA CommandSent ==
    ASSUME HoldInv, InQueue, Served, UNCHANGED <<frames, asked>>,
           NEW req \in Requests, NEW no \in Nat, Deliver(Command(req, no))
    PROVE  InQueue' /\ Served'
<1> DEFINE p == Command(req, no)
<1>1. p \in InboxPackets /\ p.kind = "command"
  BY DEF Command, InboxPackets
<1>2. inbox \in Seq(InboxPackets) /\ inbox' \in {inbox, Append(inbox, p)}
  BY DEF HoldInv, Typed, Deliver
<1> HIDE DEF p
<1>3. /\ inbox' \in Seq(InboxPackets)
      /\ \A k \in 1 .. Len(inbox) :
            k \in 1 .. Len(inbox') /\ inbox'[k] = inbox[k]
      /\ \A k \in 1 .. Len(inbox') :
            inbox'[k] = p \/ (k \in 1 .. Len(inbox) /\ inbox'[k] = inbox[k])
<2>1. CASE inbox' = inbox
  BY <1>2, <2>1
<2>2. CASE inbox' = Append(inbox, p)
  BY <1>1, <1>2, <2>2, Added, Grown
<2> QED
  BY <1>2, <2>1, <2>2
<1>4. DOMAIN inbox = 1 .. Len(inbox) /\ DOMAIN inbox' = 1 .. Len(inbox')
  BY <1>2, <1>3
<1> DEFINE old == [k \in 1 .. Len(inbox') |-> k]
<1>5. /\ old \in [1 .. Len(inbox') -> Int]
      /\ \A k \in 1 .. Len(inbox') : inbox'[k].kind = "trigger" =>
            old[k] \in 1 .. Len(inbox) /\ inbox'[k] = inbox[old[k]]
      /\ \A j, k \in 1 .. Len(inbox') : j # k => old[j] # old[k]
  BY <1>1, <1>3
<1> HIDE DEF old
<1>6. \E f \in [1 .. Len(inbox') -> Int] :
          /\ \A k \in 1 .. Len(inbox') : inbox'[k].kind = "trigger" =>
                f[k] \in 1 .. Len(inbox) /\ inbox'[k] = inbox[f[k]]
          /\ \A j, k \in 1 .. Len(inbox') : j # k => f[j] # f[k]
  BY <1>5
<1>7. \A k \in 1 .. Len(inbox) : inbox[k].kind = "trigger" =>
          \E j \in 1 .. Len(inbox') : inbox'[j] = inbox[k]
  BY <1>3
<1> QED
  BY <1>4, <1>6, <1>7, FramesKept

LEMMA CommandView ==
    ASSUME Readable, HoldInv, TypeInv, ViewInv,
           \/ ChangeIds \/ SetType \/ InputSel \/ OutputHold
           \/ OutputClear \/ OutputRead \/ Initialize
    PROVE  ViewInv'
<1>1. PICK ops : Receive(ops)
  BY DEF ChangeIds, SetType, InputSel, OutputHold, OutputClear, OutputRead,
         Initialize
<1>2. NextPacket("command") /\ UNCHANGED <<frames, asked>>
  BY <1>1, HeadTypes
<1>3. Gates' /\ Phase'
  BY CommandGates, CommandPhase DEF ViewInv
<1>4. InQueue' /\ Served'
  BY <1>2, CommandTaken DEF ViewInv
<1> QED
  BY <1>3, <1>4 DEF ViewInv

LEMMA CallNodeView ==
    ASSUME HoldInv, TypeInv, ViewInv, NEW req \in Requests, CallNode(req)
    PROVE  ViewInv'
<1>1. /\ UNCHANGED <<mask, sw, ethEnabled, detector, work, frames, asked>>
      /\ Deliver(Command(req, calls')) /\ calls' = calls + 1
  BY DEF CallNode, nodeVars
<1>2. calls' \in Nat
  BY <1>1 DEF HoldInv, Typed
<1>3. Gates' /\ Phase'
  BY <1>1, GatesKept, CallNodePhase DEF ViewInv
<1>4. InQueue' /\ Served'
  BY <1>1, <1>2, CommandSent DEF ViewInv
<1> QED
  BY <1>3, <1>4 DEF ViewInv

LEMMA SendAgainView ==
    ASSUME HoldInv, TypeInv, ViewInv, SendAgain
    PROVE  ViewInv'
<1>1. /\ UNCHANGED <<mask, sw, ethEnabled, detector, work, frames, asked>>
      /\ Waiting /\ Deliver(Command(call.req, call.no))
  BY DEF SendAgain, nodeVars
<1>2. call.req \in Requests /\ call.no \in Nat
  BY <1>1 DEF HoldInv, Typed
<1>3. Gates' /\ Phase'
  BY <1>1, GatesKept, SendAgainPhase DEF ViewInv
<1>4. InQueue' /\ Served'
  BY <1>1, <1>2, CommandSent DEF ViewInv
<1> QED
  BY <1>3, <1>4 DEF ViewInv

(* No trigger waits in the queue when the host changes its view. *)
LEMMA ReceiveAnswerView ==
    ASSUME HoldInv, TypeInv, ViewInv, ReceiveAnswer
    PROVE  ViewInv'
<1>1. UNCHANGED <<mask, sw, ethEnabled, detector, work, frames, inbox>>
  BY DEF ReceiveAnswer, nodeVars
<1>2. Gates' /\ Phase' /\ Carried
  BY <1>1, GatesKept, ReceiveAnswerPhase DEF ViewInv
<1>3. \A k \in 1 .. Len(inbox) : inbox[k].kind # "trigger"
  BY <1>2 DEF Carried, Current
<1>4. InQueue'
  BY <1>1, <1>3 DEF InQueue
<1>5. \A f : ~Queued(f)
<2>1. inbox \in Seq(InboxPackets)
  BY DEF HoldInv, Typed
<2>2. DOMAIN inbox = 1 .. Len(inbox)
  BY <2>1
<2> QED
  BY <1>3, <2>2 DEF Queued
<1>6. Served'
<2> SUFFICES ASSUME NEW f \in 1 .. Len(frames), NEW o \in Outputs
             PROVE  /\ frames[f].due[o] = "quiet" => frames[f].fired[o] = 0
                    /\ frames[f].fired[o] <= 1
                    /\ frames[f].due[o] = "fire" => frames[f].fired[o] = 1
  BY <1>1 DEF Served
<2> QED
  BY <1>5 DEF ViewInv, Served
<1> QED
  BY <1>2, <1>4, <1>6 DEF ViewInv

LEMMA RegisterWriteView ==
    ASSUME TypeInv, ViewInv, RegisterWrite
    PROVE  ViewInv'
<1>1. Gates' /\ Phase'
  BY RegisterWriteGates, RegisterWritePhase DEF ViewInv
<1>2. UNCHANGED <<inbox, frames, asked>>
  BY DEF RegisterWrite, ClearTemplate, WriteTemplate, ClearOps, WriteOps,
         EnableAll, Gate, StepTo, hostVars
<1>3. InQueue' /\ Served'
  BY <1>2 DEF ViewInv, InQueue, Served, Queued
<1> QED
  BY <1>1, <1>3 DEF ViewInv

LEMMA StutterView ==
    ASSUME ViewInv, UNCHANGED vars
    PROVE  ViewInv'
<1>1. UNCHANGED <<mask, sw, ethEnabled, detector, conf, work, call, asked,
                  answered, inbox, frames>>
  BY DEF vars, nodeVars, hostVars
<1>2. Gates'
  BY <1>1, GatesKept DEF ViewInv
<1>3. Phase'
  BY <1>1 DEF ViewInv, Phase, Numbered, Pending, Carried, Waiting, Updating
<1>4. InQueue' /\ Served'
  BY <1>1 DEF ViewInv, InQueue, Served, Queued
<1> QED
  BY <1>2, <1>3, <1>4 DEF ViewInv

-----------------------------------------------------------------------------
THEOREM ViewInvariant == Readable => (Spec => []ViewInv)
<1> SUFFICES ASSUME Readable PROVE Spec => []ViewInv
  OBVIOUS
<1>1. HoldInv /\ TypeInv /\ ViewInv /\ [Next]_vars => ViewInv'
<2> SUFFICES ASSUME HoldInv, TypeInv, ViewInv, [Next]_vars PROVE ViewInv'
  OBVIOUS
<2>1. ASSUME NEW req \in Requests, CallNode(req) PROVE ViewInv'
  BY <2>1, CallNodeView
<2>2. CASE SendAgain
  BY <2>2, SendAgainView
<2>3. CASE ReceiveAnswer
  BY <2>3, ReceiveAnswerView
<2>4. ASSUME NEW ids \in IdSets, Trigger(ids) PROVE ViewInv'
<3>1. ids \in SUBSET Ids
  BY TriggerAssumption
<3> QED
  BY <2>4, <3>1, TriggerView
<2>5. CASE OtherFrame
  BY <2>5, OtherFrameView
<2>6. CASE TriggerIn
  BY <2>6, TriggerInView
<2>7. CASE \/ ChangeIds \/ SetType \/ InputSel \/ OutputHold
           \/ OutputClear \/ OutputRead \/ Initialize
  BY <2>7, CommandView
<2>8. CASE RegisterWrite
  BY <2>8, RegisterWriteView
<2>9. CASE UNCHANGED vars
  BY <2>9, StutterView
<2> QED
  BY <2>1, <2>2, <2>3, <2>4, <2>5, <2>6, <2>7, <2>8, <2>9
     DEF Next, HostStep, NodeStep
<1>2. Init => ViewInv
  BY InitView
<1>3. Spec => []TypeInv
  BY TypeInvariant
<1> QED
  BY <1>1, <1>2, <1>3, HoldInvariant, PTL DEF Spec

(* No frame drives an output without an active ID, or drives it twice,     *)
(* however late a copy of a command is carried out and wherever in         *)
(* update_eth_trigger_control() the node is when the frame comes in, and   *)
(* whatever switches between hardware and software triggers there were.    *)
THEOREM FiresOnlyWhenDue == Readable => (Spec => []OnlyWhenDue)
<1> SUFFICES ASSUME Readable PROVE Spec => []OnlyWhenDue
  OBVIOUS
<1>1. HoldInv /\ ViewInv => OnlyWhenDue
<2> SUFFICES ASSUME HoldInv, ViewInv PROVE OnlyWhenDue
  OBVIOUS
<2>1. DOMAIN frames = 1 .. Len(frames)
  BY DEF HoldInv, Typed
<2> QED
  BY <2>1 DEF OnlyWhenDue, ViewInv, Served
<1>2. Spec => []ViewInv
  BY ViewInvariant
<1> QED
  BY <1>1, <1>2, HoldInvariant, PTL

(* A trigger with an active ID drives every output connected to the        *)
(* Ethernet input, by the time the main loop has taken it from its queue.  *)
THEOREM TriggersHeard == Readable => (Spec => []Heard)
<1> SUFFICES ASSUME Readable PROVE Spec => []Heard
  OBVIOUS
<1>1. HoldInv /\ ViewInv => Heard
<2> SUFFICES ASSUME HoldInv, ViewInv PROVE Heard
  OBVIOUS
<2>1. DOMAIN frames = 1 .. Len(frames)
  BY DEF HoldInv, Typed
<2> QED
  BY <2>1 DEF Heard, ViewInv, Served
<1>2. Spec => []ViewInv
  BY ViewInvariant
<1> QED
  BY <1>1, <1>2, HoldInvariant, PTL

(* Type correctness of the trigger manager and its host: the queue has     *)
(* room for all that is sent, an output holds a trigger only in hold mode, *)
(* and a frame drives no output more than twice.                           *)
THEOREM TypeCorrect == Readable => (Spec => []TypeOK)
<1> SUFFICES ASSUME Readable PROVE Spec => []TypeOK
  OBVIOUS
<1>1. HoldInv /\ TypeInv /\ ViewInv => TypeOK
<2> SUFFICES ASSUME HoldInv, TypeInv, ViewInv PROVE TypeOK
  OBVIOUS
<2>1. Len(inbox) <= MaxCalls * MaxSends + MaxFrames
<3>1. Unsent >= 0 /\ Unsent \in Int
<4> DEFINE d == MaxSends * (MaxCalls - calls)
<4>1. d \in Int /\ d >= 0
<5>1. MaxCalls - calls \in Nat /\ MaxSends \in Nat
  BY CountTypes DEF TypeInv, Counted
<5>2. \A a, b \in Nat : a * b \in Int /\ a * b >= 0
  OBVIOUS
<5> QED
  BY <5>1, <5>2
<4>2. Unsent = d + (IF Waiting THEN MaxSends - call.sends ELSE 0)
                 + (MaxFrames - Len(frames))
  BY DEF Unsent
<4>3. MaxSends - call.sends >= 0 /\ MaxFrames - Len(frames) >= 0
      /\ MaxSends - call.sends \in Int /\ MaxFrames - Len(frames) \in Int
  BY CountTypes DEF TypeInv, Counted
<4> HIDE DEF d
<4> QED
  BY <4>1, <4>2, <4>3
<3> DEFINE e == MaxCalls * MaxSends
<3>2. Len(inbox) + Unsent <= e + MaxFrames
  BY DEF TypeInv, Room
<3>3. e \in Int /\ MaxFrames \in Int /\ Len(inbox) \in Int
  BY TriggerAssumption, CountTypes DEF TypeInv
<3> HIDE DEF e
<3>4. Len(inbox) <= e + MaxFrames
  BY <3>1, <3>2, <3>3
<3> QED
  BY <3>4 DEF e
<2>2. ASSUME NEW f \in DOMAIN frames
      PROVE  /\ frames[f].due \in [Outputs -> Effects]
             /\ frames[f].fired \in [Outputs -> 0 .. 2]
<3>1. f \in 1 .. Len(frames) /\ frames[f] \in Frames
  BY DEF HoldInv, Typed
<3>2. /\ frames[f].due \in [Outputs -> Effects]
      /\ frames[f].fired \in [Outputs -> Nat]
  BY <3>1 DEF Frames
<3>3. \A o \in Outputs : frames[f].fired[o] <= 1
  BY <3>1 DEF ViewInv, Served
<3>4. \A o \in Outputs : frames[f].fired[o] \in 0 .. 2
  BY <3>2, <3>3
<3> QED
  BY <3>2, <3>4
<2>3. conf \in [Outputs -> [or : SUBSET Field, and : SUBSET Field]]
  BY DEF TypeInv, Plain, Selections
<2>4. hold \in [Outputs -> BOOLEAN] /\ latch \in [Outputs -> BOOLEAN]
      /\ unread \subseteq Outputs
  BY DEF HoldInv, Typed
<2> QED
  BY <2>1, <2>2, <2>3, <2>4 DEF TypeInv, Plain, Counted, TypeOK
<1>2. Spec => []ViewInv
  BY ViewInvariant
<1>3. Spec => []TypeInv
  BY TypeInvariant
<1> QED
  BY <1>1, <1>2, <1>3, HoldInvariant, PTL

=============================================================================
