-------------------------- MODULE NodeConfig_proofs --------------------------
(***************************************************************************)
(* Proofs, for any boards, groups and numbers of commands.                 *)
(*                                                                         *)
(* An answer the host takes is the answer to a command that was carried    *)
(* out.  AnswerMeansDone is not inductive.  DoneInv adds what a sequence   *)
(* number proves: numbers grow from call to call, no frame or answer has   *)
(* one past the current call's, and an answer with the current one exists  *)
(* only once the command has been carried out.                             *)
(*                                                                         *)
(* Frames reach only the boards they are for, and what the host knows of a *)
(* node holds.  HostInv follows a frame from the host through a queue: a   *)
(* command is queued only where it is meant to be (Meant), frames of the   *)
(* current call are behind all earlier ones (Ordered), so that a board     *)
(* which has answered it has no earlier frame left that could undo what    *)
(* the host concludes from the answer (Answered, Found).                   *)
(***************************************************************************)
EXTENDS NodeConfig, TLAPS

FrameSet ==
    [op : Ops \cup {"none", "setup", "work"},
     dest : Ids \cup {0, Broadcast} \cup {2 ^ g : g \in Groups},
     ip : {id + 1 : id \in Ids \cup {0}} \cup {All},
     no : Nat,
     board : Boards \cup {NoBoard},
     val : Groups \cup UserIds \cup {0},
     for : SUBSET Boards]

Calls == [op : Ops \cup {"none"}, id : Ids \cup {0}, val : Groups \cup {0},
          no : Nat, sends : Nat]

Typed ==
    /\ call \in Calls
    /\ Waiting => call.id \in Ids
    /\ count \in [Counted -> Nat]
    /\ serial \in [Ids -> Boards \cup {NoBoard}]
    /\ queue \in [Boards -> Seq(FrameSet)]
    /\ \A a \in answers : a.no \in Nat /\ a.board \in Boards

Numbered ==
    /\ Waiting => call.no = count.calls /\ call.no # 0
    /\ \A b \in Boards : \A k \in 1 .. Len(queue[b]) :
           queue[b][k].no <= count.calls
    /\ \A a \in answers : a.no <= count.calls

Founded == \A a \in answers : Waiting /\ a.no = call.no => handled

DoneInv == Typed /\ Numbered /\ Founded /\ AnswerMeansDone

-----------------------------------------------------------------------------
LEMMA InitDone == Init => DoneInv
<1> SUFFICES ASSUME Init PROVE DoneInv
  OBVIOUS
<1>1. ~Waiting /\ call \in Calls
  BY DEF Init, Waiting, NoCall, Calls
<1>2. Typed
  BY <1>1 DEF Init, Typed
<1>3. Numbered
  BY <1>1 DEF Init, Numbered
<1> QED
  BY <1>1, <1>2, <1>3 DEF Init, DoneInv, Founded, AnswerMeansDone

(* A frame numbered at most n reaches the queues of some boards. *)
LEMMA Transmitted ==
    ASSUME Typed, NEW n \in Nat, NEW frame \in FrameSet, frame.no <= n,
           \A b \in Boards : \A k \in 1 .. Len(queue[b]) : queue[b][k].no <= n,
           Transmit(frame)
    PROVE  /\ queue' \in [Boards -> Seq(FrameSet)]
           /\ \A b \in Boards : \A k \in 1 .. Len(queue'[b]) :
                  queue'[b][k].no <= n
<1>1. PICK got : queue' = [b \in Boards |->
                     IF b \in got THEN Append(queue[b], frame) ELSE queue[b]]
  BY DEF Transmit
<1>2. ASSUME NEW b \in Boards
      PROVE  /\ queue'[b] \in Seq(FrameSet)
             /\ \A k \in 1 .. Len(queue'[b]) : queue'[b][k].no <= n
<2>1. queue[b] \in Seq(FrameSet)
  BY DEF Typed
<2>2. CASE b \in got
<3>1. queue'[b] = Append(queue[b], frame)
  BY <1>1, <2>2
<3>2. \A k \in 1 .. Len(queue'[b]) :
          queue'[b][k] = frame
          \/ (k \in 1 .. Len(queue[b]) /\ queue'[b][k] = queue[b][k])
  BY <2>1, <3>1
<3>3. queue'[b] \in Seq(FrameSet)
  BY <2>1, <3>1
<3> QED
  BY <3>2, <3>3
<2>3. CASE b \notin got
  BY <1>1, <2>1, <2>3
<2> QED
  BY <2>2, <2>3
<1>3. queue' \in [Boards -> Seq(FrameSet)]
  BY <1>1, <1>2
<1> QED
  BY <1>2, <1>3

LEMMA CommandFrames ==
    ASSUME Typed, NEW c \in Calls, c.id \in Ids
    PROVE  CommandFrame(c) \in FrameSet /\ CommandFrame(c).no = c.no
<1>1. serial[c.id] \in Boards \cup {NoBoard} /\ Holders(c.id) \subseteq Boards
  BY DEF Typed, Holders
<1> QED
  BY <1>1 DEF CommandFrame, FrameSet, Calls

-----------------------------------------------------------------------------
(* The host.                                                               *)

LEMMA BroadcastStep ==
    ASSUME DoneInv, ~Waiting, NEW field \in Counted, field # "calls",
           NEW frame \in FrameSet, frame.no = 0, Transmit(frame),
           count' = [count EXCEPT ![field] = @ + 1],
           UNCHANGED <<call, serial, answers, handled, unfounded>>
    PROVE  DoneInv'
<1> USE DEF DoneInv
<1>1. /\ count' \in [Counted -> Nat] /\ count'.calls = count.calls
      /\ count.calls \in Nat
  BY DEF Typed, Counted
<1>2. /\ queue' \in [Boards -> Seq(FrameSet)]
      /\ \A b \in Boards : \A k \in 1 .. Len(queue'[b]) :
             queue'[b][k].no <= count.calls
  BY <1>1, Transmitted DEF Numbered
<1>3. Typed'
  BY <1>1, <1>2 DEF Typed, Waiting
<1>4. Numbered' /\ Founded' /\ AnswerMeansDone'
  BY <1>1, <1>2 DEF Numbered, Founded, AnswerMeansDone, Waiting
<1> QED
  BY <1>3, <1>4

LEMMA SetUpStep ==
    ASSUME DoneInv, NEW b \in Boards, NEW id \in UserIds, SetUp(b, id)
    PROVE  DoneInv'
<1> DEFINE frame == BroadcastFrame("setup", Broadcast, b, id, {b})
<1>1. frame \in FrameSet /\ frame.no = 0
  BY DEF BroadcastFrame, FrameSet
<1>2. /\ ~Waiting /\ Transmit(frame)
      /\ count' = [count EXCEPT !["setups"] = @ + 1]
      /\ UNCHANGED <<call, serial, answers, handled, unfounded>>
  BY DEF SetUp
<1> HIDE DEF frame
<1> QED
  BY <1>1, <1>2, BroadcastStep DEF Counted

LEMMA GroupCommandStep ==
    ASSUME DoneInv, NEW g \in Groups, GroupCommand(g)
    PROVE  DoneInv'
<1> DEFINE for == {b \in Boards : <<b, g>> \in mayJoin}
           frame == BroadcastFrame("work", 2 ^ g, NoBoard, 0, for)
<1>1. frame \in FrameSet /\ frame.no = 0
  BY DEF BroadcastFrame, FrameSet
<1>2. /\ ~Waiting /\ Transmit(frame)
      /\ count' = [count EXCEPT !["works"] = @ + 1]
      /\ UNCHANGED <<call, serial, answers, handled, unfounded>>
  BY DEF GroupCommand
<1> HIDE DEF frame
<1> QED
  BY <1>1, <1>2, BroadcastStep DEF Counted

LEMMA CallNodeStep ==
    ASSUME DoneInv, NEW op \in Ops, NEW id \in Ids, NEW val \in Groups \cup {0},
           CallNode(op, id, val)
    PROVE  DoneInv'
<1> USE DEF DoneInv
<1>1. /\ count' = [count EXCEPT !.calls = @ + 1]
      /\ call' = [op |-> op, id |-> id, val |-> val, no |-> count'.calls,
                  sends |-> 1]
      /\ Transmit(CommandFrame(call'))
      /\ serial' = IF op = "info" THEN [serial EXCEPT ![id] = NoBoard]
                   ELSE serial
      /\ UNCHANGED <<answers, handled, unfounded>>
  BY DEF CallNode
<1>2. /\ count' \in [Counted -> Nat] /\ count'.calls = count.calls + 1
      /\ count.calls \in Nat /\ count'.calls \in Nat
<2>1. "calls" \in Counted /\ count \in [Counted -> Nat]
  BY DEF Typed, Counted
<2>2. count' = [count EXCEPT !["calls"] = @ + 1]
  BY <1>1
<2> QED
  BY <2>1, <2>2
<1>3. /\ call' \in Calls /\ call'.id \in Ids /\ call'.no = count'.calls
  BY <1>1, <1>2 DEF Calls
<1>4. CommandFrame(call') \in FrameSet /\ CommandFrame(call').no = count'.calls
  BY <1>3, CommandFrames
<1>5. /\ queue' \in [Boards -> Seq(FrameSet)]
      /\ \A b \in Boards : \A k \in 1 .. Len(queue'[b]) :
             queue'[b][k].no <= count'.calls
<2>1. \A b \in Boards : \A k \in 1 .. Len(queue[b]) :
          queue[b][k].no <= count'.calls
<3>1. ASSUME NEW b \in Boards, NEW k \in 1 .. Len(queue[b])
      PROVE  queue[b][k].no <= count'.calls
<4>1. queue[b][k] \in FrameSet
  BY DEF Typed
<4>2. queue[b][k].no \in Nat
  BY <4>1 DEF FrameSet
<4> QED
  BY <1>2, <4>2 DEF Numbered
<3> QED
  BY <3>1
<2> QED
  BY <1>1, <1>2, <1>4, <2>1, Transmitted
<1>6. serial' \in [Ids -> Boards \cup {NoBoard}]
  BY <1>1 DEF Typed
<1>7. Typed'
  BY <1>1, <1>2, <1>3, <1>5, <1>6 DEF Typed
<1>8. Numbered' /\ Founded' /\ AnswerMeansDone'
  BY <1>1, <1>2, <1>3, <1>5
     DEF Numbered, Founded, AnswerMeansDone, Typed
<1> QED
  BY <1>7, <1>8

LEMMA SendAgainStep ==
    ASSUME DoneInv, SendAgain
    PROVE  DoneInv'
<1> USE DEF DoneInv
<1>1. /\ Waiting
      /\ call' = [call EXCEPT !.sends = @ + 1]
      /\ Transmit(CommandFrame(call))
      /\ UNCHANGED <<count, serial, answers, handled, unfounded>>
  BY DEF SendAgain
<1>2. /\ call \in Calls /\ call.id \in Ids /\ call.no = count.calls
      /\ call.no \in Nat
  BY <1>1 DEF Typed, Numbered, Calls
<1>3. /\ call' \in Calls /\ call'.id = call.id /\ call'.no = call.no
  BY <1>1, <1>2 DEF Calls
<1>4. CommandFrame(call) \in FrameSet /\ CommandFrame(call).no = count.calls
  BY <1>2, CommandFrames
<1>5. /\ queue' \in [Boards -> Seq(FrameSet)]
      /\ \A b \in Boards : \A k \in 1 .. Len(queue'[b]) :
             queue'[b][k].no <= count.calls
  BY <1>1, <1>2, <1>4, Transmitted DEF Numbered
<1>6. Typed'
  BY <1>1, <1>2, <1>3, <1>5 DEF Typed
<1>7. Numbered' /\ Founded' /\ AnswerMeansDone'
  BY <1>1, <1>2, <1>3, <1>5 DEF Numbered, Founded, AnswerMeansDone
<1> QED
  BY <1>6, <1>7

(* The host stops waiting. *)
LEMMA EndCallStep ==
    ASSUME DoneInv, EndCall, ~unfounded', answers' \subseteq answers,
           serial' \in [Ids -> Boards \cup {NoBoard}]
    PROVE  DoneInv'
<1> USE DEF DoneInv
<1>1. call' = NoCall /\ UNCHANGED <<queue, count>>
  BY DEF EndCall
<1>2. call' \in Calls /\ ~Waiting'
  BY <1>1 DEF NoCall, Calls, Waiting
<1>3. Typed'
  BY <1>1, <1>2 DEF Typed
<1>4. Numbered' /\ Founded' /\ AnswerMeansDone'
  BY <1>1, <1>2 DEF Numbered, Founded, AnswerMeansDone
<1> QED
  BY <1>3, <1>4

LEMMA GiveUpStep ==
    ASSUME DoneInv, GiveUp
    PROVE  DoneInv'
<1>1. /\ EndCall /\ ~unfounded' /\ answers' \subseteq answers
      /\ serial' = IF call.op = "reset"
                   THEN [serial EXCEPT ![call.id] = NoBoard] ELSE serial
  BY DEF GiveUp, DoneInv, AnswerMeansDone
<1>2. serial' \in [Ids -> Boards \cup {NoBoard}]
  BY <1>1 DEF DoneInv, Typed
<1> QED
  BY <1>1, <1>2, EndCallStep

LEMMA IgnoreAnswerStep ==
    ASSUME DoneInv, NEW a \in answers, IgnoreAnswer(a)
    PROVE  DoneInv'
<1>1. /\ answers' \subseteq answers
      /\ UNCHANGED <<call, count, serial, queue, handled, unfounded>>
  BY DEF IgnoreAnswer, hostVars
<1> QED
  BY <1>1 DEF DoneInv, Typed, Numbered, Founded, AnswerMeansDone, Waiting

LEMMA ReceiveAnswerStep ==
    ASSUME DoneInv, NEW a \in answers, ReceiveAnswer(a)
    PROVE  DoneInv'
<1>1. /\ Waiting /\ a.no = call.no /\ EndCall
      /\ answers' \subseteq answers
      /\ unfounded' = (unfounded \/ ~handled)
      /\ serial' = CASE call.op = "info" -> [serial EXCEPT ![call.id] = a.board]
                     [] call.op = "reset" -> [serial EXCEPT ![call.id] = NoBoard]
                     [] OTHER -> serial
  BY DEF ReceiveAnswer, IsReply
<1>2. ~unfounded'
  BY <1>1 DEF DoneInv, Founded, AnswerMeansDone
<1>3. serial' \in [Ids -> Boards \cup {NoBoard}]
<2>1. a.board \in Boards /\ serial \in [Ids -> Boards \cup {NoBoard}]
  BY DEF DoneInv, Typed
<2> QED
  BY <1>1, <2>1
<1> QED
  BY <1>1, <1>2, <1>3, EndCallStep

-----------------------------------------------------------------------------
(* The boards.                                                             *)

(* A queue loses its first frame, or all. *)
LEMMA Polled ==
    ASSUME DoneInv, NEW b \in Boards,
           queue' = [queue EXCEPT ![b] = <<>>]
           \/ (queue[b] # <<>> /\ queue' = [queue EXCEPT ![b] = Tail(@)])
    PROVE  /\ queue' \in [Boards -> Seq(FrameSet)]
           /\ \A c \in Boards : \A k \in 1 .. Len(queue'[c]) :
                  queue'[c][k].no <= count.calls
<1>1. queue \in [Boards -> Seq(FrameSet)]
  BY DEF DoneInv, Typed
<1>2. \A c \in Boards : \A k \in 1 .. Len(queue[c]) :
          queue[c][k].no <= count.calls
  BY DEF DoneInv, Numbered
<1>3. CASE queue' = [queue EXCEPT ![b] = <<>>]
<2>1. queue'[b] = <<>> /\ <<>> \in Seq(FrameSet)
  BY <1>1, <1>3
<2>2. Len(queue'[b]) = 0
  BY <2>1
<2>3. \A c \in Boards \ {b} : queue'[c] = queue[c]
  BY <1>1, <1>3
<2>4. queue' \in [Boards -> Seq(FrameSet)]
  BY <1>1, <1>3, <2>1
<2>5. \A k \in 1 .. Len(queue'[b]) : FALSE
  BY <2>2
<2>6. ASSUME NEW c \in Boards, NEW k \in 1 .. Len(queue'[c])
      PROVE  queue'[c][k].no <= count.calls
<3>1. CASE c = b
  BY <2>5, <2>6, <3>1
<3>2. CASE c # b
<4>1. queue'[c] = queue[c]
  BY <2>3, <3>2
<4> QED
  BY <1>2, <2>6, <4>1
<3> QED
  BY <3>1, <3>2
<2> QED
  BY <2>4, <2>6
<1>4. CASE queue[b] # <<>> /\ queue' = [queue EXCEPT ![b] = Tail(@)]
<2>1. /\ queue'[b] \in Seq(FrameSet)
      /\ \A k \in 1 .. Len(queue'[b]) :
             k + 1 \in 1 .. Len(queue[b]) /\ queue'[b][k] = queue[b][k + 1]
  BY <1>1, <1>4
<2>2. \A c \in Boards \ {b} : queue'[c] = queue[c]
  BY <1>1, <1>4
<2>3. queue' \in [Boards -> Seq(FrameSet)]
  BY <1>1, <1>4, <2>1
<2>4. ASSUME NEW c \in Boards, NEW k \in 1 .. Len(queue'[c])
      PROVE  queue'[c][k].no <= count.calls
<3>1. CASE c = b
  BY <1>2, <2>1, <2>4, <3>1
<3>2. CASE c # b
<4>1. queue'[c] = queue[c]
  BY <2>2, <3>2
<4> QED
  BY <1>2, <2>4, <4>1
<3> QED
  BY <3>1, <3>2
<2> QED
  BY <2>3, <2>4
<1> QED
  BY <1>3, <1>4

(* A step of a board: what it answers is to a command carried out.  (A     *)
(* reboot loses the frames a board has received.)                          *)
LEMMA BoardActs ==
    ASSUME DoneInv, NEW b \in Boards, UNCHANGED <<call, serial, unfounded>>,
           count' = count \/ count' = [count EXCEPT !["reboots"] = @ + 1],
           \/ queue' = queue
           \/ queue' = [queue EXCEPT ![b] = <<>>]
           \/ queue[b] # <<>> /\ queue' = [queue EXCEPT ![b] = Tail(@)],
           handled => handled',
           \/ answers' = answers
           \/ /\ queue[b] # <<>>
              /\ answers' \in {answers, answers \cup {Reply(b)}}
              /\ Waiting /\ Head(queue[b]).no = call.no => handled'
    PROVE  DoneInv'
<1>1. /\ count' \in [Counted -> Nat] /\ count'.calls = count.calls
      /\ count.calls \in Nat
  BY DEF DoneInv, Typed, Counted
<1>2. /\ queue' \in [Boards -> Seq(FrameSet)]
      /\ \A c \in Boards : \A k \in 1 .. Len(queue'[c]) :
             queue'[c][k].no <= count.calls
<2>1. CASE queue' = queue
  BY <2>1 DEF DoneInv, Typed, Numbered
<2> QED
  BY <2>1, Polled
<1>3. ASSUME NEW a \in answers'
      PROVE  /\ a.no \in Nat /\ a.board \in Boards /\ a.no <= count.calls
             /\ Waiting /\ a.no = call.no => handled'
<2>1. CASE a \in answers
  BY <2>1 DEF DoneInv, Typed, Numbered, Founded
<2>2. CASE a \notin answers
<3>1. /\ a = Reply(b) /\ queue[b] # <<>>
      /\ Waiting /\ Head(queue[b]).no = call.no => handled'
  BY <1>3, <2>2
<3>2. a.no = Head(queue[b]).no /\ a.board = b
  BY <3>1 DEF Reply
<3>3. /\ Head(queue[b]) = queue[b][1] /\ queue[b][1] \in FrameSet
      /\ 1 \in 1 .. Len(queue[b])
  BY <3>1 DEF DoneInv, Typed
<3>4. a.no \in Nat /\ a.no <= count.calls
  BY <3>2, <3>3 DEF FrameSet, DoneInv, Numbered
<3> QED
  BY <3>1, <3>2, <3>4
<2> QED
  BY <2>1, <2>2
<1>4. Typed'
  BY <1>1, <1>2, <1>3 DEF DoneInv, Typed, Waiting
<1>5. Numbered' /\ Founded' /\ AnswerMeansDone'
  BY <1>1, <1>2, <1>3
     DEF DoneInv, Numbered, Founded, AnswerMeansDone, Waiting
<1> QED
  BY <1>4, <1>5 DEF DoneInv

LEMMA Carried ==
    ASSUME NEW b \in Boards, NEW ops, CarryOut(b, ops)
    PROVE  /\ queue[b] # <<>> /\ queue' = [queue EXCEPT ![b] = Tail(@)]
           /\ UNCHANGED <<call, serial, unfounded, count>>
           /\ handled => handled'
           /\ Waiting /\ Head(queue[b]).no = call.no => handled'
  BY DEF CarryOut, Poll, hostVars

LEMMA BoardSteps ==
    ASSUME DoneInv, NEW b \in Boards, BoardStep(b)
    PROVE  DoneInv'
<1>1. CASE Boot(b)
  BY <1>1, BoardActs DEF Boot, hostVars
<1>2. CASE Reboot(b)
<2>1. count' = [count EXCEPT !["reboots"] = @ + 1]
  BY <1>2 DEF Reboot
<2> QED
  BY <1>2, <2>1, BoardActs DEF Reboot
<1>3. CASE Ignore(b) \/ ConfigSetupIgnored(b)
<2>1. /\ queue[b] # <<>> /\ queue' = [queue EXCEPT ![b] = Tail(@)]
      /\ UNCHANGED <<call, serial, unfounded, count, answers, handled>>
  BY <1>3 DEF Ignore, ConfigSetupIgnored, Poll, hostVars
<2> QED
  BY <2>1, BoardActs
<1>4. CASE Work(b) \/ ConfigSetup(b)
<2>1. (\E ops : CarryOut(b, ops)) /\ answers' = answers
  BY <1>4 DEF Work, ConfigSetup
<2> QED
  BY <2>1, Carried, BoardActs
<1>5. CASE \/ Initialize(b) \/ Info(b) \/ ConfigReset(b)
           \/ GroupIdAdd(b) \/ GroupIdClear(b)
<2>1. /\ \E ops : CarryOut(b, ops)
      /\ answers' \in {answers, answers \cup {Reply(b)}}
  BY <1>5 DEF Initialize, Info, ConfigReset, GroupIdAdd, GroupIdClear,
              EarlyAnswer, Answer
<2> QED
  BY <2>1, Carried, BoardActs
<1> QED
  BY <1>1, <1>2, <1>3, <1>4, <1>5 DEF BoardStep

-----------------------------------------------------------------------------
(* The inductive invariant. *)
THEOREM DoneInvariant == Spec => []DoneInv
<1>1. DoneInv /\ [Next]_vars => DoneInv'
<2> SUFFICES ASSUME DoneInv, [Next]_vars PROVE DoneInv'
  OBVIOUS
<2>1. ASSUME NEW b \in Boards, NEW id \in UserIds, SetUp(b, id) PROVE DoneInv'
  BY <2>1, SetUpStep
<2>2. ASSUME NEW g \in Groups, GroupCommand(g) PROVE DoneInv'
  BY <2>2, GroupCommandStep
<2>3. CASE CallAny
  BY <2>3, CallNodeStep DEF CallAny
<2>4. CASE SendAgain
  BY <2>4, SendAgainStep
<2>5. CASE GiveUp
  BY <2>5, GiveUpStep
<2>6. ASSUME NEW a \in answers, IgnoreAnswer(a) PROVE DoneInv'
  BY <2>6, IgnoreAnswerStep
<2>7. ASSUME NEW a \in answers, ReceiveAnswer(a) PROVE DoneInv'
  BY <2>7, ReceiveAnswerStep
<2>8. ASSUME NEW b \in Boards, BoardStep(b) PROVE DoneInv'
  BY <2>8, BoardSteps
<2>9. CASE UNCHANGED vars
  BY <2>9 DEF vars, hostVars, DoneInv, Typed, Numbered, Founded,
              AnswerMeansDone, Waiting
<2> QED
  BY <2>1, <2>2, <2>3, <2>4, <2>5, <2>6, <2>7, <2>8, <2>9 DEF Next, HostStep
<1> QED
  BY <1>1, InitDone, PTL DEF Spec

(* When the host takes an answer, the command it waits for has been carried *)
(* out: the sequence number that the header of every command and answer    *)
(* has is enough, however often commands are repeated and whatever late    *)
(* answers, reboots and readdressed boards come between.                   *)
THEOREM AnswersAreTrue == Spec => []AnswerMeansDone
<1>1. DoneInv => AnswerMeansDone
  BY DEF DoneInv
<1> QED
  BY <1>1, DoneInvariant, PTL

-----------------------------------------------------------------------------
(***************************************************************************)
(* Queues: what is in one, and in which order.                             *)
(***************************************************************************)
Elems(q) == {q[k] : k \in 1 .. Len(q)}

Before(q, e, f) ==
    \E j, k \in 1 .. Len(q) : j < k /\ q[j] = e /\ q[k] = f

LEMMA BeforeElems ==
    ASSUME NEW q, NEW e, NEW f, Before(q, e, f)
    PROVE  e \in Elems(q) /\ f \in Elems(q)
  BY DEF Before, Elems

LEMMA AppendedQueue ==
    ASSUME NEW S, NEW q \in Seq(S), NEW frame \in S
    PROVE  /\ Elems(Append(q, frame)) = Elems(q) \cup {frame}
           /\ \A e, f : Before(Append(q, frame), e, f) =>
                  Before(q, e, f) \/ (e \in Elems(q) /\ f = frame)
           /\ Len(Append(q, frame)) = Len(q) + 1 /\ Len(q) \in Nat
<1> DEFINE r == Append(q, frame)
<1>1. /\ Len(q) \in Nat /\ Len(r) = Len(q) + 1
      /\ r[Len(q) + 1] = frame
      /\ \A k \in 1 .. Len(q) : r[k] = q[k]
  OBVIOUS
<1> HIDE DEF r
<1>2. \A k \in 1 .. Len(r) : k \in 1 .. Len(q) \/ k = Len(q) + 1
  BY <1>1
<1>3. \A k \in 1 .. Len(q) : k \in 1 .. Len(r)
  BY <1>1
<1>4. Elems(r) = Elems(q) \cup {frame}
  BY <1>1, <1>2, <1>3 DEF Elems
<1>5. ASSUME NEW e, NEW f, Before(r, e, f)
      PROVE  Before(q, e, f) \/ (e \in Elems(q) /\ f = frame)
<2>1. PICK j \in 1 .. Len(r), k \in 1 .. Len(r) :
          j < k /\ r[j] = e /\ r[k] = f
  BY <1>5 DEF Before
<2>2. j \in 1 .. Len(q)
  BY <1>1, <2>1
<2> QED
  BY <1>1, <1>2, <2>1, <2>2 DEF Before, Elems
<1> QED
  BY <1>1, <1>4, <1>5 DEF r

LEMMA TailOfQueue ==
    ASSUME NEW S, NEW q \in Seq(S), q # <<>>
    PROVE  /\ Head(q) \in Elems(q) /\ Elems(Tail(q)) \subseteq Elems(q)
           /\ \A f \in Elems(Tail(q)) : Before(q, Head(q), f)
           /\ \A e, f : Before(Tail(q), e, f) => Before(q, e, f)
           /\ Len(Tail(q)) <= Len(q)
<1> DEFINE r == Tail(q)
<1>1. /\ Len(q) \in Nat /\ 1 \in 1 .. Len(q) /\ Len(r) = Len(q) - 1
      /\ Head(q) = q[1]
      /\ \A k \in 1 .. Len(r) : r[k] = q[k + 1]
  OBVIOUS
<1> HIDE DEF r
<1>2. \A k \in 1 .. Len(r) : k + 1 \in 1 .. Len(q) /\ 1 < k + 1
  BY <1>1
<1>3. Head(q) \in Elems(q) /\ Elems(r) \subseteq Elems(q)
  BY <1>1, <1>2 DEF Elems
<1>4. \A f \in Elems(r) : Before(q, Head(q), f)
  BY <1>1, <1>2 DEF Elems, Before
<1>5. ASSUME NEW e, NEW f, Before(r, e, f) PROVE Before(q, e, f)
<2>1. PICK j \in 1 .. Len(r), k \in 1 .. Len(r) :
          j < k /\ r[j] = e /\ r[k] = f
  BY <1>5 DEF Before
<2>2. j + 1 < k + 1 /\ q[j + 1] = e /\ q[k + 1] = f
  BY <1>1, <2>1
<2> QED
  BY <1>2, <2>2 DEF Before
<1> QED
  BY <1>1, <1>3, <1>4, <1>5 DEF r

LEMMA EmptyQueue ==
    /\ Elems(<<>>) = {} /\ Len(<<>>) = 0
    /\ \A e, f : ~Before(<<>>, e, f)
<1>1. Len(<<>>) = 0 /\ 1 .. 0 = {}
  OBVIOUS
<1> QED
  BY <1>1 DEF Elems, Before

(* A frame is sent: it is behind all others, in the queues of boards that  *)
(* hear it.                                                                *)
LEMMA Sent ==
    ASSUME Typed, NEW frame \in FrameSet, Transmit(frame), NEW b \in Boards
    PROVE  /\ \A f \in Elems(queue'[b]) :
                  f \in Elems(queue[b]) \/ (f = frame /\ Hears(b, frame))
           /\ \A e, f : Before(queue'[b], e, f) =>
                  Before(queue[b], e, f)
                  \/ (e \in Elems(queue[b]) /\ f = frame)
           /\ Len(queue'[b]) \in Nat /\ Len(queue'[b]) <= Len(queue[b]) + 1
           /\ Len(queue[b]) \in Nat
<1>1. PICK got \in SUBSET {c \in Boards : Hears(c, frame)} :
          queue' = [c \in Boards |->
                     IF c \in got THEN Append(queue[c], frame) ELSE queue[c]]
  BY DEF Transmit
<1>2. queue[b] \in Seq(FrameSet)
  BY DEF Typed
<1>3. Len(queue[b]) \in Nat
  BY <1>2
<1>4. CASE b \in got
<2>1. queue'[b] = Append(queue[b], frame) /\ Hears(b, frame)
  BY <1>1, <1>4
<2> QED
  BY <1>2, <1>3, <2>1, AppendedQueue
<1>5. CASE b \notin got
<2>1. queue'[b] = queue[b]
  BY <1>1, <1>5
<2> QED
  BY <1>3, <2>1
<1> QED
  BY <1>4, <1>5

(* A board looks at its first frame, or loses all. *)
LEMMA Shrunk ==
    ASSUME Typed, NEW b \in Boards, NEW c \in Boards,
           \/ queue' = queue
           \/ queue' = [queue EXCEPT ![b] = <<>>]
           \/ queue[b] # <<>> /\ queue' = [queue EXCEPT ![b] = Tail(@)]
    PROVE  /\ Elems(queue'[c]) \subseteq Elems(queue[c])
           /\ \A e, f : Before(queue'[c], e, f) => Before(queue[c], e, f)
           /\ Len(queue'[c]) \in Nat /\ Len(queue'[c]) <= Len(queue[c])
           /\ Len(queue[c]) \in Nat
<1>1. queue[c] \in Seq(FrameSet) /\ queue \in [Boards -> Seq(FrameSet)]
  BY DEF Typed
<1>2. Len(queue[c]) \in Nat
  BY <1>1
<1>3. CASE queue'[c] = queue[c]
  BY <1>2, <1>3
<1>4. CASE queue'[c] = <<>>
  BY <1>2, <1>4, EmptyQueue
<1>5. CASE queue[c] # <<>> /\ queue'[c] = Tail(queue[c])
<2>1. Len(Tail(queue[c])) \in Nat
  BY <1>1, <1>5
<2> QED
  BY <1>1, <1>2, <1>5, <2>1, TailOfQueue
<1>6. \/ queue'[c] = queue[c] \/ queue'[c] = <<>>
      \/ queue[c] # <<>> /\ queue'[c] = Tail(queue[c])
  BY <1>1
<1> QED
  BY <1>3, <1>4, <1>5, <1>6

LEMMA Served ==
    ASSUME Typed, NEW b \in Boards, queue[b] # <<>>,
           queue' = [queue EXCEPT ![b] = Tail(@)]
    PROVE  /\ Head(queue[b]) \in Elems(queue[b])
           /\ \A f \in Elems(queue'[b]) :
                  Before(queue[b], Head(queue[b]), f)
<1>1. queue[b] \in Seq(FrameSet) /\ queue'[b] = Tail(queue[b])
  BY DEF Typed
<1> QED
  BY <1>1, TailOfQueue

-----------------------------------------------------------------------------
(***************************************************************************)
(* Type correctness: what frames there are (Shape), and how many: those    *)
(* queued at a board and those the host may still send (Unsent) are at     *)
(* most Frames together (Room).                                            *)
(***************************************************************************)
Plain ==
    /\ stage \in [Boards -> Stages]
    /\ node \in [Boards -> Ids \cup {Broadcast}]
    /\ ip \in [Boards -> {id + 1 : id \in Ids} \cup {0, Mac}]
    /\ port \in [Boards -> {0} \cup UserIds]
    /\ groups \in [Boards -> SUBSET Groups]
    /\ members \in [Groups -> SUBSET Ids] /\ used \subseteq Groups
    /\ assigned \subseteq Boards \X Ids
    /\ mayJoin \subseteq Boards \X Groups
    /\ stale \subseteq Ids
    /\ handled \in BOOLEAN /\ unfounded \in BOOLEAN
    /\ strays \subseteq Boards

WellFormed(f) ==
    \/ /\ f.op \in Ops /\ f.dest \in Ids /\ f.ip = f.dest + 1
       /\ f.op \in {"add", "clear"} => f.val \in Groups
    \/ f.op = "setup" /\ f.for = {f.board} /\ f.val \in UserIds
    \/ f.op = "work" /\ \E g \in Groups : f.dest = 2 ^ g

Shape ==
    /\ \A b \in Boards : \A f \in Elems(queue[b]) : WellFormed(f)
    /\ Waiting => /\ call.op \in Ops
                  /\ call.op \in {"add", "clear"} => call.val \in Groups
                  /\ call.op = "reset" => serial[call.id] # NoBoard

Uncounted ==
    MaxSends * (MaxCalls - count.calls)
    + (MaxSetups - count.setups) + (MaxWorks - count.works)

Unsent == Uncounted + (IF Waiting THEN MaxSends - call.sends ELSE 0)

Room ==
    /\ call.sends <= MaxSends
    /\ count.calls <= MaxCalls
    /\ count.setups <= MaxSetups /\ count.works <= MaxWorks
    /\ \A b \in Boards : Len(queue[b]) + Unsent <= Frames

TypeInv == Plain /\ Shape /\ Room

LEMMA CountTypes ==
    ASSUME Typed
    PROVE  /\ count.calls \in Nat /\ count.setups \in Nat
           /\ count.works \in Nat /\ count.reboots \in Nat
           /\ call.sends \in Nat
           /\ \A b \in Boards : Len(queue[b]) \in Nat
<1>1. ASSUME NEW b \in Boards PROVE Len(queue[b]) \in Nat
<2>1. queue[b] \in Seq(FrameSet)
  BY DEF Typed
<2> QED
  BY <2>1
<1> QED
  BY <1>1 DEF Typed, Counted, Calls

LEMMA BootTypes ==
    ASSUME NEW b \in Boards
    PROVE  /\ BootNode(b) \in Ids \cup {Broadcast}
           /\ BootIp(b) \in {id + 1 : id \in Ids} \cup {0, Mac}
           /\ OwnId(b) \subseteq Boards \X Ids
  BY DEF BootNode, BootIp, OwnId, Ids

LEMMA Numbers ==
    /\ MaxSends \in Nat \ {0} /\ MaxCalls \in Nat
    /\ MaxSetups \in Nat /\ MaxWorks \in Nat
  BY NodeAssumption

LEMMA InitType == Init => TypeInv
<1> SUFFICES ASSUME Init PROVE TypeInv
  OBVIOUS
<1>1. Plain
  BY BootTypes DEF Init, Plain, Stages
<1>2. ~Waiting /\ call.sends = 0
  BY DEF Init, Waiting, NoCall
<1>3. \A b \in Boards : Elems(queue[b]) = {} /\ Len(queue[b]) = 0
  BY EmptyQueue DEF Init
<1>4. Shape
  BY <1>2, <1>3 DEF Shape
<1>5. /\ count.calls = 0 /\ count.setups = 0 /\ count.works = 0
  BY DEF Init, Counted
<1>6. Unsent = MaxSends * MaxCalls + MaxSetups + MaxWorks
  BY <1>2, <1>5, Numbers DEF Unsent, Uncounted
<1>7. Unsent = Frames /\ Frames \in Nat
  BY <1>6, Numbers DEF Frames
<1>8. Room
  BY <1>2, <1>3, <1>5, <1>7, Numbers DEF Room
<1> QED
  BY <1>1, <1>4, <1>8 DEF TypeInv

(* A frame is sent out of those not sent yet. *)
LEMMA SentType ==
    ASSUME Typed, Shape, Room, NEW frame \in FrameSet, WellFormed(frame),
           Transmit(frame), Unsent \in Int, Unsent' = Unsent - 1
    PROVE  /\ \A b \in Boards : \A f \in Elems(queue'[b]) : WellFormed(f)
           /\ \A b \in Boards : Len(queue'[b]) + Unsent' <= Frames
<1>1. ASSUME NEW b \in Boards
      PROVE  /\ \A f \in Elems(queue'[b]) : WellFormed(f)
             /\ Len(queue'[b]) + Unsent' <= Frames
<2>1. \A f \in Elems(queue'[b]) : f \in Elems(queue[b]) \/ f = frame
  BY Sent
<2>2. /\ Len(queue'[b]) \in Nat /\ Len(queue[b]) \in Nat
      /\ Len(queue'[b]) <= Len(queue[b]) + 1
  BY Sent
<2>3. Len(queue[b]) + Unsent <= Frames
  BY DEF Room
<2>4. Frames \in Nat
  BY Numbers DEF Frames
<2> QED
  BY <2>1, <2>2, <2>3, <2>4 DEF Shape
<1> QED
  BY <1>1

(* A broadcast is counted, as a setup or as work. *)
LEMMA BroadcastType ==
    ASSUME Typed, Shape, Room, ~Waiting, call' = call,
           NEW field \in {"setups", "works"},
           count' = [count EXCEPT ![field] = @ + 1],
           count'.setups <= MaxSetups, count'.works <= MaxWorks,
           NEW frame \in FrameSet, WellFormed(frame), Transmit(frame)
    PROVE  Shape' /\ Room'
<1>1. ~Waiting'
  BY DEF Waiting
<1>2. /\ count'.calls = count.calls
      /\ \/ /\ count'.setups = count.setups + 1
            /\ count'.works = count.works
         \/ /\ count'.setups = count.setups
            /\ count'.works = count.works + 1
  BY DEF Typed, Counted
<1> DEFINE m == MaxSends * (MaxCalls - count.calls)
           s == count.setups
           w == count.works
<1>3. /\ m \in Int /\ MaxSetups \in Int /\ MaxWorks \in Int
      /\ s \in Int /\ w \in Int
  BY CountTypes, Numbers
<1>4. /\ Unsent = m + (MaxSetups - s) + (MaxWorks - w)
      /\ Unsent' = m + (MaxSetups - count'.setups) + (MaxWorks - count'.works)
<2>1. Unsent = Uncounted + 0 /\ Unsent' = Uncounted' + 0
  BY <1>1 DEF Unsent
<2>2. /\ Uncounted = m + (MaxSetups - s) + (MaxWorks - w)
      /\ Uncounted' = m + (MaxSetups - count'.setups)
                         + (MaxWorks - count'.works)
  BY <1>2 DEF Uncounted
<2> HIDE DEF m, s, w
<2> QED
  BY <1>2, <1>3, <2>1, <2>2 DEF s, w
<1>5. Unsent \in Int /\ Unsent' = Unsent - 1
<2> HIDE DEF m, s, w
<2>1. CASE count'.setups = s + 1 /\ count'.works = w
  BY <1>3, <1>4, <2>1
<2>2. CASE count'.setups = s /\ count'.works = w + 1
  BY <1>3, <1>4, <2>2
<2> QED
  BY <1>2, <2>1, <2>2 DEF s, w
<1> HIDE DEF m, s, w
<1>6. /\ \A c \in Boards : \A f \in Elems(queue'[c]) : WellFormed(f)
      /\ \A c \in Boards : Len(queue'[c]) + Unsent' <= Frames
  BY <1>5, SentType
<1> QED
  BY <1>1, <1>2, <1>6 DEF Shape, Room, WellFormed

LEMMA SetUpType ==
    ASSUME Typed, TypeInv, NEW b \in Boards, NEW id \in UserIds, SetUp(b, id)
    PROVE  TypeInv'
<1> DEFINE frame == BroadcastFrame("setup", Broadcast, b, id, {b})
<1>1. frame \in FrameSet /\ WellFormed(frame)
  BY DEF BroadcastFrame, FrameSet, WellFormed
<1>2. /\ ~Waiting /\ call' = call /\ Transmit(frame)
      /\ count' = [count EXCEPT !["setups"] = @ + 1]
      /\ count.setups < MaxSetups
  BY DEF SetUp
<1> HIDE DEF frame
<1>3. count'.setups <= MaxSetups /\ count'.works <= MaxWorks
  BY <1>2, Numbers DEF Typed, Counted, TypeInv, Room
<1>4. Shape' /\ Room'
  BY <1>1, <1>2, <1>3, BroadcastType DEF TypeInv
<1>5. Plain'
  BY DEF SetUp, boardVars, TypeInv, Plain, Ids
<1> QED
  BY <1>4, <1>5 DEF TypeInv

LEMMA GroupCommandType ==
    ASSUME Typed, TypeInv, NEW g \in Groups, GroupCommand(g)
    PROVE  TypeInv'
<1> DEFINE for == {b \in Boards : <<b, g>> \in mayJoin}
           frame == BroadcastFrame("work", 2 ^ g, NoBoard, 0, for)
<1>1. frame \in FrameSet /\ WellFormed(frame)
  BY DEF BroadcastFrame, FrameSet, WellFormed
<1>2. /\ ~Waiting /\ call' = call /\ Transmit(frame)
      /\ count' = [count EXCEPT !["works"] = @ + 1]
      /\ count.works < MaxWorks
  BY DEF GroupCommand
<1> HIDE DEF frame
<1>3. count'.setups <= MaxSetups /\ count'.works <= MaxWorks
  BY <1>2, Numbers DEF Typed, Counted, TypeInv, Room
<1>4. Shape' /\ Room'
  BY <1>1, <1>2, <1>3, BroadcastType DEF TypeInv
<1>5. Plain'
  BY DEF GroupCommand, boardVars, ghostVars, TypeInv, Plain
<1> QED
  BY <1>4, <1>5 DEF TypeInv

LEMMA CallNodeType ==
    ASSUME Typed, TypeInv, NEW op \in Ops, NEW id \in Ids,
           NEW val \in Groups \cup {0},
           op \in {"add", "clear"} => val \in Groups, CallNode(op, id, val)
    PROVE  TypeInv'
<1>1. /\ ~Waiting /\ count.calls < MaxCalls
      /\ count' = [count EXCEPT !["calls"] = @ + 1]
      /\ call' = [op |-> op, id |-> id, val |-> val, no |-> count'.calls,
                  sends |-> 1]
      /\ Transmit(CommandFrame(call'))
      /\ members' = CASE op = "info" -> [g \in Groups |-> members[g] \ {id}]
                      [] op = "clear" -> [members EXCEPT ![val] = @ \ {id}]
                      [] OTHER -> members
      /\ mayJoin' = IF op = "add" THEN mayJoin \cup (Holders(id) \X {val})
                    ELSE mayJoin
      /\ stale' = CASE op = "info" -> stale \ {id}
                    [] op = "reset" -> stale \cup {id}
                    [] OTHER -> stale
      /\ op = "reset" => serial' = serial /\ serial[id] # NoBoard
      /\ UNCHANGED <<boardVars, used, assigned, handled, unfounded, strays>>
  BY DEF CallNode, Sensible
<1>2. /\ count'.calls = count.calls + 1 /\ count'.setups = count.setups
      /\ count'.works = count.works
  BY <1>1 DEF Typed, Counted
<1>3. Waiting' /\ call' \in Calls /\ call'.id \in Ids
  BY <1>1, <1>2, CountTypes DEF Waiting, Calls
<1>4. CommandFrame(call') \in FrameSet
  BY <1>3, CommandFrames
<1>5. WellFormed(CommandFrame(call'))
  BY <1>1 DEF CommandFrame, WellFormed
<1>10. Unsent \in Int /\ Unsent' = Unsent - 1
<2> DEFINE c == count.calls
           s == count.setups
           w == count.works
           d == MaxCalls - c
<2>1. c \in Int /\ s \in Int /\ w \in Int
  BY CountTypes
<2>2. /\ MaxSends \in Int /\ MaxCalls \in Int /\ MaxSetups \in Int
      /\ MaxWorks \in Int
  BY Numbers
<2>3. Unsent = MaxSends * d + (MaxSetups - s) + (MaxWorks - w) + 0
  BY <1>1 DEF Unsent, Uncounted
<2>4. call'.sends = 1
  BY <1>1
<2>5. Unsent' = MaxSends * (MaxCalls - (c + 1))
                + (MaxSetups - s) + (MaxWorks - w) + (MaxSends - 1)
  BY <1>2, <1>3, <2>4 DEF Unsent, Uncounted
<2> HIDE DEF c, s, w
<2>6. d \in Int /\ MaxCalls - (c + 1) = d - 1
  BY <2>1, <2>2
<2> HIDE DEF d
<2>7. MaxSends * d \in Int /\ MaxSends * (d - 1) = MaxSends * d - MaxSends
  BY <2>2, <2>6
<2> DEFINE p == MaxSends * d
<2>8. p \in Int /\ Unsent = p + (MaxSetups - s) + (MaxWorks - w) + 0
  BY <2>3, <2>7
<2>9. Unsent' = (p - MaxSends)
                + (MaxSetups - s) + (MaxWorks - w) + (MaxSends - 1)
  BY <2>5, <2>6, <2>7
<2> HIDE DEF p
<2> QED
  BY <2>1, <2>2, <2>8, <2>9
<1>11. /\ \A c \in Boards : \A f \in Elems(queue'[c]) : WellFormed(f)
       /\ \A c \in Boards : Len(queue'[c]) + Unsent' <= Frames
  BY <1>1, <1>4, <1>5, <1>10, SentType DEF TypeInv
<1>12. Shape'
  BY <1>1, <1>3, <1>11 DEF Shape, WellFormed
<1>13. Room'
  BY <1>1, <1>2, <1>11, CountTypes, Numbers DEF TypeInv, Room
<1>14. Plain'
<2>1. Holders(id) \subseteq Boards
  BY DEF Holders
<2>2. members' \in [Groups -> SUBSET Ids]
  BY <1>1 DEF TypeInv, Plain
<2>3. stale' \subseteq Ids
  BY <1>1 DEF TypeInv, Plain
<2>4. mayJoin' \subseteq Boards \X Groups
  BY <1>1, <2>1 DEF TypeInv, Plain
<2> QED
  BY <1>1, <2>2, <2>3, <2>4 DEF boardVars, TypeInv, Plain
<1> QED
  BY <1>12, <1>13, <1>14 DEF TypeInv
LEMMA UncountedType ==
    ASSUME Typed PROVE Uncounted \in Int
<1> DEFINE d == MaxCalls - count.calls
<1>1. /\ d \in Int /\ MaxSends \in Int
      /\ MaxSetups - count.setups \in Int /\ MaxWorks - count.works \in Int
  BY CountTypes, Numbers
<1>2. Uncounted = MaxSends * d
                 + (MaxSetups - count.setups) + (MaxWorks - count.works)
  BY DEF Uncounted
<1> HIDE DEF d
<1>3. MaxSends * d \in Int
  BY <1>1
<1> QED
  BY <1>1, <1>2, <1>3

LEMMA SendAgainType ==
    ASSUME Typed, TypeInv, SendAgain
    PROVE  TypeInv'
<1>1. /\ Waiting /\ call.sends < MaxSends
      /\ call' = [call EXCEPT !.sends = @ + 1]
      /\ Transmit(CommandFrame(call)) /\ UNCHANGED <<count, serial>>
  BY DEF SendAgain
<1>2. call \in Calls /\ call.id \in Ids
  BY <1>1 DEF Typed
<1>3. /\ call' \in Calls /\ call'.sends = call.sends + 1 /\ Waiting'
      /\ call'.op = call.op /\ call'.val = call.val /\ call'.id = call.id
  BY <1>1, <1>2 DEF Calls, Waiting
<1>4. CommandFrame(call) \in FrameSet
  BY <1>2, CommandFrames
<1>5. WellFormed(CommandFrame(call))
  BY <1>1, <1>2 DEF CommandFrame, WellFormed, TypeInv, Shape
<1>6. Uncounted' = Uncounted /\ Uncounted \in Int
  BY <1>1, UncountedType DEF Uncounted
<1>7. /\ Unsent = Uncounted + (MaxSends - call.sends)
      /\ Unsent' = Uncounted + (MaxSends - (call.sends + 1))
  BY <1>1, <1>3, <1>6 DEF Unsent
<1>8. Unsent \in Int /\ Unsent' = Unsent - 1
  BY <1>6, <1>7, CountTypes, Numbers
<1>9. /\ \A c \in Boards : \A f \in Elems(queue'[c]) : WellFormed(f)
      /\ \A c \in Boards : Len(queue'[c]) + Unsent' <= Frames
  BY <1>1, <1>4, <1>5, <1>8, SentType DEF TypeInv
<1>10. Shape'
  BY <1>1, <1>3, <1>9 DEF TypeInv, Shape, WellFormed
<1>11. Room'
  BY <1>1, <1>3, <1>9, CountTypes, Numbers DEF TypeInv, Room
<1>12. Plain'
  BY DEF SendAgain, boardVars, ghostVars, TypeInv, Plain
<1> QED
  BY <1>10, <1>11, <1>12 DEF TypeInv

(* No frame is sent. *)
LEMMA SilentType ==
    ASSUME Typed, Shape, Room,
           \/ queue' = queue
           \/ \E b \in Boards :
                 \/ queue' = [queue EXCEPT ![b] = <<>>]
                 \/ queue[b] # <<>> /\ queue' = [queue EXCEPT ![b] = Tail(@)],
           count' = count \/ count' = [count EXCEPT !["reboots"] = @ + 1],
           (call' = call /\ serial' = serial) \/ call' = NoCall
    PROVE  Shape' /\ Room'
<1>1. /\ count'.calls = count.calls /\ count'.setups = count.setups
      /\ count'.works = count.works
  BY DEF Typed, Counted
<1>2. Uncounted' = Uncounted /\ Uncounted \in Int
  BY <1>1, UncountedType DEF Uncounted
<1>3. /\ Unsent' \in Int /\ Unsent \in Int /\ Unsent' <= Unsent
      /\ call'.sends <= MaxSends
  BY <1>2, CountTypes, Numbers DEF Unsent, Waiting, NoCall, Room
<1>4. \A c \in Boards : /\ Elems(queue'[c]) \subseteq Elems(queue[c])
                        /\ Len(queue'[c]) \in Nat /\ Len(queue[c]) \in Nat
                        /\ Len(queue'[c]) <= Len(queue[c])
  BY Shrunk
<1>5. \A c \in Boards : Len(queue'[c]) + Unsent' <= Frames
<2>1. ASSUME NEW c \in Boards PROVE Len(queue'[c]) + Unsent' <= Frames
<3>1. Len(queue[c]) + Unsent <= Frames /\ Frames \in Nat
  BY Numbers DEF Room, Frames
<3> QED
  BY <1>3, <1>4, <3>1
<2> QED
  BY <2>1
<1>6. Shape'
<2>1. \A c \in Boards : \A f \in Elems(queue'[c]) : WellFormed(f)
  BY <1>4 DEF Shape
<2>2. Waiting' => Waiting /\ UNCHANGED <<call, serial>>
  BY DEF Waiting, NoCall
<2> QED
  BY <2>1, <2>2 DEF Shape, WellFormed
<1>7. Room'
  BY <1>1, <1>3, <1>5 DEF Room
<1> QED
  BY <1>6, <1>7

LEMMA HostWaitsType ==
    ASSUME Typed, TypeInv, Typed', NEW a,
           GiveUp \/ IgnoreAnswer(a) \/ ReceiveAnswer(a)
    PROVE  TypeInv'
<1>1. /\ queue' = queue /\ count' = count
      /\ (call' = call /\ serial' = serial) \/ call' = NoCall
  BY DEF GiveUp, IgnoreAnswer, ReceiveAnswer, EndCall, hostVars
<1>2. Shape' /\ Room'
  BY <1>1, SilentType DEF TypeInv
<1> USE DEF Plain, boardVars, hostVars, ghostVars
<1>3. CASE GiveUp
  BY <1>2, <1>3 DEF GiveUp, EndCall, TypeInv
<1>4. CASE IgnoreAnswer(a)
  BY <1>2, <1>4 DEF IgnoreAnswer, TypeInv
<1>5. CASE ReceiveAnswer(a)
<2>1. Waiting /\ call.id \in Ids
  BY <1>5 DEF ReceiveAnswer, IsReply, Typed
<2>2. call.op = "add" => call.val \in Groups
  BY <2>1 DEF TypeInv, Shape
<2>3. members' \in [Groups -> SUBSET Ids] /\ used' \subseteq Groups
  BY <1>5, <2>1, <2>2 DEF ReceiveAnswer, TypeInv
<2>4. call.op = "reset" => Unassigned(serial[call.id]) \subseteq Boards \X Ids
<3>1. call.op = "reset" => serial[call.id] \in Boards
  BY <2>1 DEF Typed, TypeInv, Shape
<3> QED
  BY <3>1, BootTypes DEF Unassigned, TypeInv
<2>5. assigned' \subseteq Boards \X Ids /\ mayJoin' \subseteq Boards \X Groups
  BY <1>5, <2>4 DEF ReceiveAnswer, TypeInv
<2> QED
  BY <1>2, <1>5, <2>3, <2>5 DEF ReceiveAnswer, EndCall, TypeInv
<1> QED
  BY <1>3, <1>4, <1>5

LEMMA ServeType ==
    ASSUME Typed, NEW b \in Boards, Poll(b), Shape
    PROVE  /\ queue[b] # <<>> /\ queue' = [queue EXCEPT ![b] = Tail(@)]
           /\ count' = count /\ call' = call /\ serial' = serial
           /\ Head(queue[b]) \in Elems(queue[b]) /\ WellFormed(Head(queue[b]))
           /\ UNCHANGED <<members, used, assigned, mayJoin, stale, unfounded>>
<1>1. /\ queue[b] # <<>> /\ queue' = [queue EXCEPT ![b] = Tail(@)]
      /\ count' = count /\ call' = call /\ serial' = serial
      /\ UNCHANGED <<members, used, assigned, mayJoin, stale, unfounded>>
  BY DEF Poll, hostVars, ghostVars
<1>2. Head(queue[b]) \in Elems(queue[b])
  BY <1>1, Served
<1> QED
  BY <1>1, <1>2 DEF Shape

LEMMA BoardStepType ==
    ASSUME Typed, TypeInv, NEW b \in Boards, BoardStep(b)
    PROVE  TypeInv'
<1>1. CASE Boot(b)
<2>1. UNCHANGED <<node, ip, port, groups, queue, hostVars, ghostVars, handled,
                  unfounded, strays>>
  BY <1>1 DEF Boot
<2>2. stage' \in [Boards -> Stages]
  BY <1>1 DEF Boot, Become, TypeInv, Plain, Stages
<2>3. Plain'
  BY <2>1, <2>2 DEF TypeInv, Plain, hostVars, ghostVars
<2>4. Shape' /\ Room'
  BY <2>1, SilentType DEF TypeInv, hostVars
<2> QED
  BY <2>3, <2>4 DEF TypeInv
<1>2. CASE Reboot(b)
<2>1. Shape' /\ Room'
<3>1. /\ queue' = [queue EXCEPT ![b] = <<>>] /\ UNCHANGED <<call, serial>>
      /\ count' = [count EXCEPT !["reboots"] = @ + 1]
  BY <1>2 DEF Reboot
<3> QED
  BY <3>1, SilentType DEF TypeInv
<2>2. /\ stage' \in [Boards -> Stages]
      /\ node' \in [Boards -> Ids \cup {Broadcast}]
      /\ ip' \in [Boards -> {id + 1 : id \in Ids} \cup {0, Mac}]
      /\ port' \in [Boards -> {0} \cup UserIds]
      /\ groups' \in [Boards -> SUBSET Groups]
  BY <1>2, BootTypes DEF Reboot, Become, TypeInv, Plain, Stages
<2>3. assigned' \subseteq Boards \X Ids /\ stale' \subseteq Ids
  BY <1>2, BootTypes DEF Reboot, Unassigned, TypeInv, Plain
<2>4. Plain'
  BY <1>2, <2>2, <2>3 DEF Reboot, TypeInv, Plain
<2> QED
  BY <2>1, <2>4 DEF TypeInv
<1>3. CASE Poll(b) /\ Plain'
<2>1. Shape' /\ Room'
  BY <1>3, ServeType, SilentType DEF TypeInv
<2> QED
  BY <1>3, <2>1 DEF TypeInv
<1>4. ASSUME Poll(b), \/ UNCHANGED <<handled, strays>>
                      \/ \E ops : CarryOut(b, ops),
             stage' \in [Boards -> Stages],
             node' \in [Boards -> Ids \cup {Broadcast}],
             ip' \in [Boards -> {id + 1 : id \in Ids} \cup {0, Mac}],
             port' \in [Boards -> {0} \cup UserIds],
             groups' \in [Boards -> SUBSET Groups]
      PROVE  Plain'
<2>1. /\ handled' \in BOOLEAN
      /\ strays' \subseteq Boards
  BY <1>4 DEF CarryOut, TypeInv, Plain
<2> QED
  BY <1>4, <2>1, ServeType DEF TypeInv, Plain
<1>5. CASE \/ Ignore(b) \/ ConfigSetupIgnored(b) \/ Info(b) \/ Work(b)
<2>1. /\ Poll(b) /\ UNCHANGED boardVars
      /\ UNCHANGED <<handled, strays>> \/ \E ops : CarryOut(b, ops)
  BY <1>5 DEF Ignore, ConfigSetupIgnored, Info, Work, CarryOut
<2> QED
  BY <1>3, <1>4, <2>1 DEF boardVars, TypeInv, Plain
<1>6. CASE Initialize(b)
<2>1. /\ Poll(b) /\ \E ops : CarryOut(b, ops)
      /\ UNCHANGED <<node, ip, port, groups>>
  BY <1>6 DEF Initialize, CarryOut
<2>2. stage' \in [Boards -> Stages]
  BY <1>6 DEF Initialize, Become, TypeInv, Plain, Stages
<2> QED
  BY <1>3, <1>4, <2>1, <2>2 DEF TypeInv, Plain
<1>7. CASE ConfigSetup(b)
<2>1. /\ Poll(b) /\ \E ops : CarryOut(b, ops) /\ Head(queue[b]).op = "setup"
      /\ UNCHANGED <<stage, groups>>
  BY <1>7 DEF ConfigSetup, CarryOut
<2>2. Head(queue[b]).val \in UserIds
  BY <2>1, ServeType DEF WellFormed, Ops, TypeInv
<2>3. /\ node' \in [Boards -> Ids \cup {Broadcast}]
      /\ ip' \in [Boards -> {id + 1 : id \in Ids} \cup {0, Mac}]
      /\ port' \in [Boards -> {0} \cup UserIds]
  BY <1>7, <2>2 DEF ConfigSetup, TypeInv, Plain, Ids
<2> QED
  BY <1>3, <1>4, <2>1, <2>3 DEF TypeInv, Plain
<1>8. CASE ConfigReset(b)
<2>1. /\ Poll(b) /\ \E ops : CarryOut(b, ops)
      /\ UNCHANGED <<stage, groups>>
  BY <1>8 DEF ConfigReset, CarryOut
<2>2. /\ node' \in [Boards -> Ids \cup {Broadcast}]
      /\ ip' \in [Boards -> {id + 1 : id \in Ids} \cup {0, Mac}]
      /\ port' \in [Boards -> {0} \cup UserIds]
  BY <1>8 DEF ConfigReset, TypeInv, Plain
<2> QED
  BY <1>3, <1>4, <2>1, <2>2 DEF TypeInv, Plain
<1>9. CASE GroupIdAdd(b) \/ GroupIdClear(b)
<2>1. /\ Poll(b) /\ Head(queue[b]).op \in {"add", "clear"}
      /\ \E ops : CarryOut(b, ops)
      /\ UNCHANGED <<stage, node, ip, port>>
  BY <1>9 DEF GroupIdAdd, GroupIdClear, CarryOut
<2>2. Head(queue[b]).val \in Groups
  BY <2>1, ServeType DEF WellFormed, TypeInv
<2>3. groups' \in [Boards -> SUBSET Groups]
  BY <1>9, <2>2 DEF GroupIdAdd, GroupIdClear, TypeInv, Plain
<2> QED
  BY <1>3, <1>4, <2>1, <2>3 DEF TypeInv, Plain
<1> QED
  BY <1>1, <1>2, <1>5, <1>6, <1>7, <1>8, <1>9 DEF BoardStep

THEOREM TypeInvariant == Spec => []TypeInv
<1>1. Typed /\ Typed' /\ TypeInv /\ [Next]_vars => TypeInv'
<2> SUFFICES ASSUME Typed, Typed', TypeInv, [Next]_vars PROVE TypeInv'
  OBVIOUS
<2>1. ASSUME NEW b \in Boards, NEW id \in UserIds, SetUp(b, id) PROVE TypeInv'
  BY <2>1, SetUpType
<2>2. ASSUME NEW g \in Groups, GroupCommand(g) PROVE TypeInv'
  BY <2>2, GroupCommandType
<2>3. CASE CallAny
<3>1. PICK op \in Ops, id \in Ids :
          \E val \in IF op \in {"add", "clear"} THEN Groups ELSE {0} :
              CallNode(op, id, val)
  BY <2>3 DEF CallAny
<3>2. PICK val \in Groups \cup {0} :
          /\ op \in {"add", "clear"} => val \in Groups
          /\ CallNode(op, id, val)
  BY <3>1
<3> QED
  BY <3>2, CallNodeType
<2>4. CASE SendAgain
  BY <2>4, SendAgainType
<2>5. CASE GiveUp
  BY <2>5, HostWaitsType
<2>6. ASSUME NEW a \in answers, IgnoreAnswer(a) \/ ReceiveAnswer(a)
      PROVE  TypeInv'
  BY <2>6, HostWaitsType
<2>7. ASSUME NEW b \in Boards, BoardStep(b) PROVE TypeInv'
  BY <2>7, BoardStepType
<2>8. CASE UNCHANGED vars
<3>1. /\ UNCHANGED <<stage, node, ip, port, groups, queue, call, count, serial,
                     members, used, assigned, mayJoin, stale, handled,
                     unfounded, strays>>
  BY <2>8 DEF vars, boardVars, hostVars, ghostVars
<3>2. Plain'
  BY <3>1 DEF TypeInv, Plain
<3>3. Shape' /\ Room'
  BY <3>1, SilentType DEF TypeInv
<3> QED
  BY <3>2, <3>3 DEF TypeInv
<2> QED
  BY <2>1, <2>2, <2>3, <2>4, <2>5, <2>6, <2>7, <2>8 DEF Next, HostStep
<1>2. DoneInv => Typed
  BY DEF DoneInv
<1> QED
  BY <1>1, <1>2, InitType, DoneInvariant, PTL DEF Spec

(* Every variable keeps its type, and a board never has more frames queued *)
(* than the host has sent: what TypeOK says for the bounds of a run holds  *)
(* for any bounds.                                                         *)
THEOREM TypeCorrect == Spec => []TypeOK
<1>1. DoneInv /\ TypeInv => TypeOK
<2> SUFFICES ASSUME DoneInv, TypeInv PROVE TypeOK
  OBVIOUS
<2>1. Typed
  BY DEF DoneInv
<2>2. Unsent >= 0 /\ Unsent \in Int
<3> DEFINE d == MaxCalls - count.calls
<3> DEFINE c == count.calls
           s == count.setups
           w == count.works
           n == call.sends
<3>0. /\ c \in Nat /\ s \in Nat /\ w \in Nat /\ n \in Nat
      /\ c <= MaxCalls /\ s <= MaxSetups /\ w <= MaxWorks /\ n <= MaxSends
  BY <2>1, CountTypes DEF TypeInv, Room
<3>1. /\ d \in Nat /\ MaxSends \in Nat /\ MaxSetups - count.setups \in Nat
      /\ MaxWorks - count.works \in Nat
      /\ (IF Waiting THEN MaxSends - call.sends ELSE 0) \in Nat
<4> HIDE DEF c, s, w, n
<4>1. /\ MaxCalls - c \in Nat /\ MaxSends \in Nat /\ MaxSetups - s \in Nat
      /\ MaxWorks - w \in Nat /\ MaxSends - n \in Nat
  BY <3>0, Numbers
<4> QED
  BY <4>1 DEF c, s, w, n
<3>2. Unsent = MaxSends * d + (MaxSetups - count.setups)
               + (MaxWorks - count.works)
               + (IF Waiting THEN MaxSends - call.sends ELSE 0)
  BY DEF Unsent, Uncounted
<3> HIDE DEF d
<3>3. MaxSends * d \in Nat
  BY <3>1
<3> QED
  BY <3>1, <3>2, <3>3
<2>3. \A b \in Boards : Len(queue[b]) <= Frames
<3>1. ASSUME NEW b \in Boards PROVE Len(queue[b]) <= Frames
<4>1. /\ Len(queue[b]) + Unsent <= Frames /\ Len(queue[b]) \in Nat
      /\ Frames \in Nat
  BY <2>1, CountTypes, Numbers DEF TypeInv, Room, Frames
<4> QED
  BY <2>2, <4>1
<3> QED
  BY <3>1
<2>4. call.op \in Ops \cup {"none"} /\ call.sends \in 0 .. MaxSends
  BY <2>1, CountTypes, Numbers DEF Typed, Calls, TypeInv, Room
<2>5. \A a \in answers : a.no <= MaxCalls /\ a.board \in Boards
  BY <2>1, CountTypes, Numbers DEF DoneInv, Typed, Numbered, TypeInv, Room
<2> QED
  BY <2>1, <2>3, <2>4, <2>5 DEF TypeOK, Typed, TypeInv, Plain
<1> QED
  BY <1>1, DoneInvariant, TypeInvariant, PTL

-----------------------------------------------------------------------------
(***************************************************************************)
(* What the host knows of the boards, and for whom a frame is; under the   *)
(* conditions of Ordinary.                                                 *)
(***************************************************************************)

(* A board that has been set up has the address that goes with its ID. *)
Addressed ==
    \A b \in Boards : IF node[b] = Broadcast THEN ip[b] \in {0, Mac}
                      ELSE node[b] \in Ids /\ ip[b] = node[b] + 1

(* A board has no ID, and is going to get none, but those it was given; no *)
(* two boards were given the same one.                                     *)
Known ==
    /\ \A b \in Boards : OwnId(b) \subseteq assigned
    /\ \A b \in Boards : node[b] # Broadcast => <<b, node[b]>> \in assigned
    /\ \A b \in Boards : \A f \in Elems(queue[b]) :
           f.op = "setup" /\ f.board = b => <<b, f.val>> \in assigned
    /\ \A id \in Ids : \A b, c \in Boards :
           <<b, id>> \in assigned /\ <<c, id>> \in assigned => b = c

(* A command is queued only at boards it is for; a group command also at   *)
(* others, but these are in no such group when they come to look at it.    *)
Meant ==
    \A b \in Boards : \A f \in Elems(queue[b]) :
        /\ f.op \in Ops => b \in f.for
        /\ \A g \in Groups :
              /\ f.op = "work" /\ f.dest = 2 ^ g
              /\ \/ g \in groups[b]
                 \/ \E e \in Elems(queue[b]) :
                       /\ Before(queue[b], e, f)
                       /\ e.op = "add" /\ e.val = g
              => b \in f.for

(* A board joins no group but those it was told to. *)
Joined ==
    /\ \A b \in Boards : \A g \in groups[b] : <<b, g>> \in mayJoin
    /\ \A b \in Boards : \A f \in Elems(queue[b]) :
           f.op = "add" => <<b, f.val>> \in mayJoin
    /\ Waiting /\ call.op = "add" =>
           \A b \in Holders(call.id) : <<b, call.val>> \in mayJoin

(* Frames of the current call are copies of one command, and come last. *)
Ordered ==
    Waiting =>
        \A b \in Boards :
            /\ \A f \in Elems(queue[b]) :
                  f.no = call.no =>
                      /\ f.op = call.op /\ f.dest = call.id
                      /\ f.val = call.val
                      /\ call.op = "reset" => f.board = serial[call.id]
            /\ \A e, f : /\ Before(queue[b], e, f)
                         /\ e.no = call.no
                         => f.no = call.no

(* The node that is reset is the one the host has found. *)
Target ==
    Waiting /\ call.op = "reset" =>
        /\ call.id \in stale
        /\ serial[call.id] # NoBoard
        /\ Holders(call.id) \subseteq {serial[call.id]}

(* Board b has carried out the current call, and has left all earlier      *)
(* frames behind it.                                                       *)
CarriedOut(b) ==
    /\ \A f \in Elems(queue[b]) : f.no = call.no
    /\ Holders(call.id) \subseteq {b}
    /\ call.op = "reset" =>
           b = serial[call.id] /\ node[b] \in {Broadcast, BootNode(b)}
    /\ call.op = "clear" => call.val \notin groups[b]
    /\ call.op # "reset" =>
           \/ call.id \in stale
           \/ /\ node[b] = call.id /\ port[b] = StartingPort
              /\ call.op = "add" => call.val \in groups[b]

Answered ==
    \A a \in answers : Waiting /\ a.no = call.no => CarriedOut(a.board)

(* Board b is as the host has found node id, and no frame will change it. *)
AsFound(id, b) ==
    /\ node[b] = id /\ port[b] = StartingPort
    /\ \A g \in Groups : id \in members[g] => g \in groups[b]
    /\ \A f \in Elems(queue[b]) :
           /\ f.op = "clear" => id \notin members[f.val]
           /\ ~(f.op = "reset" /\ f.board = b)

Found ==
    /\ \A id \in Ids \ stale : \A b \in Boards :
           serial[id] = b => AsFound(id, b)
    /\ Waiting /\ call.op = "info" =>
           \A g \in Groups : call.id \notin members[g]
    /\ Waiting /\ call.op = "clear" => call.id \notin members[call.val]

HostInv ==
    /\ Addressed /\ Known /\ Meant /\ Joined
    /\ Ordered /\ Target /\ Answered /\ Found
    /\ OnlyAddressed

-----------------------------------------------------------------------------
LEMMA IdRange == Ids \subseteq 0 .. 254 /\ Broadcast \notin Ids
<1>1. \A b \in Boards : Dip[b] \in 0 .. 15
  BY NodeAssumption DEF AllOn
<1>2. ASSUME NEW id \in Ids PROVE id \in 0 .. 254
<2>1. CASE id \in UserIds
  BY <2>1, NodeAssumption
<2>2. CASE id \notin UserIds
<3>1. PICK b \in Boards : id = Dip[b]
  BY <2>2 DEF Ids
<3> QED
  BY <1>1, <3>1
<2> QED
  BY <2>1, <2>2
<1> QED
  BY <1>2 DEF Broadcast

(* The board with the address of a node is the one that has its ID. *)
LEMMA AtAddress ==
    ASSUME Addressed, Known, NEW b \in Boards, NEW id \in Ids, ip[b] = id + 1
    PROVE  node[b] = id /\ b \in Holders(id) /\ Holders(id) \subseteq {b}
<1>1. id \in 0 .. 254 /\ id + 1 # 0 /\ id + 1 # 256
  BY IdRange
<1>2. node[b] # Broadcast /\ node[b] \in Ids /\ ip[b] = node[b] + 1
  BY <1>1 DEF Addressed, Mac
<1>3. node[b] \in 0 .. 254
  BY <1>2, IdRange
<1>4. node[b] = id
  BY <1>1, <1>2, <1>3
<1> QED
  BY <1>2, <1>4 DEF Known, Holders

(* So a command sent reaches nobody else. *)
LEMMA ReachesHolder ==
    ASSUME Addressable, Addressed, Known, NEW c, c.id \in Ids,
           NEW b \in Boards, Hears(b, CommandFrame(c))
    PROVE  /\ node[b] = c.id /\ b \in Holders(c.id)
           /\ Holders(c.id) \subseteq {b}
<1>1. c.id + 1 \in {All, ip[b]}
  BY DEF Hears, CommandFrame
<1>2. \A id \in Ids : id \in 0 .. 254 /\ id # 254
  BY IdRange DEF Addressable
<1>3. \A id \in Ids : id + 1 # All
  BY <1>2 DEF All
<1> QED
  BY <1>1, <1>3, AtAddress

LEMMA InitHost == Distinct /\ Init => HostInv
<1> SUFFICES ASSUME Distinct, Init PROVE HostInv
  OBVIOUS
<1>1. /\ ~Waiting
      /\ \A b \in Boards : /\ Elems(queue[b]) = {} /\ groups[b] = {}
                           /\ node[b] = BootNode(b) /\ ip[b] = BootIp(b)
  BY EmptyQueue DEF Init, Waiting, NoCall
<1>2. Addressed
<2>1. ASSUME NEW b \in Boards
      PROVE  IF node[b] = Broadcast THEN ip[b] \in {0, Mac}
             ELSE node[b] \in Ids /\ ip[b] = node[b] + 1
<3>1. CASE Dip[b] = AllOn
  BY <1>1, <3>1 DEF BootNode, BootIp
<3>2. CASE Dip[b] # AllOn
<4>1. Dip[b] \in Ids
  BY <3>2 DEF Ids
<4> QED
  BY <1>1, <3>2, <4>1, IdRange DEF BootNode, BootIp
<3> QED
  BY <3>1, <3>2
<2> QED
  BY <2>1 DEF Addressed
<1>3. Known
<2>1. assigned = UNION {OwnId(b) : b \in Boards}
  BY DEF Init
<2>2. \A b \in Boards : OwnId(b) \subseteq assigned
  BY <2>1
<2>3. \A b \in Boards : node[b] # Broadcast => <<b, node[b]>> \in assigned
  BY <1>1, <2>2 DEF BootNode, OwnId
<2>4. ASSUME NEW id \in Ids, NEW b \in Boards, NEW c \in Boards,
             <<b, id>> \in assigned, <<c, id>> \in assigned
      PROVE  b = c
<3>1. PICK x \in Boards : <<b, id>> \in OwnId(x)
  BY <2>1, <2>4
<3>2. PICK y \in Boards : <<c, id>> \in OwnId(y)
  BY <2>1, <2>4
<3>3. b = x /\ Dip[b] = id /\ Dip[b] # AllOn
  BY <3>1 DEF OwnId
<3>4. c = y /\ Dip[c] = id
  BY <3>2 DEF OwnId
<3> QED
  BY <3>3, <3>4 DEF Distinct
<2> QED
  BY <1>1, <2>2, <2>3, <2>4 DEF Known
<1>4. Meant /\ Joined /\ Ordered /\ Target
  BY <1>1 DEF Meant, Joined, Ordered, Target
<1>5. Answered /\ Found /\ OnlyAddressed
  BY <1>1, NodeAssumption DEF Init, Answered, Found, OnlyAddressed
<1> QED
  BY <1>2, <1>3, <1>4, <1>5 DEF HostInv

-----------------------------------------------------------------------------
(* The ID of a group has one bit.  (The prover computes with the values of *)
(* a function where it does not with powers.)                              *)
Power == [k \in 0 .. 15 |-> 2 ^ k]

LEMMA Powers ==
    /\ Power[0] = 1 /\ Power[1] = 2 /\ Power[2] = 4 /\ Power[3] = 8
    /\ Power[4] = 16 /\ Power[5] = 32 /\ Power[6] = 64 /\ Power[7] = 128
    /\ Power[8] = 256 /\ Power[9] = 512 /\ Power[10] = 1024
    /\ Power[11] = 2048 /\ Power[12] = 4096 /\ Power[13] = 8192
    /\ Power[14] = 16384 /\ Power[15] = 32768
<1>1. /\ 2 ^ 0 = 1 /\ 2 ^ 1 = 2 /\ 2 ^ 2 = 4 /\ 2 ^ 3 = 8
      /\ 2 ^ 4 = 16 /\ 2 ^ 5 = 32 /\ 2 ^ 6 = 64 /\ 2 ^ 7 = 128
  OBVIOUS
<1>2. /\ 2 ^ 8 = 256 /\ 2 ^ 9 = 512 /\ 2 ^ 10 = 1024 /\ 2 ^ 11 = 2048
      /\ 2 ^ 12 = 4096 /\ 2 ^ 13 = 8192 /\ 2 ^ 14 = 16384 /\ 2 ^ 15 = 32768
  OBVIOUS
<1> QED
  BY <1>1, <1>2 DEF Power

LEMMA LowQuotients ==
    \A g, k \in 0 .. 7 : (Power[g] \div Power[k]) % 2 = 1 <=> g = k
<1>1. ASSUME NEW g \in 0 .. 7
      PROVE  \A k \in 0 .. 7 : (Power[g] \div Power[k]) % 2 = 1 <=> g = k
<2>1. CASE g = 0
  BY <2>1, Powers
<2>2. CASE g = 1
  BY <2>2, Powers
<2>3. CASE g = 2
  BY <2>3, Powers
<2>4. CASE g = 3
  BY <2>4, Powers
<2>5. CASE g = 4
  BY <2>5, Powers
<2>6. CASE g = 5
  BY <2>6, Powers
<2>7. CASE g = 6
  BY <2>7, Powers
<2>8. CASE g = 7
  BY <2>8, Powers
<2> QED
  BY <2>1, <2>2, <2>3, <2>4, <2>5, <2>6, <2>7, <2>8
<1> QED
  BY <1>1

LEMMA HighQuotients ==
    \A n \in 0 .. 255 : \A k \in 8 .. 15 : n \div Power[k] = 0
<1>1. \A k \in 8 .. 15 : Power[k] \in Nat /\ Power[k] > 255
  BY Powers
<1>2. \A n \in 0 .. 255 : \A d \in Nat : d > 255 => n \div d = 0
  OBVIOUS
<1> QED
  BY <1>1, <1>2

LEMMA GroupBits ==
    ASSUME NEW g \in Groups
    PROVE  Bits(2 ^ g) = {g} /\ g \in 0 .. 7 /\ 2 ^ g # Broadcast
<1>1. g \in 0 .. 7
  BY NodeAssumption
<1>2. 2 ^ g = Power[g]
  BY <1>1 DEF Power
<1>3. Power[g] \in 0 .. 255
  BY <1>1, Powers
<1>4. ASSUME NEW k \in 0 .. 15
      PROVE  (Power[g] \div Power[k]) % 2 = 1 <=> k = g
<2>1. CASE k \in 0 .. 7
  BY <1>1, <2>1, LowQuotients
<2>2. CASE k \in 8 .. 15
<3>1. Power[g] \div Power[k] = 0
  BY <1>3, <2>2, HighQuotients
<3> QED
  BY <1>1, <2>2, <3>1
<2> QED
  BY <2>1, <2>2
<1>5. Bits(2 ^ g) = {k \in 0 .. 15 : (Power[g] \div Power[k]) % 2 = 1}
  BY <1>2 DEF Bits, Power
<1> QED
  BY <1>1, <1>2, <1>3, <1>4, <1>5 DEF Broadcast

-----------------------------------------------------------------------------
(* The host. *)

LEMMA MeantSent ==
    ASSUME Typed, Meant, NEW frame \in FrameSet, Transmit(frame),
           groups' = groups,
           \A b \in Boards :
               Hears(b, frame) /\ frame.op \in Ops => b \in frame.for,
           \A b \in Boards, g \in Groups :
               /\ frame.op = "work" /\ frame.dest = 2 ^ g
               /\ \/ g \in groups[b]
                  \/ \E e \in Elems(queue[b]) : e.op = "add" /\ e.val = g
               => b \in frame.for
    PROVE  Meant'
<1>1. ASSUME NEW b \in Boards, NEW f \in Elems(queue'[b])
      PROVE  /\ f.op \in Ops => b \in f.for
             /\ \A g \in Groups :
                   /\ f.op = "work" /\ f.dest = 2 ^ g
                   /\ \/ g \in groups'[b]
                      \/ \E e \in Elems(queue'[b]) :
                            /\ Before(queue'[b], e, f)
                            /\ e.op = "add" /\ e.val = g
                   => b \in f.for
<2>1. /\ f \in Elems(queue[b]) \/ (f = frame /\ Hears(b, frame))
      /\ \A e : Before(queue'[b], e, f) =>
             Before(queue[b], e, f) \/ (e \in Elems(queue[b]) /\ f = frame)
  BY Sent
<2>2. \A e : Before(queue'[b], e, f) => e \in Elems(queue[b])
  BY <2>1, BeforeElems
<2>3. f.op \in Ops => b \in f.for
  BY <2>1 DEF Meant
<2>4. ASSUME NEW g \in Groups, f.op = "work", f.dest = 2 ^ g,
             \/ g \in groups[b]
             \/ \E e \in Elems(queue'[b]) :
                   Before(queue'[b], e, f) /\ e.op = "add" /\ e.val = g
      PROVE  b \in f.for
<3>1. CASE f = frame
  BY <2>2, <2>4, <3>1
<3>2. CASE f # frame
  BY <2>1, <2>2, <2>4, <3>2 DEF Meant
<3> QED
  BY <3>1, <3>2
<2> QED
  BY <2>3, <2>4
<1> QED
  BY <1>1 DEF Meant

LEMMA SetUpHost ==
    ASSUME Typed, TypeInv, HostInv,
           NEW b \in Boards, NEW id \in UserIds, SetUp(b, id)
    PROVE  HostInv'
<1> USE DEF HostInv
<1> DEFINE frame == BroadcastFrame("setup", Broadcast, b, id, {b})
<1>1. frame \in FrameSet /\ frame.op = "setup" /\ frame.board = b
      /\ frame.val = id
  BY DEF BroadcastFrame, FrameSet
<1>2. /\ ~Waiting /\ ~Waiting' /\ Transmit(frame)
      /\ Holders(id) \subseteq {b} /\ assigned' = assigned \cup {<<b, id>>}
      /\ UNCHANGED <<node, ip, port, groups, serial, members, mayJoin, stale,
                     answers, strays>>
  BY DEF SetUp, Waiting, boardVars
<1> HIDE DEF frame
<1>3. ASSUME NEW c \in Boards
      PROVE  /\ \A f \in Elems(queue'[c]) : f \in Elems(queue[c]) \/ f = frame
             /\ \A e, f : Before(queue'[c], e, f) =>
                    Before(queue[c], e, f) \/ f = frame
  BY <1>1, <1>2, Sent
<1>4. Addressed'
  BY <1>2 DEF Addressed
<1>5. Known'
<2>1. \A c \in Boards : OwnId(c) \subseteq assigned'
  BY <1>2 DEF Known
<2>2. \A c \in Boards : node'[c] # Broadcast => <<c, node'[c]>> \in assigned'
  BY <1>2 DEF Known
<2>3. \A c \in Boards : \A f \in Elems(queue'[c]) :
          f.op = "setup" /\ f.board = c => <<c, f.val>> \in assigned'
  BY <1>1, <1>2, <1>3 DEF Known
<2>4. \A i \in Ids : \A c, d \in Boards :
           <<c, i>> \in assigned' /\ <<d, i>> \in assigned' => c = d
  BY <1>2 DEF Known, Holders
<2> QED
  BY <2>1, <2>2, <2>3, <2>4 DEF Known, OwnId
<1>6. Meant'
  BY <1>1, <1>2, MeantSent DEF Ops
<1>7. Joined'
  BY <1>1, <1>2, <1>3 DEF Joined
<1>8. Ordered' /\ Target' /\ Answered'
  BY <1>2 DEF Ordered, Target, Answered
<1>9. Found'
<2>1. ASSUME NEW i \in Ids \ stale, NEW c \in Boards, serial[i] = c
      PROVE  AsFound(i, c)'
<3>1. AsFound(i, c)
  BY <2>1 DEF Found
<3>2. \A f \in Elems(queue'[c]) : f \in Elems(queue[c]) \/ f.op = "setup"
  BY <1>1, <1>3
<3> QED
  BY <1>2, <3>1, <3>2 DEF AsFound
<2> QED
  BY <1>2, <2>1 DEF Found
<1>10. OnlyAddressed'
  BY <1>2 DEF OnlyAddressed
<1> QED
  BY <1>4, <1>5, <1>6, <1>7, <1>8, <1>9, <1>10

LEMMA GroupCommandHost ==
    ASSUME Typed, TypeInv, HostInv, NEW g \in Groups, GroupCommand(g)
    PROVE  HostInv'
<1> USE DEF HostInv
<1> DEFINE for == {b \in Boards : <<b, g>> \in mayJoin}
           frame == BroadcastFrame("work", 2 ^ g, NoBoard, 0, for)
<1>1. frame \in FrameSet /\ frame.op = "work" /\ frame.dest = 2 ^ g
      /\ frame.for = for
  BY DEF BroadcastFrame, FrameSet
<1>2. /\ ~Waiting /\ ~Waiting' /\ Transmit(frame)
      /\ UNCHANGED <<node, ip, port, groups, serial, members, assigned,
                     mayJoin, stale, answers, strays>>
  BY DEF GroupCommand, Waiting, boardVars, ghostVars
<1> HIDE DEF frame
<1>3. ASSUME NEW c \in Boards
      PROVE  \A f \in Elems(queue'[c]) : f \in Elems(queue[c]) \/ f = frame
  BY <1>1, <1>2, Sent
<1>4. Addressed'
  BY <1>2 DEF Addressed
<1>5. Known'
  BY <1>1, <1>2, <1>3 DEF Known, OwnId
<1>6. Meant'
<2>1. ASSUME NEW c \in Boards, NEW h \in Groups, frame.dest = 2 ^ h,
             \/ h \in groups[c]
             \/ \E e \in Elems(queue[c]) : e.op = "add" /\ e.val = h
      PROVE  c \in frame.for
<3>1. h = g
  BY <1>1, <2>1, GroupBits
<3> QED
  BY <1>1, <2>1, <3>1 DEF Joined
<2> QED
  BY <1>1, <1>2, <2>1, MeantSent DEF Ops
<1>7. Joined'
  BY <1>1, <1>2, <1>3 DEF Joined
<1>8. Ordered' /\ Target' /\ Answered'
  BY <1>2 DEF Ordered, Target, Answered
<1>9. Found'
<2>1. ASSUME NEW i \in Ids \ stale, NEW c \in Boards, serial[i] = c
      PROVE  AsFound(i, c)'
<3>1. AsFound(i, c)
  BY <2>1 DEF Found
<3>2. \A f \in Elems(queue'[c]) : f \in Elems(queue[c]) \/ f.op = "work"
  BY <1>1, <1>3
<3> QED
  BY <1>2, <3>1, <3>2 DEF AsFound
<2> QED
  BY <1>2, <2>1 DEF Found
<1>10. OnlyAddressed'
  BY <1>2 DEF OnlyAddressed
<1> QED
  BY <1>4, <1>5, <1>6, <1>7, <1>8, <1>9, <1>10

LEMMA CallNodeHost ==
    ASSUME Addressable, Typed, Numbered, TypeInv, HostInv,
           NEW op \in Ops, NEW id \in Ids, NEW val \in Groups \cup {0},
           op \in {"add", "clear"} => val \in Groups, CallNode(op, id, val)
    PROVE  HostInv'
<1> USE DEF HostInv
<1> DEFINE frame == CommandFrame(call')
<1>1. /\ ~Waiting
      /\ count' = [count EXCEPT !["calls"] = @ + 1]
      /\ call' = [op |-> op, id |-> id, val |-> val, no |-> count'.calls,
                  sends |-> 1]
      /\ Transmit(frame)
      /\ serial' = IF op = "info" THEN [serial EXCEPT ![id] = NoBoard]
                   ELSE serial
      /\ members' = CASE op = "info" -> [g \in Groups |-> members[g] \ {id}]
                      [] op = "clear" -> [members EXCEPT ![val] = @ \ {id}]
                      [] OTHER -> members
      /\ mayJoin' = IF op = "add" THEN mayJoin \cup (Holders(id) \X {val})
                    ELSE mayJoin
      /\ stale' = CASE op = "info" -> stale \ {id}
                    [] op = "reset" -> stale \cup {id}
                    [] OTHER -> stale
      /\ op = "reset" => serial[id] # NoBoard /\ id \notin stale
      /\ UNCHANGED <<node, ip, port, groups, answers, assigned, strays>>
  BY DEF CallNode, Sensible, boardVars
<1>2. /\ call'.op = op /\ call'.id = id /\ call'.val = val
      /\ call'.no = count.calls + 1 /\ call'.sends = 1
      /\ Waiting' /\ call' \in Calls /\ count.calls \in Nat
  BY <1>1, CountTypes DEF Waiting, Calls, Typed, Counted
<1>3. /\ frame \in FrameSet /\ frame.op = op /\ frame.dest = id
      /\ frame.no = call'.no /\ frame.board = serial[id]
      /\ frame.val = val /\ frame.for = Holders(id)
  BY <1>2, CommandFrames DEF CommandFrame
<1>4. \A b \in Boards : Hears(b, frame) =>
          node[b] = id /\ b \in Holders(id) /\ Holders(id) \subseteq {b}
  BY <1>2, ReachesHolder
<1> HIDE DEF frame
<1>5. ASSUME NEW b \in Boards
      PROVE  /\ \A f \in Elems(queue'[b]) :
                    f \in Elems(queue[b]) \/ (f = frame /\ Hears(b, frame))
             /\ \A e, f : Before(queue'[b], e, f) =>
                    Before(queue[b], e, f)
                    \/ (e \in Elems(queue[b]) /\ f = frame)
  BY <1>1, <1>3, Sent
<1>6. ASSUME NEW b \in Boards, NEW f \in Elems(queue[b])
      PROVE  f.no # call'.no
<2>1. PICK k \in 1 .. Len(queue[b]) : f = queue[b][k]
  BY DEF Elems
<2>2. f \in FrameSet /\ f.no <= count.calls
  BY <2>1 DEF Typed, Numbered
<2>3. f.no \in Nat
  BY <2>2 DEF FrameSet
<2> QED
  BY <1>2, <2>2, <2>3
<1>7. Addressed'
  BY <1>1 DEF Addressed
<1>8. Known'
<2>1. ASSUME NEW b \in Boards, NEW f \in Elems(queue'[b]),
             f.op = "setup", f.board = b
      PROVE  <<b, f.val>> \in assigned
  BY <1>3, <1>5, <2>1 DEF Known, Ops
<2> QED
  BY <1>1, <2>1 DEF Known, OwnId
<1>9. Meant'
  BY <1>1, <1>3, <1>4, MeantSent DEF Ops
<1>10. Joined'
<2>1. mayJoin \subseteq mayJoin'
  BY <1>1
<2>2. op = "add" => \A b \in Holders(id) : <<b, val>> \in mayJoin'
  BY <1>1
<2>3. Holders(id)' = Holders(id)
  BY <1>1 DEF Holders
<2>4. \A b \in Boards : \A f \in Elems(queue'[b]) :
           f.op = "add" => <<b, f.val>> \in mayJoin'
  BY <1>3, <1>4, <1>5, <2>1, <2>2 DEF Joined
<2> QED
  BY <1>1, <1>2, <2>1, <2>2, <2>3, <2>4 DEF Joined, Holders
<1>11. Ordered'
<2>1. ASSUME NEW b \in Boards, NEW f \in Elems(queue'[b]), f.no = call'.no
      PROVE  /\ f.op = call'.op /\ f.dest = call'.id /\ f.val = call'.val
             /\ call'.op = "reset" => f.board = serial'[call'.id]
<3>1. f = frame
  BY <1>5, <1>6, <2>1
<3>2. op = "reset" => serial' = serial
  BY <1>1
<3> QED
  BY <1>2, <1>3, <3>1, <3>2
<2>2. ASSUME NEW b \in Boards, NEW e, NEW f, Before(queue'[b], e, f),
             e.no = call'.no
      PROVE  FALSE
<3>1. e \in Elems(queue[b])
  BY <1>5, <2>2, BeforeElems
<3> QED
  BY <1>6, <2>2, <3>1
<2> QED
  BY <2>1, <2>2 DEF Ordered
<1>12. Target'
<2>1. SUFFICES ASSUME op = "reset"
               PROVE  /\ id \in stale' /\ serial'[id] # NoBoard
                      /\ Holders(id)' \subseteq {serial'[id]}
  BY <1>2 DEF Target, Holders
<2>2. serial' = serial /\ id \in stale' /\ serial[id] \in Boards
      /\ id \notin stale
  BY <1>1, <2>1 DEF Typed
<2>3. node[serial[id]] = id
  BY <2>2 DEF Found, AsFound
<2>4. <<serial[id], id>> \in assigned
  BY <2>2, <2>3, IdRange DEF Known
<2>5. Holders(id)' = Holders(id)
  BY <1>1 DEF Holders
<2> QED
  BY <1>1, <2>1, <2>2, <2>4, <2>5 DEF Known, Holders
<1>13. Answered'
<2>1. \A a \in answers : a.no \in Nat /\ a.no <= count.calls
  BY DEF Typed, Numbered
<2>2. \A a \in answers' : a.no # call'.no
  BY <1>1, <1>2, <2>1
<2> QED
  BY <2>2 DEF Answered
<1>14. Found'
<2>1. \A g \in Groups : /\ members'[g] \subseteq members[g]
                        /\ op = "info" => id \notin members'[g]
                        /\ op = "clear" /\ g = val => id \notin members'[g]
  BY <1>1 DEF TypeInv, Plain
<2>2. ASSUME NEW i \in Ids \ stale', NEW b \in Boards, serial'[i] = b
      PROVE  AsFound(i, b)'
<3>1. i \notin stale /\ serial[i] = b /\ (op = "reset" => i # id)
  BY <1>1, <2>2, NodeAssumption DEF Typed
<3>2. AsFound(i, b)
  BY <3>1 DEF Found
<3>3. ASSUME NEW f \in Elems(queue'[b])
      PROVE  /\ f.op = "clear" => i \notin members'[f.val]
             /\ ~(f.op = "reset" /\ f.board = b)
<4>1. CASE f \in Elems(queue[b])
<5>1. f.op = "clear" => f.val \in Groups
  BY <4>1 DEF TypeInv, Shape, WellFormed
<5> QED
  BY <2>1, <3>2, <4>1, <5>1 DEF AsFound
<4>2. CASE f = frame /\ Hears(b, frame)
<5>1. i = id
  BY <1>4, <3>2, <4>2 DEF AsFound
<5> QED
  BY <1>3, <2>1, <3>1, <4>2, <5>1
<4> QED
  BY <1>5, <4>1, <4>2
<3> QED
  BY <1>1, <2>1, <3>2, <3>3 DEF AsFound
<2>3. op = "clear" => id \notin members'[val]
  BY <2>1
<2> QED
  BY <1>2, <2>1, <2>2, <2>3 DEF Found
<1>15. OnlyAddressed'
  BY <1>1 DEF OnlyAddressed
<1> QED
  BY <1>7, <1>8, <1>9, <1>10, <1>11, <1>12, <1>13, <1>14, <1>15

LEMMA SendAgainHost ==
    ASSUME Addressable, Typed, Numbered, TypeInv, HostInv, SendAgain
    PROVE  HostInv'
<1> USE DEF HostInv
<1> DEFINE frame == CommandFrame(call)
<1>1. /\ Waiting /\ call' = [call EXCEPT !.sends = @ + 1]
      /\ Transmit(frame)
      /\ UNCHANGED <<node, ip, port, groups, serial, members, answers,
                     assigned, mayJoin, stale, strays>>
  BY DEF SendAgain, boardVars, ghostVars
<1>2. /\ call'.op = call.op /\ call'.id = call.id /\ call'.val = call.val
      /\ call'.no = call.no /\ Waiting' /\ call \in Calls /\ call.id \in Ids
      /\ call.op \in Ops
      /\ call.op \in {"add", "clear"} => call.val \in Groups
  BY <1>1, CountTypes DEF Waiting, Calls, Typed, TypeInv, Shape
<1>3. /\ frame \in FrameSet /\ frame.op = call.op /\ frame.dest = call.id
      /\ frame.no = call.no /\ frame.board = serial[call.id]
      /\ frame.val = call.val /\ frame.for = Holders(call.id)
  BY <1>2, CommandFrames DEF CommandFrame
<1>4. \A b \in Boards : Hears(b, frame) =>
          /\ node[b] = call.id /\ b \in Holders(call.id)
          /\ Holders(call.id) \subseteq {b}
  BY <1>2, ReachesHolder
<1> HIDE DEF frame
<1>5. ASSUME NEW b \in Boards
      PROVE  /\ \A f \in Elems(queue'[b]) :
                    f \in Elems(queue[b]) \/ (f = frame /\ Hears(b, frame))
             /\ \A e, f : Before(queue'[b], e, f) =>
                    Before(queue[b], e, f)
                    \/ (e \in Elems(queue[b]) /\ f = frame)
  BY <1>1, <1>3, Sent
<1>6. Addressed'
  BY <1>1 DEF Addressed
<1>7. Known'
<2>1. ASSUME NEW b \in Boards, NEW f \in Elems(queue'[b]),
             f.op = "setup", f.board = b
      PROVE  <<b, f.val>> \in assigned
  BY <1>2, <1>3, <1>5, <2>1 DEF Known, Ops
<2> QED
  BY <1>1, <2>1 DEF Known, OwnId
<1>8. Meant'
  BY <1>1, <1>2, <1>3, <1>4, MeantSent DEF Ops
<1>9. Joined'
<2>1. \A b \in Boards : \A f \in Elems(queue'[b]) :
           f.op = "add" => <<b, f.val>> \in mayJoin
  BY <1>1, <1>3, <1>4, <1>5 DEF Joined
<2> QED
  BY <1>1, <1>2, <2>1 DEF Joined, Holders
<1>10. Ordered'
<2>1. ASSUME NEW b \in Boards, NEW f \in Elems(queue'[b]), f.no = call.no
      PROVE  /\ f.op = call.op /\ f.dest = call.id /\ f.val = call.val
             /\ call.op = "reset" => f.board = serial[call.id]
  BY <1>1, <1>3, <1>5, <2>1 DEF Ordered
<2>2. ASSUME NEW b \in Boards, NEW e, NEW f, Before(queue'[b], e, f),
             e.no = call.no
      PROVE  f.no = call.no
<3>1. Before(queue[b], e, f) \/ f = frame
  BY <1>5, <2>2
<3> QED
  BY <1>1, <1>3, <2>2, <3>1 DEF Ordered
<2> QED
  BY <1>1, <1>2, <2>1, <2>2 DEF Ordered
<1>11. Target'
  BY <1>1, <1>2 DEF Target, Holders
<1>12. Answered'
<2>1. ASSUME NEW a \in answers, a.no = call.no
      PROVE  CarriedOut(a.board)'
<3>1. CarriedOut(a.board) /\ a.board \in Boards
  BY <1>1, <2>1 DEF Answered, Typed
<3>2. \A f \in Elems(queue'[a.board]) : f.no = call.no
  BY <1>3, <1>5, <3>1 DEF CarriedOut
<3> QED
  BY <1>1, <1>2, <3>1, <3>2 DEF CarriedOut, Holders, BootNode
<2> QED
  BY <1>1, <1>2, <2>1 DEF Answered
<1>13. Found'
<2>1. ASSUME NEW i \in Ids \ stale, NEW b \in Boards, serial[i] = b
      PROVE  AsFound(i, b)'
<3>1. AsFound(i, b)
  BY <2>1 DEF Found
<3>2. ASSUME NEW f \in Elems(queue'[b])
      PROVE  /\ f.op = "clear" => i \notin members[f.val]
             /\ ~(f.op = "reset" /\ f.board = b)
<4>1. CASE f \in Elems(queue[b])
  BY <3>1, <4>1 DEF AsFound
<4>2. CASE f = frame /\ Hears(b, frame)
<5>1. i = call.id
  BY <1>4, <3>1, <4>2 DEF AsFound
<5>2. call.op # "reset"
  BY <1>1, <2>1, <5>1 DEF Target
<5> QED
  BY <1>1, <1>3, <4>2, <5>1, <5>2 DEF Found
<4> QED
  BY <1>5, <4>1, <4>2
<3> QED
  BY <1>1, <3>1, <3>2 DEF AsFound
<2> QED
  BY <1>1, <1>2, <2>1 DEF Found
<1>14. OnlyAddressed'
  BY <1>1 DEF OnlyAddressed
<1> QED
  BY <1>6, <1>7, <1>8, <1>9, <1>10, <1>11, <1>12, <1>13, <1>14

LEMMA GiveUpHost ==
    ASSUME Typed, TypeInv, HostInv, GiveUp
    PROVE  HostInv'
<1> USE DEF HostInv
<1>1. /\ Waiting /\ ~Waiting' /\ call.id \in Ids
      /\ \A i \in Ids, b \in Boards : serial'[i] = b => serial[i] = b
      /\ UNCHANGED <<node, ip, port, groups, queue, members, assigned, mayJoin,
                     stale, strays>>
  BY NodeAssumption
     DEF GiveUp, EndCall, NoCall, Waiting, boardVars, ghostVars, Typed
<1>2. Addressed' /\ Known' /\ Meant' /\ OnlyAddressed'
  BY <1>1 DEF Addressed, Known, OwnId, Meant, OnlyAddressed
<1>3. Joined' /\ Ordered' /\ Target' /\ Answered'
  BY <1>1 DEF Joined, Ordered, Target, Answered
<1>4. Found'
  BY <1>1 DEF Found, AsFound
<1> QED
  BY <1>2, <1>3, <1>4

LEMMA IgnoreAnswerHost ==
    ASSUME Typed, TypeInv, HostInv, NEW a, IgnoreAnswer(a)
    PROVE  HostInv'
<1> USE DEF HostInv
<1>1. /\ answers' \subseteq answers
      /\ UNCHANGED <<node, ip, port, groups, queue, call, serial, members,
                     assigned, mayJoin, stale, strays>>
  BY DEF IgnoreAnswer, boardVars, hostVars, ghostVars
<1>2. Addressed' /\ Known' /\ Meant' /\ OnlyAddressed'
  BY <1>1 DEF Addressed, Known, OwnId, Meant, OnlyAddressed
<1>3. Joined' /\ Ordered' /\ Target'
  BY <1>1 DEF Joined, Ordered, Target, Waiting, Holders
<1>4. Answered'
  BY <1>1 DEF Answered, CarriedOut, Waiting, Holders, BootNode
<1>5. Found'
  BY <1>1 DEF Found, AsFound, Waiting
<1> QED
  BY <1>2, <1>3, <1>4, <1>5

LEMMA ReceiveAnswerHost ==
    ASSUME Typed, TypeInv, HostInv, NEW a \in answers, ReceiveAnswer(a)
    PROVE  HostInv'
<1> USE DEF HostInv
<1> DEFINE d == a.board
           id == call.id
<1>1. /\ Waiting /\ a.no = call.no
      /\ serial' = CASE call.op = "info" -> [serial EXCEPT ![id] = d]
                     [] call.op = "reset" -> [serial EXCEPT ![id] = NoBoard]
                     [] OTHER -> serial
      /\ members' = IF call.op = "add"
                    THEN [members EXCEPT ![call.val] = @ \cup {id}]
                    ELSE members
      /\ assigned' = IF call.op = "reset" THEN Unassigned(serial[id])
                     ELSE assigned
      /\ mayJoin' = IF call.op = "clear"
                    THEN mayJoin \ (Holders(id) \X {call.val}) ELSE mayJoin
      /\ UNCHANGED <<node, ip, port, groups, queue, stale, strays>>
      /\ ~Waiting'
  BY DEF ReceiveAnswer, IsReply, EndCall, boardVars, NoCall, Waiting
<1>2. /\ d \in Boards /\ id \in Ids /\ CarriedOut(d)
      /\ call.op \in Ops /\ (call.op = "add" => call.val \in Groups)
  BY <1>1 DEF Typed, Answered, TypeInv, Shape
<1> HIDE DEF d, id
<1>3. \A f \in Elems(queue[d]) : f.op = call.op
  BY <1>1, <1>2 DEF CarriedOut, Ordered
<1>4. Holders(id) \subseteq {d}
  BY <1>2 DEF CarriedOut, id
<1>5. Addressed' /\ OnlyAddressed'
  BY <1>1 DEF Addressed, OnlyAddressed
<1>6. Known'
<2>1. CASE call.op # "reset"
  BY <1>1, <2>1 DEF Known, OwnId
<2>2. CASE call.op = "reset"
<3>1. /\ serial[id] = d /\ node[d] \in {Broadcast, BootNode(d)}
  BY <1>2, <2>2 DEF CarriedOut, id
<3>2. assigned' = {x \in assigned : x[1] # d} \cup OwnId(d)
  BY <1>1, <2>2, <3>1 DEF Unassigned
<3>3. OwnId(d) \subseteq assigned /\ \A b \in Boards : OwnId(b) \subseteq assigned
  BY <1>2 DEF Known
<3>4. \A b \in Boards : \A i : <<b, i>> \in assigned /\ b # d =>
          <<b, i>> \in assigned'
  BY <3>2
<3>5. \A b \in Boards : OwnId(b) \subseteq assigned'
  BY <3>2, <3>3, <3>4 DEF OwnId
<3>6. ASSUME NEW b \in Boards, node[b] # Broadcast
      PROVE  <<b, node[b]>> \in assigned'
<4>1. CASE b = d
  BY <3>1, <3>2, <3>6, <4>1 DEF BootNode, OwnId
<4>2. CASE b # d
  BY <3>4, <3>6, <4>2 DEF Known
<4> QED
  BY <4>1, <4>2
<3>7. ASSUME NEW b \in Boards, NEW f \in Elems(queue[b]),
             f.op = "setup", f.board = b
      PROVE  <<b, f.val>> \in assigned'
<4>1. b # d
  BY <1>3, <2>2, <3>7
<4> QED
  BY <3>4, <3>7, <4>1 DEF Known
<3>8. assigned' \subseteq assigned
  BY <3>2, <3>3
<3> QED
  BY <1>1, <3>5, <3>6, <3>7, <3>8 DEF Known, OwnId
<2> QED
  BY <2>1, <2>2
<1>7. Meant'
  BY <1>1 DEF Meant
<1>8. Joined'
<2>1. CASE call.op # "clear"
  BY <1>1, <2>1 DEF Joined
<2>2. CASE call.op = "clear"
<3>1. call.val \notin groups[d] /\ \A f \in Elems(queue[d]) : f.op # "add"
  BY <1>2, <1>3, <2>2 DEF CarriedOut
<3>2. \A b \in Boards : \A g : <<b, g>> \in mayJoin /\ ~(b = d /\ g = call.val)
          => <<b, g>> \in mayJoin'
  BY <1>1, <1>4, <2>2
<3> QED
  BY <1>1, <3>1, <3>2 DEF Joined
<2> QED
  BY <2>1, <2>2
<1>9. Ordered' /\ Target' /\ Answered'
  BY <1>1 DEF Ordered, Target, Answered
<1>10. Found'
<2>1. ASSUME NEW i \in Ids \ stale, NEW b \in Boards, serial'[i] = b
      PROVE  AsFound(i, b)'
<3>1. CASE call.op = "info" /\ i = id
<4>1. b = d
  BY <1>1, <1>2, <2>1, <3>1 DEF Typed
<4>2. node[b] = id /\ port[b] = StartingPort
  BY <1>2, <2>1, <3>1, <4>1 DEF CarriedOut, id
<4>3. \A g \in Groups : i \notin members[g]
  BY <1>1, <3>1 DEF Found, id
<4>4. \A f \in Elems(queue[b]) : f.op = "info"
  BY <1>3, <3>1, <4>1
<4>5. members' = members
  BY <1>1, <3>1
<4> QED
  BY <1>1, <3>1, <4>2, <4>3, <4>4, <4>5 DEF AsFound
<3>2. CASE ~(call.op = "info" /\ i = id)
<4>1. serial[i] = b
  BY <1>1, <1>2, <2>1, <3>2, NodeAssumption DEF Typed
<4>2. AsFound(i, b)
  BY <2>1, <4>1 DEF Found
<4>3. CASE call.op = "add" /\ i = id
<5>1. <<b, i>> \in assigned
  BY <2>1, <4>2, IdRange DEF Known, AsFound
<5>2. b = d
  BY <1>4, <4>3, <5>1 DEF Holders
<5>3. call.val \in groups[b] /\ \A f \in Elems(queue[b]) : f.op = "add"
  BY <1>2, <1>3, <2>1, <4>3, <5>2 DEF CarriedOut, id
<5>4. \A g \in Groups : i \in members'[g] => i \in members[g] \/ g = call.val
  BY <1>1, <4>3 DEF TypeInv, Plain
<5> QED
  BY <1>1, <4>2, <5>3, <5>4 DEF AsFound
<4>4. CASE ~(call.op = "add" /\ i = id)
<5>1. \A g \in Groups : i \in members'[g] => i \in members[g]
  BY <1>1, <1>2, <4>4 DEF TypeInv, Plain
<5>2. \A f \in Elems(queue[b]) : f.op = "clear" => f.val \in Groups
  BY DEF TypeInv, Shape, WellFormed
<5> QED
  BY <1>1, <4>2, <5>1, <5>2 DEF AsFound
<4> QED
  BY <4>3, <4>4
<3> QED
  BY <3>1, <3>2
<2> QED
  BY <1>1, <2>1 DEF Found
<1> QED
  BY <1>5, <1>6, <1>7, <1>8, <1>9, <1>10

-----------------------------------------------------------------------------
(* The boards. *)

LEMMA BootHost ==
    ASSUME HostInv, NEW b \in Boards, Boot(b)
    PROVE  HostInv'
<1> USE DEF HostInv
<1>1. UNCHANGED <<node, ip, port, groups, queue, call, serial, members,
                  assigned, mayJoin, stale, strays, answers>>
  BY DEF Boot, hostVars, ghostVars
<1>2. Addressed' /\ Known' /\ Meant' /\ OnlyAddressed'
  BY <1>1 DEF Addressed, Known, OwnId, Meant, OnlyAddressed
<1>3. Joined' /\ Ordered' /\ Target'
  BY <1>1 DEF Joined, Ordered, Target, Waiting, Holders
<1>4. Answered'
  BY <1>1 DEF Answered, CarriedOut, Waiting, Holders, BootNode
<1>5. Found'
  BY <1>1 DEF Found, AsFound, Waiting
<1> QED
  BY <1>2, <1>3, <1>4, <1>5

LEMMA RebootHost ==
    ASSUME Typed, TypeInv, HostInv, NEW b \in Boards, Reboot(b)
    PROVE  HostInv'
<1> USE DEF HostInv
<1>1. /\ queue' = [queue EXCEPT ![b] = <<>>]
      /\ assigned' = Unassigned(b)
      /\ stale' = stale \cup {id \in Ids : \/ serial[id] = b
                                          \/ <<b, id>> \in assigned}
      /\ UNCHANGED <<call, serial, members, answers, mayJoin, strays>>
  BY DEF Reboot
<1>2. /\ node'[b] = BootNode(b) /\ ip'[b] = BootIp(b) /\ groups'[b] = {}
      /\ \A c \in Boards : c # b =>
             /\ node'[c] = node[c] /\ ip'[c] = ip[c]
             /\ port'[c] = port[c] /\ groups'[c] = groups[c]
  BY DEF Reboot, TypeInv, Plain
<1>3. ASSUME NEW c \in Boards
      PROVE  /\ Elems(queue'[c]) \subseteq Elems(queue[c])
             /\ \A e, f : Before(queue'[c], e, f) => Before(queue[c], e, f)
  BY <1>1, Shrunk
<1>4. Elems(queue'[b]) = {}
  BY <1>1, EmptyQueue DEF Typed
<1>5. /\ assigned' \subseteq assigned
      /\ \A c \in Boards : OwnId(c) \subseteq assigned'
      /\ \A c, i : <<c, i>> \in assigned /\ c # b => <<c, i>> \in assigned'
  BY <1>1 DEF Unassigned, Known, OwnId
<1>6. (Waiting' <=> Waiting) /\ Holders(call.id)' \subseteq Holders(call.id)
  BY <1>1, <1>5 DEF Waiting, Holders
<1>7. Addressed'
<2>1. BootNode(b) # Broadcast => BootNode(b) \in Ids /\ BootIp(b) = BootNode(b) + 1
  BY DEF BootNode, BootIp, Ids
<2>2. BootNode(b) = Broadcast => BootIp(b) = 0
<3>1. Dip[b] # AllOn => Dip[b] \in Ids
  BY DEF Ids
<3> QED
  BY <3>1, IdRange DEF BootNode, BootIp
<2> QED
  BY <1>2, <2>1, <2>2 DEF Addressed
<1>8. Known'
<2>1. ASSUME NEW c \in Boards, node'[c] # Broadcast
      PROVE  <<c, node'[c]>> \in assigned'
<3>1. CASE c = b
<4>1. <<b, BootNode(b)>> \in OwnId(b)
  BY <1>2, <2>1, <3>1 DEF BootNode, OwnId
<4> QED
  BY <1>2, <1>5, <3>1, <4>1
<3>2. CASE c # b
  BY <1>2, <1>5, <2>1, <3>2 DEF Known
<3> QED
  BY <3>1, <3>2
<2>2. ASSUME NEW c \in Boards, NEW f \in Elems(queue'[c]),
             f.op = "setup", f.board = c
      PROVE  <<c, f.val>> \in assigned'
  BY <1>3, <1>4, <1>5, <2>2 DEF Known
<2> QED
  BY <1>5, <2>1, <2>2 DEF Known, OwnId
<1>9. Meant'
<2>1. \A c \in Boards : groups'[c] \subseteq groups[c]
  BY <1>2
<2> QED
  BY <1>3, <2>1 DEF Meant
<1>10. Joined'
<2>1. \A c \in Boards : groups'[c] \subseteq groups[c]
  BY <1>2
<2> QED
  BY <1>1, <1>3, <1>6, <2>1 DEF Joined
<1>11. Ordered' /\ Target'
  BY <1>1, <1>3, <1>6 DEF Ordered, Target
<1>12. Answered'
<2>1. ASSUME NEW c \in Boards, Waiting, CarriedOut(c) PROVE CarriedOut(c)'
<3>1. /\ \A f \in Elems(queue'[c]) : f.no = call'.no
      /\ Holders(call.id)' \subseteq {c}
  BY <1>1, <1>3, <1>6, <2>1 DEF CarriedOut
<3>2. CASE c # b
<4>1. stale \subseteq stale'
  BY <1>1
<4> QED
  BY <1>1, <1>2, <2>1, <3>1, <3>2, <4>1 DEF CarriedOut, BootNode, Holders
<3>3. CASE c = b
<4>1. call.id \in Ids
  BY <2>1 DEF Typed
<4>2. ASSUME call.op # "reset" PROVE call.id \in stale'
<5>1. CASE call.id \in stale
  BY <1>1, <5>1
<5>2. CASE node[b] = call.id
  BY <1>1, <4>1, <5>2, IdRange DEF Known
<5> QED
  BY <2>1, <3>3, <4>2, <5>1, <5>2 DEF CarriedOut
<4> QED
  BY <1>1, <1>2, <2>1, <3>1, <3>3, <4>2 DEF CarriedOut, BootNode, Holders
<3> QED
  BY <3>2, <3>3
<2> QED
  BY <1>1, <1>6, <2>1 DEF Answered, Typed
<1>13. Found'
<2>1. ASSUME NEW i \in Ids \ stale', NEW c \in Boards, serial[i] = c
      PROVE  AsFound(i, c)'
<3>1. i \notin stale /\ c # b
  BY <1>1, <2>1
<3>2. AsFound(i, c)
  BY <2>1, <3>1 DEF Found
<3> QED
  BY <1>1, <1>2, <1>3, <3>1, <3>2 DEF AsFound
<2> QED
  BY <1>1, <1>6, <2>1 DEF Found
<1>14. OnlyAddressed'
  BY <1>1 DEF OnlyAddressed
<1> QED
  BY <1>7, <1>8, <1>9, <1>10, <1>11, <1>12, <1>13, <1>14

LEMMA OrderedShrunk ==
    ASSUME Ordered, UNCHANGED <<call, serial>>,
           \A c \in Boards :
               /\ Elems(queue'[c]) \subseteq Elems(queue[c])
               /\ \A e, f : Before(queue'[c], e, f) => Before(queue[c], e, f)
    PROVE  Ordered'
<1>1. SUFFICES ASSUME Waiting PROVE Ordered'
  BY DEF Ordered, Waiting
<1>2. ASSUME NEW c \in Boards, NEW f \in Elems(queue'[c]), f.no = call.no
      PROVE  /\ f.op = call.op /\ f.dest = call.id /\ f.val = call.val
             /\ call.op = "reset" => f.board = serial[call.id]
  BY <1>1, <1>2 DEF Ordered
<1>3. ASSUME NEW c \in Boards, NEW e, NEW f, Before(queue'[c], e, f),
             e.no = call.no
      PROVE  f.no = call.no
  BY <1>1, <1>3 DEF Ordered
<1> QED
  BY <1>2, <1>3 DEF Ordered

(* What a board must not do with a frame. *)
LEMMA ServeHost ==
    ASSUME Typed, TypeInv, HostInv, NEW b \in Boards, Poll(b),
           \A c \in Boards : c # b =>
               /\ node'[c] = node[c] /\ ip'[c] = ip[c]
               /\ port'[c] = port[c] /\ groups'[c] = groups[c],
           IF node'[b] = Broadcast THEN ip'[b] \in {0, Mac}
           ELSE /\ node'[b] \in Ids /\ ip'[b] = node'[b] + 1
                /\ <<b, node'[b]>> \in assigned,
           \A g \in groups'[b] :
               \/ g \in groups[b]
               \/ /\ Head(queue[b]).op = "add" /\ Head(queue[b]).val = g
                  /\ <<b, g>> \in mayJoin,
           answers' \in {answers, answers \cup {Reply(b)}},
           Waiting /\ CarriedOut(b) => CarriedOut(b)',
           answers' # answers /\ Waiting /\ Head(queue[b]).no = call.no
               => CarriedOut(b)',
           \A id \in Ids \ stale :
               serial[id] = b /\ AsFound(id, b) => AsFound(id, b)',
           strays' = {}
    PROVE  HostInv'
<1> USE DEF HostInv
<1>1. /\ queue[b] # <<>> /\ queue' = [queue EXCEPT ![b] = Tail(@)]
      /\ UNCHANGED <<call, serial, members, assigned, mayJoin, stale>>
  BY DEF Poll, hostVars, ghostVars
<1>2. ASSUME NEW c \in Boards
      PROVE  /\ Elems(queue'[c]) \subseteq Elems(queue[c])
             /\ \A e, f : Before(queue'[c], e, f) => Before(queue[c], e, f)
             /\ c # b => queue'[c] = queue[c]
  BY <1>1, Shrunk DEF Typed
<1>3. \A f \in Elems(queue'[b]) : Before(queue[b], Head(queue[b]), f)
  BY <1>1, Served
<1>4. Waiting' <=> Waiting
  BY <1>1 DEF Waiting
<1>5. Addressed'
  BY DEF Addressed
<1>6. Known'
<2>1. \A c \in Boards : node'[c] # Broadcast => <<c, node'[c]>> \in assigned
  BY DEF Known
<2> QED
  BY <1>1, <1>2, <2>1 DEF Known, OwnId
<1>7. Meant'
<2>1. ASSUME NEW c \in Boards, NEW f \in Elems(queue'[c]), NEW g \in Groups,
             f.op = "work", f.dest = 2 ^ g,
             \/ g \in groups'[c]
             \/ \E e \in Elems(queue'[c]) :
                   Before(queue'[c], e, f) /\ e.op = "add" /\ e.val = g
      PROVE  c \in f.for
<3>1. f \in Elems(queue[c])
  BY <1>2
<3>2. \/ g \in groups[c]
      \/ \E e : Before(queue[c], e, f) /\ e.op = "add" /\ e.val = g
<4>1. CASE g \in groups'[c] /\ c = b
  BY <1>3, <2>1, <4>1
<4>2. CASE g \in groups'[c] /\ c # b
  BY <4>2
<4> QED
  BY <1>2, <2>1, <4>1, <4>2
<3> QED
  BY <2>1, <3>1, <3>2, BeforeElems DEF Meant
<2> QED
  BY <1>2, <2>1 DEF Meant
<1>8. Joined'
<2>1. \A c \in Boards : \A g \in groups'[c] : <<c, g>> \in mayJoin
  BY DEF Joined
<2> QED
  BY <1>1, <1>2, <1>4, <2>1 DEF Joined, Holders
<1>9. Ordered' /\ Target'
<2>1. Ordered'
  BY <1>1, <1>2, OrderedShrunk
<2>2. Target'
  BY <1>1, <1>4 DEF Target, Holders
<2> QED
  BY <2>1, <2>2
<1>10. Answered'
<2>1. ASSUME NEW c \in Boards, c # b, CarriedOut(c) PROVE CarriedOut(c)'
  BY <1>1, <1>2, <2>1 DEF CarriedOut, BootNode, Holders
<2>2. ASSUME NEW a \in answers', Waiting, a.no = call.no
      PROVE  CarriedOut(a.board)'
<3>1. CASE a \in answers
<4>1. CarriedOut(a.board) /\ a.board \in Boards
  BY <2>2, <3>1 DEF Answered, Typed
<4> QED
  BY <2>1, <2>2, <4>1
<3>2. CASE a \notin answers
<4>1. a = Reply(b) /\ answers' # answers
  BY <2>2, <3>2
<4>2. a.board = b /\ a.no = Head(queue[b]).no
  BY <4>1 DEF Reply
<4>3. CarriedOut(b)'
  BY <2>2, <4>1, <4>2
<4> QED
  BY <4>2, <4>3
<3> QED
  BY <3>1, <3>2
<2> QED
  BY <1>1, <1>4, <2>2 DEF Answered
<1>11. Found'
<2>1. ASSUME NEW i \in Ids \ stale, NEW c \in Boards, serial[i] = c
      PROVE  AsFound(i, c)'
<3>1. AsFound(i, c)
  BY <2>1 DEF Found
<3>2. CASE c # b
  BY <1>1, <1>2, <3>1, <3>2 DEF AsFound
<3> QED
  BY <2>1, <3>1, <3>2
<2> QED
  BY <1>1, <1>4, <2>1 DEF Found
<1>12. OnlyAddressed'
  BY DEF OnlyAddressed
<1> QED
  BY <1>5, <1>6, <1>7, <1>8, <1>9, <1>10, <1>11, <1>12

(* The frame a board looks at; its being one of the current call means     *)
(* much.                                                                   *)
LEMMA Looks ==
    ASSUME Typed, TypeInv, HostInv, NEW b \in Boards, Poll(b)
    PROVE  /\ Head(queue[b]) \in Elems(queue[b])
           /\ WellFormed(Head(queue[b]))
           /\ Elems(queue'[b]) \subseteq Elems(queue[b])
           /\ UNCHANGED <<call, serial, members, assigned, mayJoin, stale>>
           /\ Waiting /\ CarriedOut(b) =>
                  /\ Head(queue[b]).no = call.no
                  /\ Head(queue[b]).op = call.op
                  /\ Head(queue[b]).val = call.val
                  /\ call.op \in Ops
           /\ Waiting /\ Head(queue[b]).no = call.no =>
                  /\ Head(queue[b]).op = call.op
                  /\ Head(queue[b]).dest = call.id
                  /\ Head(queue[b]).val = call.val
                  /\ call.op = "reset" =>
                         Head(queue[b]).board = serial[call.id]
                  /\ \A f \in Elems(queue'[b]) : f.no = call.no
<1>1. /\ queue[b] # <<>> /\ queue' = [queue EXCEPT ![b] = Tail(@)]
      /\ UNCHANGED <<call, serial, members, assigned, mayJoin, stale>>
  BY DEF Poll, hostVars, ghostVars
<1>2. /\ Head(queue[b]) \in Elems(queue[b])
      /\ \A f \in Elems(queue'[b]) : Before(queue[b], Head(queue[b]), f)
  BY <1>1, Served
<1>3. WellFormed(Head(queue[b]))
  BY <1>2 DEF TypeInv, Shape
<1>4. Elems(queue'[b]) \subseteq Elems(queue[b])
  BY <1>1, Shrunk
<1>5. Waiting /\ Head(queue[b]).no = call.no =>
          /\ Head(queue[b]).op = call.op
          /\ Head(queue[b]).dest = call.id
          /\ Head(queue[b]).val = call.val
          /\ call.op = "reset" => Head(queue[b]).board = serial[call.id]
  BY <1>2 DEF HostInv, Ordered
<1>6. Waiting /\ Head(queue[b]).no = call.no =>
          \A f \in Elems(queue'[b]) : f.no = call.no
  BY <1>2 DEF HostInv, Ordered
<1>7. Waiting /\ CarriedOut(b) => Head(queue[b]).no = call.no
  BY <1>2 DEF CarriedOut
<1>8. Waiting => call.op \in Ops
  BY DEF TypeInv, Shape
<1> QED
  BY <1>1, <1>2, <1>3, <1>4, <1>5, <1>6, <1>7, <1>8

(* A board that carries out a command of the current call is the node's.   *)
LEMMA CarriesOut ==
    ASSUME Addressable, Typed, TypeInv, HostInv,
           NEW b \in Boards, NEW ops \in SUBSET Ops, CarryOut(b, ops)
    PROVE  /\ Poll(b) /\ Head(queue[b]).op \in ops /\ strays' = {}
           /\ Waiting /\ Head(queue[b]).no = call.no =>
                  /\ node[b] = call.id /\ port[b] = StartingPort
                  /\ b \in Holders(call.id) /\ Holders(call.id) \subseteq {b}
                  /\ call.op = "reset" =>
                         /\ Head(queue[b]).board = b
                         /\ b = serial[call.id]
<1> DEFINE frame == Head(queue[b])
<1>1. /\ Poll(b) /\ frame.op \in ops /\ Bound(b, frame)
      /\ b \in frame.for => strays' = strays
  BY DEF CarryOut, Takes
<1>2. frame \in Elems(queue[b]) /\ WellFormed(frame)
  BY <1>1, Looks
<1>3. b \in frame.for
  BY <1>1, <1>2 DEF HostInv, Meant
<1>4. strays' = {}
  BY <1>1, <1>3 DEF HostInv, OnlyAddressed
<1>5. frame.dest \in Ids /\ frame.ip = frame.dest + 1
  BY <1>1, <1>2 DEF WellFormed, Ops
<1>6. ASSUME Waiting, frame.no = call.no
      PROVE  /\ node[b] = call.id /\ port[b] = StartingPort
             /\ b \in Holders(call.id) /\ Holders(call.id) \subseteq {b}
             /\ call.op = "reset" => frame.board = b /\ b = serial[call.id]
<2>1. /\ frame.dest = call.id
      /\ call.op = "reset" => frame.board = serial[call.id]
  BY <1>1, <1>6, Looks
<2>2. \A id \in Ids : id \in 0 .. 254 /\ id # 254
  BY IdRange DEF Addressable
<2>3. \A id \in Ids : id + 1 # All
  BY <2>2 DEF All
<2>4. call.id \in Ids /\ ip[b] = call.id + 1 /\ port[b] = StartingPort
  BY <1>1, <1>5, <2>1, <2>3 DEF Bound
<2>5. /\ node[b] = call.id
      /\ b \in Holders(call.id) /\ Holders(call.id) \subseteq {b}
  BY <2>4, AtAddress DEF HostInv
<2>6. call.op = "reset" => b = serial[call.id]
  BY <1>6, <2>5 DEF HostInv, Target
<2> QED
  BY <2>1, <2>4, <2>5, <2>6
<1> QED
  BY <1>1, <1>4, <1>6

(* Addresses are as they were, and the answer if there is one is to a      *)
(* command of this node.                                                   *)
LEMMA AddressKept ==
    ASSUME HostInv, NEW b \in Boards, UNCHANGED <<node, ip, port>>
    PROVE  /\ IF node'[b] = Broadcast THEN ip'[b] \in {0, Mac}
              ELSE /\ node'[b] \in Ids /\ ip'[b] = node'[b] + 1
                   /\ <<b, node'[b]>> \in assigned
           /\ \A c \in Boards : /\ node'[c] = node[c] /\ ip'[c] = ip[c]
                                /\ port'[c] = port[c]
  BY DEF HostInv, Addressed, Known

LEMMA IgnoreHost ==
    ASSUME Typed, TypeInv, HostInv, NEW b \in Boards,
           Ignore(b) \/ ConfigSetupIgnored(b)
    PROVE  HostInv'
<1>1. /\ Poll(b) /\ UNCHANGED <<node, ip, port, groups, answers, strays>>
  BY DEF Ignore, ConfigSetupIgnored, boardVars
<1>2. /\ Elems(queue'[b]) \subseteq Elems(queue[b])
      /\ UNCHANGED <<call, serial, members, assigned, mayJoin, stale>>
  BY <1>1, Looks
<1>3. Waiting /\ CarriedOut(b) => CarriedOut(b)'
  BY <1>1, <1>2 DEF CarriedOut, Holders, BootNode
<1>4. \A id \in Ids \ stale : AsFound(id, b) => AsFound(id, b)'
  BY <1>1, <1>2 DEF AsFound
<1>5. strays' = {}
  BY <1>1 DEF HostInv, OnlyAddressed
<1> QED
  BY <1>1, <1>3, <1>4, <1>5, AddressKept, ServeHost

(* initialize and info *)
LEMMA SimpleCommandHost ==
    ASSUME Addressable, Typed, TypeInv, HostInv, NEW b \in Boards,
           Initialize(b) \/ Info(b)
    PROVE  HostInv'
<1>1. /\ CarryOut(b, {"initialize", "info"})
      /\ answers' \in {answers, answers \cup {Reply(b)}}
      /\ UNCHANGED <<node, ip, port, groups>>
  BY DEF Initialize, Info, CarryOut, Answer, boardVars
<1>2. /\ Poll(b) /\ Head(queue[b]).op \in {"initialize", "info"}
      /\ strays' = {}
      /\ Waiting /\ Head(queue[b]).no = call.no =>
             /\ node[b] = call.id /\ port[b] = StartingPort
             /\ Holders(call.id) \subseteq {b}
  BY <1>1, CarriesOut DEF Ops
<1>3. /\ Elems(queue'[b]) \subseteq Elems(queue[b])
      /\ UNCHANGED <<call, serial, members, assigned, mayJoin, stale>>
      /\ Waiting /\ Head(queue[b]).no = call.no =>
             /\ call.op \in {"initialize", "info"}
             /\ \A f \in Elems(queue'[b]) : f.no = call.no
  BY <1>2, Looks
<1>4. Waiting /\ CarriedOut(b) => CarriedOut(b)'
  BY <1>1, <1>3 DEF CarriedOut, Holders, BootNode
<1>5. Waiting /\ Head(queue[b]).no = call.no => CarriedOut(b)'
  BY <1>1, <1>2, <1>3 DEF CarriedOut, Holders
<1>6. \A id \in Ids \ stale : AsFound(id, b) => AsFound(id, b)'
  BY <1>1, <1>3 DEF AsFound
<1> QED
  BY <1>1, <1>2, <1>4, <1>5, <1>6, AddressKept, ServeHost

(* A group command is carried out by a member of the group, or by a board *)
(* that has its ID.                                                        *)
LEMMA WorkHost ==
    ASSUME Typed, TypeInv, HostInv, NEW b \in Boards, Work(b)
    PROVE  HostInv'
<1> DEFINE frame == Head(queue[b])
<1>1. /\ Poll(b) /\ frame.op = "work" /\ Passes(b, frame.dest)
      /\ b \in frame.for \/ frame.dest = node[b] => strays' = strays
      /\ UNCHANGED <<node, ip, port, groups, answers>>
  BY DEF Work, CarryOut, Takes, Namesake, boardVars
<1>2. /\ frame \in Elems(queue[b]) /\ WellFormed(frame)
      /\ Elems(queue'[b]) \subseteq Elems(queue[b])
      /\ UNCHANGED <<call, serial, members, assigned, mayJoin, stale>>
  BY <1>1, Looks
<1>3. PICK g \in Groups : frame.dest = 2 ^ g
  BY <1>1, <1>2 DEF WellFormed, Ops
<1>4. /\ Bits(frame.dest) = {g} /\ g \notin 8 .. 15
      /\ frame.dest # Broadcast
  BY <1>3, GroupBits
<1>5. ASSUME frame.dest = node[b] PROVE strays' = {}
  BY <1>1, <1>5 DEF HostInv, OnlyAddressed
<1>6. ASSUME frame.dest # node[b] PROVE strays' = {}
<2>1. g \in groups[b]
  BY <1>1, <1>4, <1>6 DEF Passes
<2>2. b \in frame.for
  BY <1>1, <1>2, <1>3, <2>1 DEF HostInv, Meant
<2> QED
  BY <1>1, <2>2 DEF HostInv, OnlyAddressed
<1>9. strays' = {}
  BY <1>1, <1>5, <1>6 DEF HostInv, OnlyAddressed
<1>10. Waiting /\ CarriedOut(b) => CarriedOut(b)'
  BY <1>1, <1>2 DEF CarriedOut, Holders, BootNode
<1>11. \A id \in Ids \ stale : AsFound(id, b) => AsFound(id, b)'
  BY <1>1, <1>2 DEF AsFound
<1> QED
  BY <1>1, <1>9, <1>10, <1>11, AddressKept, ServeHost

LEMMA ConfigSetupHost ==
    ASSUME Typed, TypeInv, HostInv, NEW b \in Boards, ConfigSetup(b)
    PROVE  HostInv'
<1> DEFINE frame == Head(queue[b])
<1>1. /\ Poll(b) /\ frame.op = "setup" /\ frame.board = b
      /\ node[b] = Broadcast
      /\ b \in frame.for => strays' = strays
      /\ UNCHANGED <<groups, answers>>
  BY DEF ConfigSetup, CarryOut, SetupForThis
<1>2. /\ frame \in Elems(queue[b]) /\ WellFormed(frame)
      /\ Elems(queue'[b]) \subseteq Elems(queue[b])
      /\ UNCHANGED <<call, serial, members, assigned, mayJoin, stale>>
      /\ ~(Waiting /\ CarriedOut(b))
  BY <1>1, Looks DEF Ops
<1>3. frame.for = {b} /\ frame.val \in UserIds
  BY <1>1, <1>2 DEF WellFormed, Ops
<1>4. /\ node'[b] = frame.val /\ ip'[b] = frame.val + 1
      /\ \A c \in Boards : c # b =>
             /\ node'[c] = node[c] /\ ip'[c] = ip[c] /\ port'[c] = port[c]
  BY DEF ConfigSetup, TypeInv, Plain
<1>5. /\ node'[b] \in Ids /\ node'[b] # Broadcast
      /\ <<b, node'[b]>> \in assigned
  BY <1>1, <1>2, <1>3, <1>4, IdRange DEF HostInv, Known, Ids
<1>6. strays' = {}
  BY <1>1, <1>3 DEF HostInv, OnlyAddressed
<1>7. \A id \in Ids \ stale : ~AsFound(id, b)
  BY <1>1, IdRange DEF AsFound
<1> QED
  BY <1>1, <1>2, <1>4, <1>5, <1>6, <1>7, ServeHost

LEMMA ConfigResetHost ==
    ASSUME Addressable, Typed, TypeInv, HostInv, NEW b \in Boards,
           ConfigReset(b)
    PROVE  HostInv'
<1> DEFINE frame == Head(queue[b])
<1>1. /\ CarryOut(b, {"reset"})
      /\ answers' \in {answers, answers \cup {Reply(b)}}
      /\ groups' = groups
  BY DEF ConfigReset, EarlyAnswer, Answer
<1>2. /\ Poll(b) /\ frame.op = "reset" /\ strays' = {}
      /\ Waiting /\ frame.no = call.no =>
             /\ Holders(call.id) \subseteq {b}
             /\ call.op = "reset" => frame.board = b /\ b = serial[call.id]
  BY <1>1, CarriesOut DEF Ops
<1>3. /\ frame \in Elems(queue[b])
      /\ Elems(queue'[b]) \subseteq Elems(queue[b])
      /\ UNCHANGED <<call, serial, members, assigned, mayJoin, stale>>
      /\ Waiting /\ CarriedOut(b) => frame.no = call.no
      /\ Waiting /\ frame.no = call.no =>
             /\ call.op = "reset"
             /\ \A f \in Elems(queue'[b]) : f.no = call.no
  BY <1>2, Looks
<1>4. /\ frame.board = b => node'[b] = Broadcast /\ ip'[b] = Mac
      /\ frame.board # b => UNCHANGED <<node, ip, port>>
      /\ \A c \in Boards : c # b =>
             /\ node'[c] = node[c] /\ ip'[c] = ip[c] /\ port'[c] = port[c]
  BY DEF ConfigReset, TypeInv, Plain
<1>5. IF node'[b] = Broadcast THEN ip'[b] \in {0, Mac}
      ELSE /\ node'[b] \in Ids /\ ip'[b] = node'[b] + 1
           /\ <<b, node'[b]>> \in assigned
<2>1. CASE frame.board = b
  BY <1>4, <2>1
<2>2. CASE frame.board # b
  BY <1>4, <2>2, AddressKept
<2> QED
  BY <2>1, <2>2
<1>6. Waiting /\ frame.no = call.no => CarriedOut(b)'
  BY <1>2, <1>3, <1>4 DEF CarriedOut, Holders
<1>7. Waiting /\ CarriedOut(b) => CarriedOut(b)'
  BY <1>3, <1>6
<1>8. \A id \in Ids \ stale : AsFound(id, b) => AsFound(id, b)'
<2>1. CASE frame.board = b
  BY <1>2, <1>3, <2>1 DEF AsFound
<2>2. CASE frame.board # b
  BY <1>1, <1>3, <1>4, <2>2 DEF AsFound
<2> QED
  BY <2>1, <2>2
<1> QED
  BY <1>1, <1>2, <1>4, <1>5, <1>6, <1>7, <1>8, ServeHost

LEMMA GroupIdAddHost ==
    ASSUME Addressable, Typed, TypeInv, HostInv, NEW b \in Boards,
           GroupIdAdd(b)
    PROVE  HostInv'
<1> DEFINE frame == Head(queue[b])
<1>1. /\ CarryOut(b, {"add"})
      /\ answers' \in {answers, answers \cup {Reply(b)}}
      /\ UNCHANGED <<node, ip, port>>
  BY DEF GroupIdAdd, Answer
<1>2. /\ Poll(b) /\ frame.op = "add" /\ strays' = {}
      /\ Waiting /\ frame.no = call.no =>
             /\ node[b] = call.id /\ port[b] = StartingPort
             /\ Holders(call.id) \subseteq {b}
  BY <1>1, CarriesOut DEF Ops
<1>3. /\ frame \in Elems(queue[b])
      /\ Elems(queue'[b]) \subseteq Elems(queue[b])
      /\ UNCHANGED <<call, serial, members, assigned, mayJoin, stale>>
      /\ Waiting /\ CarriedOut(b) => frame.no = call.no
      /\ Waiting /\ frame.no = call.no =>
             /\ call.op = "add" /\ frame.val = call.val
             /\ \A f \in Elems(queue'[b]) : f.no = call.no
  BY <1>2, Looks
<1>4. /\ groups'[b] = groups[b] \cup {frame.val}
      /\ \A c \in Boards : c # b => groups'[c] = groups[c]
  BY DEF GroupIdAdd, TypeInv, Plain
<1>5. <<b, frame.val>> \in mayJoin
  BY <1>2, <1>3 DEF HostInv, Joined
<1>6. Waiting /\ frame.no = call.no => CarriedOut(b)'
  BY <1>1, <1>2, <1>3, <1>4 DEF CarriedOut, Holders
<1>7. Waiting /\ CarriedOut(b) => CarriedOut(b)'
  BY <1>3, <1>6
<1>8. \A id \in Ids \ stale : AsFound(id, b) => AsFound(id, b)'
  BY <1>1, <1>3, <1>4 DEF AsFound
<1> QED
  BY <1>1, <1>2, <1>4, <1>5, <1>6, <1>7, <1>8, AddressKept, ServeHost

LEMMA GroupIdClearHost ==
    ASSUME Addressable, Typed, TypeInv, HostInv, NEW b \in Boards,
           GroupIdClear(b)
    PROVE  HostInv'
<1> DEFINE frame == Head(queue[b])
<1>1. /\ CarryOut(b, {"clear"})
      /\ answers' \in {answers, answers \cup {Reply(b)}}
      /\ UNCHANGED <<node, ip, port>>
  BY DEF GroupIdClear, Answer
<1>2. /\ Poll(b) /\ frame.op = "clear" /\ strays' = {}
      /\ Waiting /\ frame.no = call.no =>
             /\ node[b] = call.id /\ port[b] = StartingPort
             /\ Holders(call.id) \subseteq {b}
  BY <1>1, CarriesOut DEF Ops
<1>3. /\ frame \in Elems(queue[b])
      /\ Elems(queue'[b]) \subseteq Elems(queue[b])
      /\ UNCHANGED <<call, serial, members, assigned, mayJoin, stale>>
      /\ Waiting /\ CarriedOut(b) => frame.no = call.no
      /\ Waiting /\ frame.no = call.no =>
             /\ call.op = "clear" /\ frame.val = call.val
             /\ \A f \in Elems(queue'[b]) : f.no = call.no
  BY <1>2, Looks
<1>4. /\ groups'[b] = groups[b] \ {frame.val}
      /\ \A c \in Boards : c # b => groups'[c] = groups[c]
  BY DEF GroupIdClear, TypeInv, Plain
<1>5. Waiting /\ frame.no = call.no => CarriedOut(b)'
  BY <1>1, <1>2, <1>3, <1>4 DEF CarriedOut, Holders
<1>6. Waiting /\ CarriedOut(b) => CarriedOut(b)'
  BY <1>3, <1>5
<1>7. \A id \in Ids \ stale : AsFound(id, b) => AsFound(id, b)'
  BY <1>1, <1>2, <1>3, <1>4 DEF AsFound
<1> QED
  BY <1>1, <1>2, <1>4, <1>5, <1>6, <1>7, AddressKept, ServeHost

-----------------------------------------------------------------------------
THEOREM HostInvariant == Ordinary => (Spec => []HostInv)
<1> SUFFICES ASSUME Ordinary PROVE Spec => []HostInv
  OBVIOUS
<1>1. Init => HostInv
  BY InitHost DEF Ordinary
<1>2. DoneInv /\ TypeInv /\ HostInv /\ [Next]_vars => HostInv'
<2> SUFFICES ASSUME DoneInv, TypeInv, HostInv, [Next]_vars PROVE HostInv'
  OBVIOUS
<2> USE DEF Ordinary
<2>1. Typed /\ Numbered
  BY DEF DoneInv
<2>2. ASSUME NEW b \in Boards, NEW id \in UserIds, SetUp(b, id) PROVE HostInv'
  BY <2>1, <2>2, SetUpHost
<2>3. ASSUME NEW g \in Groups, GroupCommand(g) PROVE HostInv'
  BY <2>1, <2>3, GroupCommandHost
<2>4. CASE CallAny
<3>1. PICK op \in Ops, id \in Ids :
          \E val \in IF op \in {"add", "clear"} THEN Groups ELSE {0} :
              CallNode(op, id, val)
  BY <2>4 DEF CallAny
<3>2. PICK val \in Groups \cup {0} :
          /\ op \in {"add", "clear"} => val \in Groups
          /\ CallNode(op, id, val)
  BY <3>1
<3> QED
  BY <2>1, <3>2, CallNodeHost
<2>5. CASE SendAgain
  BY <2>1, <2>5, SendAgainHost
<2>6. CASE GiveUp
  BY <2>1, <2>6, GiveUpHost
<2>7. ASSUME NEW a \in answers, IgnoreAnswer(a) PROVE HostInv'
  BY <2>1, <2>7, IgnoreAnswerHost
<2>8. ASSUME NEW a \in answers, ReceiveAnswer(a) PROVE HostInv'
  BY <2>1, <2>8, ReceiveAnswerHost
<2>9. ASSUME NEW b \in Boards, BoardStep(b) PROVE HostInv'
<3>1. CASE Boot(b) \/ Reboot(b)
  BY <2>1, <3>1, BootHost, RebootHost
<3>2. CASE Ignore(b) \/ ConfigSetupIgnored(b)
  BY <2>1, <3>2, IgnoreHost
<3>3. CASE Initialize(b) \/ Info(b)
  BY <2>1, <3>3, SimpleCommandHost
<3>4. CASE Work(b)
  BY <2>1, <3>4, WorkHost
<3>5. CASE ConfigSetup(b)
  BY <2>1, <3>5, ConfigSetupHost
<3>6. CASE ConfigReset(b)
  BY <2>1, <3>6, ConfigResetHost
<3>7. CASE GroupIdAdd(b)
  BY <2>1, <3>7, GroupIdAddHost
<3>8. CASE GroupIdClear(b)
  BY <2>1, <3>8, GroupIdClearHost
<3> QED
  BY <2>9, <3>1, <3>2, <3>3, <3>4, <3>5, <3>6, <3>7, <3>8 DEF BoardStep
<2>10. CASE UNCHANGED vars
<3>1. UNCHANGED <<node, ip, port, groups, queue, call, serial, members,
                  assigned, mayJoin, stale, strays, answers>>
  BY <2>10 DEF vars, boardVars, hostVars, ghostVars
<3>2. Addressed' /\ Known' /\ Meant' /\ OnlyAddressed'
  BY <3>1 DEF HostInv, Addressed, Known, OwnId, Meant, OnlyAddressed
<3>3. Joined' /\ Ordered' /\ Target'
  BY <3>1 DEF HostInv, Joined, Ordered, Target, Waiting, Holders
<3>4. Answered' /\ Found'
  BY <3>1 DEF HostInv, Answered, CarriedOut, Waiting, Holders, BootNode,
              Found, AsFound
<3> QED
  BY <3>2, <3>3, <3>4 DEF HostInv
<2> QED
  BY <2>2, <2>3, <2>4, <2>5, <2>6, <2>7, <2>8, <2>9, <2>10
     DEF Next, HostStep
<1> QED
  BY <1>1, <1>2, DoneInvariant, TypeInvariant, PTL DEF Spec

(* No board carries out what is not meant for it, whatever frames wait in  *)
(* its queue from the time when it had another ID or other groups, or none *)
(* yet.                                                                    *)
THEOREM NoStrays == Ordinary => (Spec => []OnlyAddressed)
<1> SUFFICES ASSUME Ordinary PROVE Spec => []OnlyAddressed
  OBVIOUS
<1>1. HostInv => OnlyAddressed
  BY DEF HostInv
<1> QED
  BY <1>1, HostInvariant, PTL

(* Until its board is reset or switched off, a node the host has found     *)
(* keeps the ID, address and port at which it was found, and is in the     *)
(* groups the host has put it in, however late copies of commands come.    *)
THEOREM ViewHolds == Ordinary => (Spec => []HostViewHolds)
<1> SUFFICES ASSUME Ordinary PROVE Spec => []HostViewHolds
  OBVIOUS
<1>1. DoneInv /\ HostInv => HostViewHolds
<2> SUFFICES ASSUME DoneInv, HostInv, NEW id \in Ids \ stale,
                    serial[id] # NoBoard
             PROVE  LET b == serial[id]
                    IN /\ node[b] = id /\ ip[b] = id + 1
                       /\ port[b] = StartingPort
                       /\ \A g \in Groups : id \in members[g] =>
                                                g \in groups[b]
  BY DEF HostViewHolds
<2>1. serial[id] \in Boards
  BY DEF DoneInv, Typed
<2>2. AsFound(id, serial[id])
  BY <2>1 DEF HostInv, Found
<2>3. ip[serial[id]] = id + 1
  BY <2>1, <2>2, IdRange DEF AsFound, HostInv, Addressed
<2> QED
  BY <2>2, <2>3 DEF AsFound
<1> QED
  BY <1>1, DoneInvariant, HostInvariant, PTL
=============================================================================
