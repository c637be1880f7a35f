----------------------------- MODULE NodeConfig -----------------------------
(***************************************************************************)
(* Boot and network configuration of the boards, the receive filter of     *)
(* their transport, node groups, and the host that sends the commands.     *)
(*                                                                         *)
(* A board takes its node ID from its switches, or, with all switches on,  *)
(* waits for a broadcast CONFIG_SETUP with its serial number.  The host    *)
(* sends a command to the IP address and port it believes a node to have   *)
(* and repeats it until an answer with its sequence number arrives or the  *)
(* attempts are used up.  Group commands are broadcast without an answer:  *)
(* every board decides for itself whether it is meant.                     *)
(*                                                                         *)
(* Frames and answers get lost, timeouts come early, boards are switched   *)
(* off and on again at any time, and fail to boot.                         *)
(***************************************************************************)
EXTENDS Integers, Sequences, FiniteSets

CONSTANTS
    Boards,         \* boards, named by their serial numbers
    NoBoard,
    Dip,            \* switches of each board
    UserIds,        \* node IDs the user gives to boards
    Groups,         \* node groups in use; the ID of group g is 2^g
    StartingPort,   \* the host's unicast_starting_port, less the node's base
    MaxSends,       \* times the host sends a command
    MaxCalls,       \* bounds: commands to one node,
    MaxSetups,      \* CONFIG_SETUP broadcasts,
    MaxWorks,       \* group commands,
    MaxReboots      \* and boards switched off and on

AllOn == 15         \* switches of a board to be configured over the network
Broadcast == 65535  \* BROADCAST_DEST_ID, also the node ID while not set up

Ids == UserIds \cup ({Dip[b] : b \in Boards} \ {AllOn})

ASSUME NodeAssumption ==
    /\ NoBoard \notin Boards
    /\ Dip \in [Boards -> 0 .. AllOn]
    /\ UserIds \subseteq 0 .. 254 /\ UserIds \cap {Dip[b] : b \in Boards} = {}
    /\ Groups \subseteq 0 .. 7
    /\ StartingPort \in Nat
    /\ MaxSends \in Nat \ {0}
    /\ MaxCalls \in Nat /\ MaxSetups \in Nat
    /\ MaxWorks \in Nat /\ MaxReboots \in Nat

(* Last byte of an IP address in the subnet, with two more values. *)
All == 255          \* the broadcast address
Mac == 256          \* the first bytes of the MAC address, no node's address

VARIABLES
    \* a board
    stage,          \* what it is doing
    node, ip, port, \* its node ID, IP address and unicast port
    groups,         \* its group_id, as the set of its bits
    queue,          \* frames it has received and not looked at
    \* the host
    call,           \* the command it waits for
    count,          \* calls, setups, works and reboots so far
    serial,         \* board of each node, NoBoard if not known
    members,        \* nodes of each group that the host has not told to leave
    used,           \* groups a node has been added to
    answers,        \* answers that have arrived
    \* what has happened
    assigned,       \* boards that may have a node ID, as the user set them up
    mayJoin,        \* boards that may be in a group, as the host told them
    stale,          \* nodes reset or switched off since their info was read
    handled,        \* the command the host waits for has been carried out
    unfounded,      \* an answer was taken for a command not carried out
    strays          \* boards that carried out what was not meant for them

boardVars == <<stage, node, ip, port, groups>>
hostVars  == <<call, count, serial, members, used>>
ghostVars == <<assigned, mayJoin, stale>>
vars == <<boardVars, queue, hostVars, answers, ghostVars, handled, unfounded,
          strays>>

-----------------------------------------------------------------------------
Ops == {"initialize", "info", "add", "clear", "reset"}

Stages == {"off", "run", "dead"}

NoCall == [op |-> "none", id |-> 0, val |-> 0, no |-> 0, sends |-> 0]

Counted == {"calls", "setups", "works", "reboots"}

Frames == MaxCalls * MaxSends + MaxSetups + MaxWorks

TypeOK ==
    /\ stage \in [Boards -> Stages]
    /\ node \in [Boards -> Ids \cup {Broadcast}]
    /\ ip \in [Boards -> {id + 1 : id \in Ids} \cup {0, Mac}]
    /\ port \in [Boards -> {0} \cup UserIds]
    /\ groups \in [Boards -> SUBSET Groups]
    /\ \A b \in Boards : Len(queue[b]) <= Frames
    /\ call.op \in Ops \cup {"none"} /\ call.sends \in 0 .. MaxSends
    /\ count \in [Counted -> Nat]
    /\ serial \in [Ids -> Boards \cup {NoBoard}]
    /\ members \in [Groups -> SUBSET Ids] /\ used \subseteq Groups
    /\ \A a \in answers : a.no <= MaxCalls /\ a.board \in Boards
    /\ assigned \subseteq Boards \X Ids
    /\ mayJoin \subseteq Boards \X Groups
    /\ stale \subseteq Ids
    /\ handled \in BOOLEAN /\ unfounded \in BOOLEAN
    /\ strays \subseteq Boards

-----------------------------------------------------------------------------
(***************************************************************************)
(* Booting.                                                                *)
(***************************************************************************)
(* The switches as node_init() and transport_get_hw_info() read them: node *)
(* ID d has address d + 1, and 0xFFFF + 1 is 0 in a byte.                  *)
BootNode(b) == IF Dip[b] = AllOn THEN Broadcast ELSE Dip[b]
BootIp(b)   == IF Dip[b] = AllOn THEN 0 ELSE Dip[b] + 1

OwnId(b) == IF Dip[b] = AllOn THEN {} ELSE {<<b, Dip[b]>>}

(* The boards have booted; Reboot leads through a boot again. *)
Init ==
    /\ stage = [b \in Boards |-> "run"]
    /\ node = [b \in Boards |-> BootNode(b)]
    /\ ip = [b \in Boards |-> BootIp(b)]
    /\ port = [b \in Boards |-> 0]
    /\ groups = [b \in Boards |-> {}]
    /\ queue = [b \in Boards |-> <<>>]
    /\ call = NoCall
    /\ count = [c \in Counted |-> 0]
    /\ serial = [id \in Ids |-> NoBoard]
    /\ members = [g \in Groups |-> {}] /\ used = {}
    /\ answers = {}
    /\ assigned = UNION {OwnId(b) : b \in Boards}
    /\ mayJoin = {}
    /\ stale = {}
    /\ handled = FALSE /\ unfounded = FALSE
    /\ strays = {}

Become(b, s) == stage' = [stage EXCEPT ![b] = s]

(* main(): frames are received from transport_init() on, and looked at     *)
(* when the loop begins; until then the board is a slow one.  Any error on *)
(* the way ends in an infinite blink.                                      *)
Boot(b) ==
    /\ stage[b] = "off"
    /\ Become(b, "run") \/ Become(b, "dead")
    /\ UNCHANGED <<node, ip, port, groups, queue, hostVars, answers,
                   ghostVars, handled, unfounded, strays>>

(* What remains of the user's assignments when b is reset or switched off. *)
Unassigned(b) == {a \in assigned : a[1] # b} \cup OwnId(b)

(* The board is switched off and on: all its state is as after boot. *)
Reboot(b) ==
    /\ stage[b] # "off" /\ count.reboots < MaxReboots
    /\ Become(b, "off")
    /\ node' = [node EXCEPT ![b] = BootNode(b)]
    /\ ip' = [ip EXCEPT ![b] = BootIp(b)]
    /\ port' = [port EXCEPT ![b] = 0]
    /\ groups' = [groups EXCEPT ![b] = {}]
    /\ queue' = [queue EXCEPT ![b] = <<>>]
    /\ count' = [count EXCEPT !.reboots = @ + 1]
    /\ assigned' = Unassigned(b)
    /\ stale' = stale \cup {id \in Ids : \/ serial[id] = b
                                         \/ <<b, id>> \in assigned}
    /\ UNCHANGED <<call, serial, members, used, answers, mayJoin, handled,
                   unfounded, strays>>

-----------------------------------------------------------------------------
(***************************************************************************)
(* Frames on the network.  A frame is queued at the boards that have its   *)
(* IP address by then, and may be lost at each of them.                    *)
(***************************************************************************)
Hears(b, frame) ==
    /\ stage[b] = "run"
    /\ frame.ip \in {All, ip[b]}

Transmit(frame) ==
    \E got \in SUBSET {b \in Boards : Hears(b, frame)} :
        queue' = [b \in Boards |->
                     IF b \in got THEN Append(queue[b], frame) ELSE queue[b]]

Holders(id) == {b \in Boards : <<b, id>> \in assigned}

(* for: the boards the host means. *)
CommandFrame(c) ==
    [op |-> c.op, dest |-> c.id, ip |-> c.id + 1, no |-> c.no,
     board |-> serial[c.id], val |-> c.val, for |-> Holders(c.id)]

BroadcastFrame(op, dest, b, val, for) ==
    [op |-> op, dest |-> dest, ip |-> All, no |-> 0,
     board |-> b, val |-> val, for |-> for]

-----------------------------------------------------------------------------
(***************************************************************************)
(* The host.                                                               *)
(***************************************************************************)
Waiting == call.sends > 0

(* wl_initNodes(): broadcast CONFIG_SETUP.  The user gives an ID to one    *)
(* board at a time.                                                        *)
SetUp(b, id) ==
    /\ ~Waiting /\ count.setups < MaxSetups
    /\ Holders(id) \subseteq {b}
    /\ count' = [count EXCEPT !.setups = @ + 1]
    /\ assigned' = assigned \cup {<<b, id>>}
    /\ Transmit(BroadcastFrame("setup", Broadcast, b, id, {b}))
    /\ UNCHANGED <<boardVars, call, serial, members, used, answers, mayJoin,
                   stale, handled, unfounded, strays>>

(* A broadcast command to node group g, of which a node is or was. *)
GroupCommand(g) ==
    /\ ~Waiting /\ count.works < MaxWorks
    /\ g \in used
    /\ count' = [count EXCEPT !.works = @ + 1]
    /\ Transmit(BroadcastFrame("work", 2 ^ g, NoBoard, 0,
                               {b \in Boards : <<b, g>> \in mayJoin}))
    /\ UNCHANGED <<boardVars, call, serial, members, used, answers,
                   ghostVars, handled, unfounded, strays>>

(* applyConfiguration() ends with info; the calls before it change nothing *)
(* the host relies on.  The user gives the other commands to nodes whose   *)
(* info is known, and a reset to one that is in no group and has not been  *)
(* switched off.                                                           *)
Sensible(op, id) ==
    CASE op \in {"initialize", "info"} -> Holders(id) # {}
      [] op = "reset" -> /\ serial[id] # NoBoard /\ id \notin stale
                         /\ \A g \in Groups : <<serial[id], g>> \notin mayJoin
      [] OTHER -> serial[id] # NoBoard

CallNode(op, id, val) ==
    /\ ~Waiting /\ count.calls < MaxCalls
    /\ Sensible(op, id)
    /\ count' = [count EXCEPT !.calls = @ + 1]
    /\ call' = [op |-> op, id |-> id, val |-> val, no |-> count'.calls,
                sends |-> 1]
    /\ Transmit(CommandFrame(call'))
    \* wl_initNodes() makes new node objects
    /\ serial' = IF op = "info" THEN [serial EXCEPT ![id] = NoBoard]
                 ELSE serial
    /\ members' = CASE op = "info" -> [g \in Groups |-> members[g] \ {id}]
                    [] op = "clear" -> [members EXCEPT ![val] = @ \ {id}]
                    [] OTHER -> members
    /\ mayJoin' = IF op = "add" THEN mayJoin \cup (Holders(id) \X {val})
                  ELSE mayJoin
    /\ stale' = CASE op = "info" -> stale \ {id}
                  [] op = "reset" -> stale \cup {id}
                  [] OTHER -> stale
    /\ UNCHANGED <<boardVars, used, answers, assigned, handled, unfounded,
                   strays>>

(* Node commands and, with a group, the two group commands *)
CallAny ==
    \E op \in Ops, id \in Ids :
        \E val \in IF op \in {"add", "clear"} THEN Groups ELSE {0} :
            CallNode(op, id, val)

(* Mutant: one attempt more. *)
SendAgainOneMore ==
    /\ Waiting /\ call.sends <= MaxSends
    /\ call' = [call EXCEPT !.sends = @ + 1]
    /\ Transmit(CommandFrame(call))
    /\ UNCHANGED <<boardVars, count, serial, members, used, answers,
                   ghostVars, handled, unfounded, strays>>

(* The answer is late or lost: the same packet is sent again. *)
SendAgain ==
    /\ Waiting /\ call.sends < MaxSends
    /\ call' = [call EXCEPT !.sends = @ + 1]
    /\ Transmit(CommandFrame(call))
    /\ UNCHANGED <<boardVars, count, serial, members, used, answers,
                   ghostVars, handled, unfounded, strays>>

EndCall ==
    /\ call' = NoCall /\ handled' = FALSE
    /\ UNCHANGED <<boardVars, queue, count, strays>>

(* "maximum number of retransmissions met without reply from node" *)
GiveUp ==
    /\ Waiting /\ call.sends = MaxSends
    /\ EndCall
    /\ serial' = IF call.op = "reset" THEN [serial EXCEPT ![call.id] = NoBoard]
                 ELSE serial
    /\ UNCHANGED <<members, used, answers, ghostVars, unfounded>>

(* Mutant: the sequence number is not looked at. *)
IsReplyAnyNumber(a) == Waiting /\ a.src = call.id

IsReply(a) == Waiting /\ a.src = call.id /\ a.no = call.no

IgnoreAnswer(a) ==
    /\ Waiting /\ ~IsReply(a)
    /\ answers' = answers \ {a}
    /\ UNCHANGED <<boardVars, queue, hostVars, ghostVars, handled, unfounded,
                   strays>>

ReceiveAnswer(a) ==
    /\ IsReply(a)
    /\ EndCall
    /\ answers' = answers \ {a}
    /\ unfounded' = (unfounded \/ ~handled)
    /\ serial' = CASE call.op = "info" -> [serial EXCEPT ![call.id] = a.board]
                   [] call.op = "reset" -> [serial EXCEPT ![call.id] = NoBoard]
                   [] OTHER -> serial
    /\ members' = IF call.op = "add"
                  THEN [members EXCEPT ![call.val] = @ \cup {call.id}]
                  ELSE members
    /\ assigned' = IF call.op = "reset"
                   THEN Unassigned(serial[call.id]) ELSE assigned
    /\ used' = IF call.op = "add" THEN used \cup {call.val} ELSE used
    /\ mayJoin' = IF call.op = "clear"
                  THEN mayJoin \ (Holders(call.id) \X {call.val}) ELSE mayJoin
    /\ UNCHANGED stale

HostStep ==
    \/ \E b \in Boards, id \in UserIds : SetUp(b, id)
    \/ \E g \in Groups : GroupCommand(g)
    \/ CallAny \/ SendAgain \/ GiveUp
    \/ \E a \in answers : IgnoreAnswer(a) \/ ReceiveAnswer(a)

-----------------------------------------------------------------------------
(***************************************************************************)
(* A board in its main loop.                                               *)
(***************************************************************************)
Bits(n) == {k \in 0 .. 15 : (n \div 2 ^ k) % 2 = 1}

(* A socket is bound to the frame's address and port. *)
Bound(b, frame) ==
    frame.ip = All \/ (frame.ip = ip[b] /\ StartingPort = port[b])

(* Mutant: any bit of the destination will do. *)
PassesAnyGroup(b, dest) ==
    dest \in {node[b], Broadcast} \/ Bits(dest) # {}

(* transport_receive(): the destination is this node, every node, or a     *)
(* group of this node.                                                     *)
Passes(b, dest) ==
    \/ dest \in {node[b], Broadcast}
    \/ Bits(dest) \cap (8 .. 15 \cup groups[b]) # {}

Takes(b, frame) == Bound(b, frame) /\ Passes(b, frame.dest)

Poll(b) ==
    /\ stage[b] = "run" /\ queue[b] # <<>>
    /\ queue' = [queue EXCEPT ![b] = Tail(@)]
    /\ UNCHANGED <<hostVars, ghostVars, unfounded>>

Ignore(b) ==
    /\ Poll(b)
    /\ ~Takes(b, Head(queue[b]))
    /\ UNCHANGED <<boardVars, answers, handled, strays>>

(* The ID 2^g of group g is an ordinary node ID, too: the command to the   *)
(* group looks like one to this node.                                      *)
Namesake(b, frame) == frame.op = "work" /\ frame.dest = node[b]

(* A command is carried out, by a board it is meant for or by another. *)
CarryOut(b, ops) ==
    /\ Poll(b)
    /\ LET frame == Head(queue[b])
       IN /\ Takes(b, frame) /\ frame.op \in ops
          /\ handled' = (handled \/ (Waiting /\ frame.no = call.no))
          /\ strays' = IF b \in frame.for \/ Namesake(b, frame)
                       THEN strays ELSE strays \cup {b}

(* The header of the answer is made before the command is carried out: it  *)
(* has the node ID and the sequence number of that moment.                 *)
Reply(b) == [src |-> node[b], no |-> Head(queue[b]).no, board |-> b]

(* transport_send(); the answer may be lost *)
Answer(b) == answers' \in {answers, answers \cup {Reply(b)}}

(* node_send_early_resp(): sent before the command is carried out, and     *)
(* nothing after it.                                                       *)
EarlyAnswer(b) == Answer(b)

(* CMDID_NODE_INITIALIZE; an error ends in an infinite blink, without an   *)
(* answer.  The node's identity and groups stay.                           *)
Initialize(b) ==
    /\ CarryOut(b, {"initialize"})
    /\ \/ Answer(b) /\ UNCHANGED stage
       \/ Become(b, "dead") /\ UNCHANGED answers
    /\ UNCHANGED <<node, ip, port, groups>>

(* CMDID_NODE_INFO, and two commands that leave the same traces: IDENTIFY, *)
(* which answers early and then blinks, so that the board looks at no      *)
(* frame for a while, and TEMPERATURE.                                     *)
Info(b) ==
    /\ CarryOut(b, {"info"})
    /\ Answer(b)
    /\ UNCHANGED boardVars

(* A command of a group, from its own point of view anything. *)
Work(b) ==
    /\ CarryOut(b, {"work"})
    /\ UNCHANGED <<boardVars, answers>>

(* Mutant: a board that has been set up is set up again. *)
SetupForThisAgain(b) == Head(queue[b]).board = b

SetupForThis(b) ==
    node[b] = Broadcast /\ Head(queue[b]).board = b

(* CMDID_NODE_CONFIG_SETUP *)
ConfigSetup(b) ==
    /\ CarryOut(b, {"setup"})
    /\ SetupForThis(b)
    /\ LET id == Head(queue[b]).val
       IN /\ node' = [node EXCEPT ![b] = id]
          /\ ip' = [ip EXCEPT ![b] = id + 1]
          /\ port' = [port EXCEPT ![b] = id]
    /\ UNCHANGED <<stage, groups, answers>>

ConfigSetupIgnored(b) ==
    /\ Poll(b)
    /\ Head(queue[b]).op = "setup" /\ ~SetupForThis(b)
    /\ UNCHANGED <<boardVars, answers, handled, strays>>

(* CMDID_NODE_CONFIG_RESET: it answers first, and compares the serial      *)
(* number then.  transport_get_hw_info() is called with its two addresses  *)
(* exchanged.                                                              *)
ConfigReset(b) ==
    /\ CarryOut(b, {"reset"})
    /\ EarlyAnswer(b)
    /\ IF Head(queue[b]).board = b
       THEN /\ node' = [node EXCEPT ![b] = Broadcast]
            /\ ip' = [ip EXCEPT ![b] = Mac]
            /\ port' = [port EXCEPT ![b] = 0]
       ELSE UNCHANGED <<node, ip, port>>
    /\ UNCHANGED <<stage, groups>>

(* CMDID_TRANSPORT_NODE_GROUP_ID_ADD *)
GroupIdAdd(b) ==
    /\ CarryOut(b, {"add"})
    /\ Answer(b)
    /\ groups' = [groups EXCEPT ![b] = @ \cup {Head(queue[b]).val}]
    /\ UNCHANGED <<stage, node, ip, port>>

(* CMDID_TRANSPORT_NODE_GROUP_ID_CLEAR *)
GroupIdClear(b) ==
    /\ CarryOut(b, {"clear"})
    /\ Answer(b)
    /\ groups' = [groups EXCEPT ![b] = @ \ {Head(queue[b]).val}]
    /\ UNCHANGED <<stage, node, ip, port>>

BoardStep(b) ==
    \/ Boot(b) \/ Reboot(b)
    \/ Ignore(b) \/ Initialize(b) \/ Info(b)
    \/ Work(b) \/ ConfigSetup(b) \/ ConfigSetupIgnored(b) \/ ConfigReset(b)
    \/ GroupIdAdd(b) \/ GroupIdClear(b)

Next == HostStep \/ \E b \in Boards : BoardStep(b)

Spec == Init /\ [][Next]_vars

-----------------------------------------------------------------------------
(***************************************************************************)
(* Properties.                                                             *)
(***************************************************************************)

(* A command is carried out only by the board it is meant for, and a group *)
(* command only by boards the host has told to join and whose clearing has *)
(* not been answered since: "so it can ignore broadcast commands that are  *)
(* received from that node group".  A board whose own node ID is the ID of *)
(* the group is the one exception, which the comment at the receive filter *)
(* does not make: "if this message is not for the given node, then ignore  *)
(* it".                                                                    *)
OnlyAddressed == strays = {}

(* An answer the host takes means that the command it waits for has been   *)
(* carried out, whatever answers to earlier copies and calls still come.   *)
AnswerMeansDone == ~unfounded

(* While the board of a node is neither reset nor switched off, it keeps   *)
(* the ID, address and port at which the host has found it, and is in      *)
(* every group the host has put the node in.                               *)
HostViewHolds ==
    \A id \in Ids \ stale :
        serial[id] # NoBoard =>
            LET b == serial[id]
            IN /\ node[b] = id /\ ip[b] = id + 1 /\ port[b] = StartingPort
               /\ \A g \in Groups : id \in members[g] => g \in groups[b]

-----------------------------------------------------------------------------
(***************************************************************************)
(* Conditions of theorems about these properties: switches tell boards     *)
(* apart, as wl_nodesConfig() has the IDs of its table, and no node has ID *)
(* 254, whose address would be the broadcast address.                      *)
(***************************************************************************)
Distinct ==
    \A b, c \in Boards : Dip[b] = Dip[c] /\ Dip[b] # AllOn => b = c

Addressable == 254 \notin Ids

Ordinary == Distinct /\ Addressable

=============================================================================
