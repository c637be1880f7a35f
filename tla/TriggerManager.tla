--------------------------- MODULE TriggerManager ---------------------------
(***************************************************************************)
(* The trigger manager of the node, its packet detector and the host that  *)
(* configures them.                                                        *)
(*                                                                         *)
(* A broadcast Ethernet frame with a trigger ID reaches the outputs of the *)
(* trigger processor in one of two ways.  With hardware triggers the       *)
(* detector compares every frame on the wire with a template in its        *)
(* memory; with software triggers the main loop finds the frame in its     *)
(* receive queue, behind the commands that arrived before it.  The host    *)
(* sends a command again when the answer is late or lost, so that a        *)
(* command may be carried out twice, and much later than it was answered.  *)
(*                                                                         *)
(* wl_pkt_proc_set_ethernet_id() rewrites the detector's memory a word at  *)
(* a time while frames go by, and trigmngr_init() lets the Ethernet input  *)
(* through for a moment.  Frames that arrive in these windows are part of  *)
(* the model.                                                              *)
(*                                                                         *)
(* One Ethernet device: the build has WL_USE_ETH_B 0, and the code of the  *)
(* other device is the same.                                               *)
(***************************************************************************)
EXTENDS Integers, Sequences, SequencesExt

CONSTANTS
    Ids,            \* Ethernet trigger IDs, one bit each
    Outputs,        \* outputs in use, among 1 .. 6
    IdSets,         \* sets of them the host names in a command or a trigger
    InputLists,     \* lists of inputs the host selects
    MaxCalls,       \* bound on the commands of the host
    MaxSends,       \* times the host sends a command
    MaxFrames       \* bound on the other frames on the wire

ASSUME TriggerAssumption ==
    /\ Outputs \subseteq 1 .. 6
    /\ IdSets \subseteq SUBSET Ids
    /\ InputLists \subseteq Seq(Nat \ {0})
    /\ MaxCalls \in Nat /\ MaxSends \in Nat \ {0} /\ MaxFrames \in Nat

NumInputs == 9      \* NUM_INPUT_TRIGGERS
EthA == 1           \* inputs
EthB == 9

VARIABLES
    mask,           \* active_ethernet_id_mask
    sw,             \* eth_A_sw_ethernet_trigger_enable and the input's mux
    ethEnabled,     \* the Ethernet input's reset bit is clear
    detector,       \* IDs in the packet template; are all operators "no care"
    conf,           \* bits of the OR and AND fields of each output
    hold, latch,    \* hold mode of each output, and what it holds
    work,           \* register writes still to be made for a command
    inbox,          \* commands and trigger frames not yet received
    call,           \* the command the host waits for
    calls,          \* commands called so far
    answered,       \* its answer has arrived at the host
    asked,          \* what the host has configured, as far as it knows
    frames,         \* every frame sent, and what it did
    unread          \* outputs that hold a trigger since the host's last clear

nodeVars == <<mask, sw, ethEnabled, detector, conf, hold, latch, work>>
hostVars == <<call, calls, asked>>
vars == <<nodeVars, hostVars, inbox, answered, frames, unread>>

-----------------------------------------------------------------------------
(***************************************************************************)
(* Selection of the inputs of an output.                                   *)
(***************************************************************************)
Field == 0 .. NumInputs - 1         \* AND_ALL, and OR_ALL shifted down

Mask(input) == IF input <= NumInputs THEN 2 ^ (input - 1) ELSE 0

Bits(n) == {k \in 0 .. 15 : (n \div 2 ^ k) % 2 = 1}

(* The masks are added, not or-ed. *)
SumOfMasks(list) ==
    FoldLeft(LAMBDA sum, input : sum + Mask(input), 0, list)

Select(c, ors, ands) ==
    [or  |-> (c.or \ Field) \cup Bits(SumOfMasks(ors)),
     and |-> (c.and \ Field) \cup Bits(SumOfMasks(ands))]

Baseband == {1, 2}                  \* outputs that start with an input

DefaultInputs(o) == IF o \in Baseband THEN <<EthA, EthB>> ELSE <<>>

(* A pulse on input i alone drives the output. *)
Drives(i, c) ==
    \/ i - 1 \in c.or
    \/ c.and \cap Field = {i - 1}

NoInputs == [or |-> {}, and |-> {}]

-----------------------------------------------------------------------------
Requests ==
    [op : {"add", "del"}, ids : IdSets]
    \cup [op : {"clr", "init", "read"}]
    \cup [op : {"type"}, sw : BOOLEAN]
    \cup [op : {"sel"}, out : Outputs, ors : InputLists, ands : InputLists]
    \cup [op : {"hold"}, out : Outputs, on : BOOLEAN]
    \cup [op : {"clear"}, out : Outputs]

Idle == [step |-> "idle", ids |-> {}, no |-> 0]

Steps == {"idle", "template", "newTemplate", "ops", "newOps", "gate",
          "enableAll", "disableEth"}

Effects == {"fire", "quiet", "any"}

TypeOK ==
    /\ mask \subseteq Ids
    /\ sw \in BOOLEAN /\ ethEnabled \in BOOLEAN
    /\ detector \in [ids : SUBSET Ids, blank : BOOLEAN]
    /\ conf \in [Outputs -> [or : SUBSET Field, and : SUBSET Field]]
    /\ hold \in [Outputs -> BOOLEAN] /\ latch \in [Outputs -> BOOLEAN]
    /\ \A o \in Outputs : latch[o] => hold[o]
    /\ work \in [step : Steps, ids : SUBSET Ids, no : 0 .. MaxCalls]
    /\ Len(inbox) <= MaxCalls * MaxSends + MaxFrames
    /\ call.sends \in 0 .. MaxSends /\ call.no = calls
    /\ answered \in BOOLEAN
    /\ Len(frames) <= MaxFrames
    /\ \A f \in DOMAIN frames :
           /\ frames[f].due \in [Outputs -> Effects]
           /\ frames[f].fired \in [Outputs -> 0 .. 2]
    /\ unread \subseteq Outputs

NoCall == [sends |-> 0, no |-> 0]

(* After trigmngr_init() at boot; the detector's memory is zero. *)
Init ==
    /\ mask = {} /\ sw = FALSE /\ ethEnabled = FALSE
    /\ detector = [ids |-> {}, blank |-> TRUE]
    /\ conf = [o \in Outputs |-> Select(NoInputs, DefaultInputs(o), <<>>)]
    /\ hold = [o \in Outputs |-> FALSE]
    /\ latch = [o \in Outputs |-> FALSE]
    /\ work = Idle
    /\ inbox = <<>>
    /\ call = NoCall /\ calls = 0
    /\ answered = FALSE
    /\ asked = [ids |-> {}, sw |-> FALSE,
                conf |-> [o \in Outputs |-> DefaultInputs(o)],
                ands |-> [o \in Outputs |-> <<>>]]
    /\ frames = <<>>
    /\ unread = {}

-----------------------------------------------------------------------------
(***************************************************************************)
(* The host.  It sends one command at a time and waits for its answer.     *)
(* It switches to hardware triggers only while no ID is active: the switch *)
(* leaves the detector as it is.                                           *)
(***************************************************************************)
Waiting == call.sends > 0

Deliver(packet) == inbox' \in {inbox, Append(inbox, packet)}

Command(req, no) == [kind |-> "command", req |-> req, no |-> no]

Sensible(req) == req.op = "type" /\ ~req.sw => asked.ids = {}

(* The command resets what output o holds. *)
Clears(req, o) ==
    \/ req.op = "init"
    \/ req.op \in {"hold", "clear"} /\ req.out = o

CallNode(req) ==
    /\ ~Waiting /\ calls < MaxCalls
    /\ Sensible(req)
    /\ calls' = calls + 1
    /\ call' = [sends |-> 1, no |-> calls', req |-> req]
    /\ Deliver(Command(req, calls'))
    /\ unread' = {o \in unread : ~Clears(req, o)}
    /\ UNCHANGED <<nodeVars, asked, answered, frames>>

SendAgain ==
    /\ Waiting /\ call.sends < MaxSends
    /\ call' = [call EXCEPT !.sends = @ + 1]
    /\ Deliver(Command(call.req, call.no))
    /\ UNCHANGED <<nodeVars, calls, asked, answered, frames, unread>>

Configured(req) ==
    CASE req.op = "add"  -> [asked EXCEPT !.ids = @ \cup req.ids]
      [] req.op = "del"  -> [asked EXCEPT !.ids = @ \ req.ids]
      [] req.op = "clr"  -> [asked EXCEPT !.ids = {}]
      [] req.op = "type" -> [asked EXCEPT !.sw = req.sw]
      [] req.op = "sel"  -> [asked EXCEPT !.conf[req.out] = req.ors,
                                          !.ands[req.out] = req.ands]
      [] req.op = "init" -> [ids |-> {}, sw |-> FALSE,
                             conf |-> [o \in Outputs |-> DefaultInputs(o)],
                             ands |-> [o \in Outputs |-> <<>>]]
      [] OTHER -> asked

ReceiveAnswer ==
    /\ Waiting /\ answered
    /\ answered' = FALSE
    /\ asked' = Configured(call.req)
    /\ call' = [sends |-> 0, no |-> call.no]
    /\ UNCHANGED <<nodeVars, calls, inbox, frames, unread>>

-----------------------------------------------------------------------------
(***************************************************************************)
(* Frames on the wire.  The detector looks at a frame as it comes in,      *)
(* whatever the main loop is doing.  A frame that passes while all         *)
(* operators are "no care" matches if it passes before they are rewritten. *)
(***************************************************************************)
Matches(ids) ==
    IF detector.blank THEN BOOLEAN ELSE {ids \cap detector.ids # {}}

Updating == work.step # "idle"

Listed(list) == {list[k] : k \in DOMAIN list}

(* What the host expects of a frame that comes in now.  While the node     *)
(* rewrites its registers, hardware triggers are not defined.              *)
Due(ids, o) ==
    IF Updating /\ ~sw THEN "any"
    ELSE IF /\ asked.ids \cap ids # {}
            /\ \/ EthA \in Listed(asked.conf[o])
               \/ Listed(asked.ands[o]) = {EthA}
         THEN "fire" ELSE "quiet"

Driven == {o \in Outputs : Drives(EthA, conf[o])}

(* An output in hold mode, with no clear called or on its way. *)
Keeps(o) ==
    /\ hold[o]
    /\ Waiting => ~Clears(call.req, o)
    /\ \A k \in DOMAIN inbox :
           inbox[k].kind = "command" => ~Clears(inbox[k].req, o)

(* A pulse on the Ethernet input, because of frame f of fs. *)
Pulse(fs, f) ==
    /\ frames' = [fs EXCEPT ![f].fired =
                     [o \in Outputs |-> @[o] + (IF o \in Driven THEN 1 ELSE 0)]]
    /\ latch' = [o \in Outputs |-> latch[o] \/ (o \in Driven /\ hold[o])]
    /\ unread' = unread \cup {o \in Driven : Keeps(o)}

NoPulse(fs) == frames' = fs /\ UNCHANGED <<latch, unread>>

Arrive(ids) ==
    /\ Len(frames) < MaxFrames
    /\ LET new == [ids |-> ids, due |-> [o \in Outputs |-> Due(ids, o)],
                   fired |-> [o \in Outputs |-> 0]]
           fs  == Append(frames, new)
       IN \E match \in Matches(ids) :
              IF match /\ ethEnabled /\ ~sw
              THEN Pulse(fs, Len(fs)) ELSE NoPulse(fs)
    /\ UNCHANGED <<mask, sw, ethEnabled, detector, conf, hold, work,
                   hostVars, answered>>

(* The host broadcasts a trigger; the frame is queued for the main loop. *)
Trigger(ids) ==
    /\ ~Waiting
    /\ Arrive(ids)
    /\ inbox' = Append(inbox, [kind |-> "trigger", frame |-> Len(frames) + 1])

(* Traffic of others, which the node's sockets do not take. *)
OtherFrame == Arrive({}) /\ UNCHANGED inbox

-----------------------------------------------------------------------------
(***************************************************************************)
(* The main loop takes the next packet of its queue.                       *)
(***************************************************************************)
NextPacket(kind) ==
    /\ ~Updating
    /\ inbox # <<>> /\ Head(inbox).kind = kind
    /\ inbox' = Tail(inbox)

(* trigmngr_trigger_in() *)
TriggerIn ==
    /\ NextPacket("trigger")
    /\ LET f == Head(inbox).frame
       IN IF frames[f].ids \cap mask # {} /\ sw /\ ethEnabled
          THEN Pulse(frames, f) ELSE NoPulse(frames)
    /\ UNCHANGED <<mask, sw, ethEnabled, detector, conf, hold, work,
                   hostVars, answered>>

(* The answer may be lost.  The host takes no answer to an earlier call. *)
Answer(no) ==
    answered' \in {answered, answered \/ (Waiting /\ no = call.no)}

(* The command at the head of the queue, if it is one of ops. *)
Receive(ops) ==
    /\ NextPacket("command")
    /\ Head(inbox).req.op \in ops
    /\ UNCHANGED <<hostVars, frames, unread>>

(* update_eth_trigger_control() starts to rewrite the detector. *)
UpdateControl(newMask, no) ==
    /\ mask' = newMask
    /\ work' = [step |-> "template", ids |-> IF sw THEN {} ELSE newMask,
                no |-> no]
    /\ UNCHANGED <<sw, ethEnabled, detector, conf, hold, latch, answered>>

(* Mutant: the IDs to be added take the place of those in the mask. *)
NewMaskSet(req) ==
    CASE req.op = "add" -> req.ids
      [] req.op = "del" -> mask \ req.ids
      [] req.op = "clr" -> {}

NewMask(req) ==
    CASE req.op = "add" -> mask \cup req.ids
      [] req.op = "del" -> mask \ req.ids
      [] req.op = "clr" -> {}

(* ADD_, DEL_ETHERNET_TRIG, CLR_ETHERNET_TRIGS.  The host reads the mask   *)
(* with an ADD of no ID.                                                   *)
ChangeIds ==
    /\ Receive({"add", "del", "clr"})
    /\ UpdateControl(NewMask(Head(inbox).req), Head(inbox).no)

(* HW_SW_ETHERNET_TRIG *)
SetType ==
    /\ Receive({"type"})
    /\ sw' = Head(inbox).req.sw
    /\ Answer(Head(inbox).no)
    /\ UNCHANGED <<mask, ethEnabled, detector, conf, hold, latch, work>>

(* Mutant: the inputs selected before stay selected. *)
InputSelAdds ==
    /\ Receive({"sel"})
    /\ LET req == Head(inbox).req
           new == Select(NoInputs, req.ors, req.ands)
       IN conf' = [conf EXCEPT ![req.out] =
                      [or |-> @.or \cup new.or, and |-> @.and \cup new.and]]
    /\ Answer(Head(inbox).no)
    /\ UNCHANGED <<mask, sw, ethEnabled, detector, hold, latch, work>>

(* INPUT_SEL, for one output *)
InputSel ==
    /\ Receive({"sel"})
    /\ LET req == Head(inbox).req
       IN conf' = [conf EXCEPT ![req.out] = Select(@, req.ors, req.ands)]
    /\ Answer(Head(inbox).no)
    /\ UNCHANGED <<mask, sw, ethEnabled, detector, hold, latch, work>>

(* Mutant: the output leaves hold mode, and what it holds stays. *)
OutputHoldKeeps ==
    /\ Receive({"hold"})
    /\ LET req == Head(inbox).req
       IN hold' = [hold EXCEPT ![req.out] = req.on]
    /\ Answer(Head(inbox).no)
    /\ UNCHANGED <<mask, sw, ethEnabled, detector, conf, latch, work>>

(* OUTPUT_HOLD, for one output; the register is active low. *)
OutputHold ==
    /\ Receive({"hold"})
    /\ LET req == Head(inbox).req
       IN /\ hold' = [hold EXCEPT ![req.out] = req.on]
          /\ latch' = [latch EXCEPT ![req.out] = @ /\ req.on]
    /\ Answer(Head(inbox).no)
    /\ UNCHANGED <<mask, sw, ethEnabled, detector, conf, work>>

(* Mutant: the hold register is written for all outputs. *)
OutputClearAll ==
    /\ Receive({"clear"})
    /\ latch' = [o \in Outputs |-> FALSE]
    /\ Answer(Head(inbox).no)
    /\ UNCHANGED <<mask, sw, ethEnabled, detector, conf, hold, work>>

(* OUTPUT_CLEAR, for one output: hold mode off and on again *)
OutputClear ==
    /\ Receive({"clear"})
    /\ LET o == Head(inbox).req.out
       IN latch' = [latch EXCEPT ![o] = @ /\ ~hold[o]]
    /\ Answer(Head(inbox).no)
    /\ UNCHANGED <<mask, sw, ethEnabled, detector, conf, hold, work>>

(* OUTPUT_READ, for all outputs: nothing is reset by reading it. *)
OutputRead ==
    /\ Receive({"read"})
    /\ Answer(Head(inbox).no)
    /\ UNCHANGED <<mask, sw, ethEnabled, detector, conf, hold, latch, work>>

(* trigmngr_disable_all_triggers() *)
DisableAll == ethEnabled' = FALSE

(* NODE_INITIALIZE, trigmngr_init(): everything but the detector *)
Initialize ==
    /\ Receive({"init"})
    /\ mask' = {} /\ sw' = FALSE /\ DisableAll
    /\ conf' = [o \in Outputs |-> Select(conf[o], DefaultInputs(o), <<>>)]
    /\ hold' = [o \in Outputs |-> FALSE]
    /\ latch' = [o \in Outputs |-> FALSE]
    /\ work' = [step |-> "enableAll", ids |-> {}, no |-> Head(inbox).no]
    /\ UNCHANGED <<detector, answered>>

-----------------------------------------------------------------------------
(***************************************************************************)
(* The register writes of a command, while frames come in.                 *)
(***************************************************************************)
StepTo(from, to) ==
    /\ work.step = from
    /\ work' = [work EXCEPT !.step = to]
    /\ UNCHANGED <<mask, sw, conf, hold, latch, hostVars, inbox, answered,
                   frames, unread>>

ClearTemplate ==
    /\ StepTo("template", "newTemplate")
    /\ detector' = [detector EXCEPT !.ids = {}]
    /\ UNCHANGED ethEnabled

WriteTemplate ==
    /\ StepTo("newTemplate", "ops")
    /\ detector' = [detector EXCEPT !.ids = work.ids]
    /\ UNCHANGED ethEnabled

ClearOps ==
    /\ StepTo("ops", "newOps")
    /\ detector' = [detector EXCEPT !.blank = TRUE]
    /\ UNCHANGED ethEnabled

WriteOps ==
    /\ StepTo("newOps", "gate")
    /\ detector' = [detector EXCEPT !.blank = FALSE]
    /\ UNCHANGED ethEnabled

EnableAll ==
    /\ StepTo("enableAll", "disableEth")
    /\ ethEnabled' = TRUE
    /\ UNCHANGED detector

(* The last write: the Ethernet input is let through while an ID is        *)
(* active, and not after an initialization.                                *)
Gate ==
    /\ work.step \in {"gate", "disableEth"}
    /\ ethEnabled' = (mask # {})
    /\ work' = Idle
    /\ Answer(work.no)
    /\ UNCHANGED <<mask, sw, detector, conf, hold, latch, hostVars, inbox,
                   frames, unread>>

RegisterWrite ==
    ClearTemplate \/ WriteTemplate \/ ClearOps \/ WriteOps \/ EnableAll \/ Gate

NodeStep ==
    \/ TriggerIn \/ ChangeIds \/ SetType \/ InputSel \/ OutputHold
    \/ OutputClear \/ OutputRead \/ Initialize \/ RegisterWrite

HostStep ==
    \/ \E req \in Requests : CallNode(req)
    \/ SendAgain \/ ReceiveAnswer
    \/ \E ids \in IdSets \ {{}} : Trigger(ids)

Next == HostStep \/ NodeStep \/ OtherFrame

Spec == Init /\ [][Next]_vars

-----------------------------------------------------------------------------
(***************************************************************************)
(* Properties.                                                             *)
(***************************************************************************)

(* No frame drives an output without an ID the host has made active, or    *)
(* twice; late copies of a command, a change between hardware and software *)
(* triggers and what earlier selections left change nothing in that.       *)
OnlyWhenDue ==
    \A f \in DOMAIN frames, o \in Outputs :
        /\ frames[f].due[o] = "quiet" => frames[f].fired[o] = 0
        /\ frames[f].fired[o] <= 1

(* A trigger whose ID is active drives every output the host has connected *)
(* to the Ethernet input, by the time the main loop has seen it.           *)
Queued(f) == \E k \in DOMAIN inbox :
                 inbox[k].kind = "trigger" /\ inbox[k].frame = f

Heard ==
    \A f \in DOMAIN frames, o \in Outputs :
        frames[f].due[o] = "fire" => Queued(f) \/ frames[f].fired[o] = 1

(* An output in hold mode holds a trigger until the host asks to clear it, *)
(* unless a copy of an earlier clear was still on its way.                 *)
HeldForHost == \A o \in unread : latch[o]

-----------------------------------------------------------------------------
(***************************************************************************)
(* Condition of theorems about these properties: the host names inputs     *)
(* that exist, each once.  The masks of the inputs are added, so that the  *)
(* bits of the sum are then those of the inputs.                           *)
(***************************************************************************)
Lists == InputLists \cup {<<>>, <<EthA, EthB>>}

Inputs(list) == {i - 1 : i \in Listed(list)}

Readable ==
    \A list \in Lists : /\ Listed(list) \subseteq 1 .. NumInputs
                        /\ Bits(SumOfMasks(list)) = Inputs(list)

=============================================================================
