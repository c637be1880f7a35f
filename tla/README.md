# WARPLab 7: a verification of its node firmware and host transport

WARPLab lets a MATLAB host send waveforms to software-radio nodes, trigger a
transmission and a capture, and read the captured samples back. This directory
holds TLA+ models of the code that moves the samples, of the triggers that
start them, and of the configuration and transport underneath; TLC
configurations that check them on small instances; and proofs. Paths below are
under `src/`; `wl_*.c` of the node are in `C_Code_Reference/`,
`wl_mex_udp_transport.c` ("the MEX file") in `M_Code_Reference/mex/`.

## 1. The system

### Components

| Component | State | Operations | Makes it correct |
|---|---|---|---|
| **Buffers core** (hardware, `Sysgen_Reference/w3/w3_warplab_buffers`) | BRAM per RF interface, read/write offsets, enables, lengths, running flags, error latches | capture or transmit on a trigger, raise interrupts | no sample is lost without an error |
| **Baseband firmware** (`wl_baseband.c`) | `rx_buffer_size`, supported lengths, DDR buffers, Write IQ checksum, ring of Ethernet headers | RX and TX interrupt handlers; commands RX/TX_LENGTH, buffer enables, WRITE_IQ, READ_IQ, READ_RSSI, AGC | a capture reaches DDR whole; a transmission sends what was written; answers describe what was done |
| **Node transport** (`wl_transport.c`) | sockets, group and node IDs | poll, filter by destination, dispatch, reply policy, payload test | commands for this node are answered once and only as asked |
| **Node** (`wl_node.c`) | node ID, IP, interrupt state | boot, main loop, CONFIG_SETUP / CONFIG_RESET, information | a node can be (re)configured while commands are under way |
| **Trigger manager** (`wl_trigger_manager.c`) | mask of Ethernet trigger IDs, hardware or software trigger per device | add, delete, clear, select, delay, enable | an enabled trigger fires once on every device |
| **CDMA, interrupts, timer** (`wl_common.c`) | one DMA engine, interrupt state | transfer, stop/restore interrupts, 64-bit timestamp | main loop and handlers share the engine |
| **Host MEX transport** (MEX file) | sockets, IQ ID, checksum, sample tracker | Write IQ packet loop; Read IQ receive loop, splitting | the samples in the node, or in MATLAB, are those asked for |
| **Host command transport** (`classes/wl_transport_*.m`) | sequence number, retries | send and wait for the reply, resend | a reply belongs to its command |
| **Host classes** (`classes/*.m`), **interface and user commands** (`wl_interface.c`, `wl_user.c`), **AGC and packet hardware**, examples, FPGA projects | parameters | argument building, single register accesses | no protocol of their own |

### How they interact

The firmware is one polling loop (`wl_node.c` `main` -> `transport_poll` ->
`transport_receive` -> `*_process_cmd`) interrupted by the RX and the TX
handler of the buffers core. The core's radio side runs on its own: it writes
BRAM while the handler copies BRAM to DDR. The Ethernet DMA also runs on its
own: it reads headers and samples after `socket_sendto_raw` has returned. The
host talks UDP: datagrams may be lost; the waits of the MEX file count empty
polls, so an answer may come after the host has given up on it. Sockets live
as long as the MEX function is loaded, so datagrams of one call can be met by
the next.

### What is hard

* pools whose sizes stand in for flow control (header ring and TX BDs, half a
  BRAM and the latency of the handler);
* offsets that a handler reads, uses and writes back while the hardware moves;
* commands (enables, reset, length) in the middle of a capture;
* loss, retransmission and late answers over identifiers that are absent
  (Read IQ) or repeat (Write IQ restarts);
* an engine that main loop and handlers share without a lock;
* commands sent again under the same number, carried out late or twice, by
  nodes that are reset, renamed or switched off in the meantime;
* frames that come in while registers are rewritten one by one;
* indices kept by objects into a table that may be closed and used again;
* boundaries: last request, last chunk, length over the limit.

`PROJECT.json` lists each hazard at its line with the properties aimed at it.

## 2. The modules

| Module | Models | Checked by |
|---|---|---|
| `ReadIqStream` | abstract: the packets of a Read IQ leave in order, each under its own header and at most once, and those left out were reported | refinement in `ReadIqHeaderRing` |
| `ReadIqHeaderRing` | the node's Read IQ packet loop, the driver's queue, the Ethernet DMA | `MCReadIqHeaderRing`, proofs |
| `RxCapture` | RX half of the buffers core, RX handler, the commands that touch it, the Read IQ guard | `MCRxCapture`, proofs |
| `TxPlayback` | TX half of the buffers core, TX handler, loading of the BRAM, the commands that touch it, the node's side of Write IQ | `MCTxPlayback`, proofs |
| `WriteIqTransfer` | the host's Write IQ loop, the node's WRITE_IQ handler, the network | `MCWriteIqTransfer`, proofs |
| `ReadIqTransfer` | the host's Read IQ loops (splitting and receiving), the node's answers, the network | `MCReadIqTransfer*`, proofs |
| `TransferService` | abstract: what a copy service promises to two contexts, one urgent | refinement in `CdmaSharing` |
| `CdmaSharing` | `wl_cdma_transfer`, called by the main loop and by handlers that interrupt it | `MCCdmaSharing`, `MCCdmaSharingRefused`, proofs |
| `TriggerManager` | trigger IDs, packet detector, input selection, held outputs, and the host that sets them | `MCTriggerManager`, proofs |
| `NodeConfig` | boot, node ID and address, receive filter, groups, command dispatch and answers, the host's retries | `MCNodeConfig`, proofs |
| `SocketPool` | the socket table of the MEX file and the MATLAB objects that use it | `MCSocketPool`, proofs |

Proofs are in `<Module>_proofs`; those of `TxPlayback` and `CdmaSharing`, the
two parts of the transmit path, are together in `TxPath_proofs`, which is why
the definitions of `CdmaSharing` that every module has carry its name
(`CdmaInit`, `CdmaNext`, `CdmaTypeOK`). The `MC*` modules only extend these, with the
values that a `.cfg` file cannot hold. A definition whose comment starts with
"Mutant" is a faulty variant of the definition after it; `PROJECT.json` says
which property detects it.

### ReadIqHeaderRing

`cpu`, `pkt`, `numPkts`, `hdrOffset` are the loop's locals, `ring` is
`ETH_IQ_buffer`; a header is the number of the packet it describes. `queue`
and `fetched` stand for the driver and DMA, which are outside `src/`: a packet
takes two TX BDs, the send returns once two are free, and the DMA reads the
header some time later. `Init` has `baseband_check_parameters` as a conjunct:
a node that fails it does not start. A command starts at slot 0 whatever the
driver still holds; `others` counts those packets of earlier commands.
The send of any packet may fail: the loop prints a warning and goes on to the
next packet and the next slot, and `lost` records the gap. A failed send takes
a slot and no TX BD, so failures among packets that wait bring the loop
closer to them; `MaxFails` bounds how many of those there are (`Failed`), and
any number may fail while the driver holds nothing of the command.

The properties are about the packets of the command under way. The loop can
rebuild the headers of packets left over from an earlier command, which the
code does not prevent; the host has then given up waiting for them or has all
it asked for, and no property is stated about them.

### RxCapture

Sizes are in samples and a chunk is half the BRAM (16 Ki samples in the code).
A sample is `<<capture, index>>`, so a property can tell an old one from a new
one. `rd` is the read offset register; `written` is the write offset
plus four bytes. `StartCapture` and `WriteSample` follow the notes in the
Simulink model: offsets and occupancy move only while the core runs, the
occupancy is an unsigned difference, the interrupt is the rising edge of
"occupancy over threshold" or "done", a start clears the error latch. The
whole handler is one action, as the main loop cannot run during it; the radio
may write up to `MaxLag` samples between the interrupt and the handler
(`lag`). The CDMA copies of one handler are taken as finished when it ends.
Commands run between interrupts (`~irq`). `armed` (interfaces enabled since
the start) and `copied` are history variables. RSSI follows IQ at an eighth of
the size and is left out.

Enables and reset may come at any moment of a capture; `changes` counts those
that do, up to `MaxChanges`. `interfered` records that the host has then
enabled an RX buffer or left none enabled, after which only `Delivered` is
claimed.

A Read IQ is two steps: `ReadIq` is its test and the beginning of its packet
loop, `ReadSent` the end; in between the radio writes and the handler runs, and
no other command starts (`NextCommand`). `reading` has the interface and the
samples of the read and the write offset at which it was let in. The test
compares with what the radio has written to the BRAM, and the packets are read
from the DDR buffer (without DRAM, from the BRAM): `Received` asks for the
samples where the packets are read from, during the whole loop.

### TxPlayback

The mirror image of `RxCapture`: sizes are in samples and a chunk is half the
BRAM. A sample in BRAM is `<<writer, index>>`, in DDR its writer alone, so a
sample that is old, out of place or of another lap is told from the right one.
`SendSample` is the radio's step with the core's equations around it:
`LargeTx`, `WriteNotDone` and the occupancy decide about the interrupt and the
underflow latch. `Isr` is the whole TX handler: the next chunk, or the first
two when all is sent, or the first one when a continuous transmission starts
over. `TxIqError` is the test of the underflow bit, which by its mask and
shift is never true. `Populate` is `populate_tmp_tx_buffers`, called by
`TxBuffEn`, `TxRxBuffDis` and the last packet of `WriteIq`. The guard of
WRITE_IQ compares the first sample of the packet with the read address.

History: `armed`, the buffers that were enabled and loaded at the start;
`wave`, what each of them was to send; `wrong`, those that sent something
else. `unloaded` are the buffers whose BRAM the code leaves to the host to
load again: written without a last packet since, or with one during a
transmission that has no final interrupt (`FinalInterrupt`: one that fits in
the BRAM and a continuous one have none), or a long continuous transmission
ended under way. Nothing restricts when the host writes.

### CdmaSharing and TransferService

A call has the steps of `wl_cdma_transfer`: `check` for an error, `reset`,
`wait` for the engine, `start`. Each is an action, and a handler may take the
CPU before any of them; handlers are not interrupted. `ClearDdr` runs before
interrupts are on, the commands' copies after. The engine ends a copy in its
own time, well or with an error. `outcome` says of each copy what became of
it. `TransferService` knows only the status of each copy (`idle`, `asked`,
`running`, and how it was settled) and which may follow which; `StatusMap` in
`CdmaSharing` is the refinement mapping: a copy is asked for from the call on
and running while the engine has it.

### TriggerManager

`inbox` is the node's receive queue, with commands and trigger frames in the
order of arrival. A trigger frame is looked at twice: by the detector as it
comes in, if hardware triggers are selected, and by the main loop when it
takes it from the queue, if software triggers are. `work` holds the register
writes that a command has still to make: `wl_pkt_proc_set_ethernet_id` first
makes all operators "no care", then writes the template and the operators, and
`trigmngr_init` enables all inputs before it disables the Ethernet one; frames
come in between. `conf` are the bits of an output's OR and AND fields,
computed from the sums that INPUT_SEL makes of the masks. The host waits for
the answer of one command at a time and sends it again up to `MaxSends` times,
so that late copies stay behind in `inbox`.

`asked` is the configuration as the host knows it. Each frame has what the
host may expect of it at each output (`due`: `fire`, `quiet`, or `any` while
the node rewrites hardware triggers) and how often it drove it (`fired`).
`unread` are the held outputs that the host has not asked to clear.

### NodeConfig

A board is `off`, runs its main loop or is `dead` (the infinite blink after an
error). `Reboot` switches it off, `Boot` is `main` and `node_init` up to the
loop; frames that come before the loop wait in `queue`. A frame reaches the
queue of every board that has its IP address when it is sent, or is lost
there. `Poll` takes a frame from it, `Takes` is the filter of
`transport_receive` (socket and destination), and each command is an action
(`Initialize`, `Info`, `ConfigSetup`, `ConfigReset`, `GroupIdAdd`,
`GroupIdClear`, and `Work` for any other command of a group). The answer's
header is made before the command is carried out;
CONFIG_RESET and IDENTIFY answer early. On the host, `call` is the command
that is waited for and `call.no` its sequence number, which a repetition
keeps.

`assigned`, `mayJoin` and `stale` say what the host and its user may still
rely on; `strays`, `unfounded` and `handled` record what was carried out by
whom. Node IDs may be the IDs of groups in use; a board that carries out the
command of a group whose ID is its own (`Namesake`) is no stray. The user
gives an ID to one board at a time, uses the other commands only for nodes whose information has been read, and does not reset a node that
is in a group.

### SocketPool

`table` is `sockets[]`. The actions are the calls that objects make: `Open`
and its failures (`init_socket`, with the entry that is left marked in use),
`send_socket`, `receive_socket` (the packet structure stays allocated while
nothing arrives), `close_socket` on deletion. `Unload` is the exit function of
the MEX file; "clear all" unloads it and deletes the objects in either order.
A socket is named by the object it was opened for, so the model sees an index
that has come to mean another object's socket.

### WriteIqTransfer

The host's program counter is `send` (build and send packet `i`), `poll` (one
look at the socket) or `wait` (the loop until an answer or a timeout). The
checksum is the sequence of packets it was computed over, that is, Fletcher-32
is taken to tell two sequences apart. `sum` and `buf` are the node's. `Busy`
is the guard of WRITE_IQ; the number of packets that lie 16 Ki samples behind
the transmission is `txPos`, moved by the environment. A refusal is answered
even if no answer was asked for (`NODE_NOT_READY` in `transport_receive`), a
success only with the robust flag. Not modelled: jumbo packets are also
refused when more than two buffers transmit (four-RF designs). The copy of the
last packet's buffer into BRAM is in `TxPlayback`.

`MaxLate` bounds how many answers may be in flight when the host's single poll
finds its socket empty. The host counts empty polls, so its timeout may come
while the command or its answer is still under way; `early` counts such
timeouts and `MaxEarly` bounds them.

### ReadIqTransfer

`req` is one call of `wl_read_baseband_buffer`, `args` what the command buffer
asks for at the moment (timeouts change it), `tracker`, `rcvd`, `numRcvd` the
locals of its loop. `InOrder` is `wl_read_iq_find_error` as written: its inner
loop looks at element `i`, so it finds the longest prefix *received in order*.
`SampleError` is the comparison of sums. `out[p]` is the read whose answer
last filled sample `p`; positions beyond `NumSamples` exist so that a request
that is too long has somewhere to go. The node sends all packets of a request
at once.

## 3. The runs

Passing runs:

| Run | States | Shows |
|---|---|---|
| `MCReadIqHeaderRing` | 280 k | with 5 headers and 7 TX BDs, any packet of a command may fail, one of them while others wait: `HeaderIntact`, refinement of `ReadIqStream` (`StreamSpec`), every command ends (`ReadEnds`). 8 packets go round the ring and on; a command may find packets of earlier ones in the driver |
| `MCRxCapture` | 1.1 M | with and without DRAM: two interfaces, two captures of 0, 4 or 9 samples with chunk 3 and a DDR of 3 chunks (off and on a boundary, the BRAM wraps), one buffer command or reset while a capture runs, the handler up to a sample late, reads of a chunk: captures reach DDR whole in the buffers left alone or the latch tells (`Delivered`), leave the core ready (`OffsetsReset`), the read offset never passes what was copied (`ReadOffsetReflectsCopy`), a read that is let in past the threshold sends what was captured while the capture goes on (`ReadPastThreshold`), `CaptureEnds` |
| `MCTxPlayback` | 580 k | with and without DRAM, two interfaces, chunk 3, DDR of 4 chunks, lengths 0 and 8, continuous 6 and 12, a packet written before or during any transmission, a handler up to a chunk late: the radio sends the waveform or the underflow latch tells (`Played`), the next transmission finds the start of each loaded buffer in the BRAM (`Reloaded`), `TransmissionEnds` |
| `MCWriteIqTransfer` | 250 k | two transfers of 3 packets, two losses, an early timeout, one transmission or capture: `AckMeansWritten`, `SlowPrefixWritten`, `OneLossRepaired`, `TransferEnds` |
| `MCReadIqTransfer` | 1.3 k | two reads of four packets in two requests, two losses, two deferrals: `ReturnsThisRead`, `NothingLeftOver`, `WithinOutput`, `Completes` |
| `MCCdmaSharing` | 108 k | 2 copies at boot, 3 of the main loop, 4 of handlers, two errors: no copy is forgotten or made twice (`NoneForgotten`), refinement of `TransferService` (`KeepsPromise`), every call returns (`CallsReturn`) |
| `MCTriggerManager` | 1.5 M | two IDs, outputs 1 (with default inputs) and 3 (without), three commands sent up to twice, one frame of others: no output fires without an active ID or twice (`OnlyWhenDue`), every active trigger is heard (`Heard`), held outputs stay (`HeldForHost`) |
| `MCNodeConfig` | 1.1 M | board A set up over the network as node 0 or 1, board B node 4 by its switches, one group, whose ID is 1, too, three commands sent up to twice, a setup, a group command and a reboot: `OnlyAddressed`, `AnswerMeansDone`, `HostViewHolds` |
| `MCSocketPool` | 2.8 k | four objects on a table of two: `OwnTraffic`, `NoneLeaked` |

Each configuration also checks its module's type invariant. `MCRxCapture` has
also been seen to pass with two buffer commands under way and captures of one
and nine samples (7.5 M states).

Runs that show a disagreement between the code and what its comments say
(details under "findings" in `PROJECT.json`):

| Run | Disagreement |
|---|---|
| `MCReadIqHeaderRingLimit` | "the number of Ethernet header buffers should be more than half the number of TX BDs", 5 being the minimum for 10 TX BDs: the boot check lets these sizes through, which are those of the source, and the header of a waiting packet is rebuilt (`HeaderIntact`) |
| `MCReadIqTransferSplit` | a read whose packets divide evenly into requests, the last packet being short, asks for too much in its last request (`WithinOutput`) |
| `MCCdmaSharingRefused` | "this function will wait for the DMA to be ready": a handler that starts a copy between the main loop's test and its start makes the driver refuse the main loop's copy (`WaitsForDma`) |

### Conditions

The passing configurations stay within these by a constant or a conjunct.
Each has been seen to matter by changing the constant, or dropping the
conjunct, and running TLC; no run of the project repeats them, except where one
is named.

| Claim | Holds when | Otherwise |
|---|---|---|
| `HeaderIntact`, `StreamSpec` | `Spare`: the packets that the TX BDs hold and the sends that fail meanwhile (`MaxFails`) are fewer than the headers | a header is rebuilt before the DMA has read it: at the sizes of the source without any failure (`MCReadIqHeaderRingLimit`), with one packet less in the driver after one failure |
| `Delivered`, `ReadOffsetReflectsCopy` | `MaxLag <= Chunk - 2` | the read offset passes what was copied |
| `OffsetsReset` | `Lengths` within the supported one | the length is clamped, `rx_buffer_size` is not, and the end of the capture is not recognised |
| `OffsetsReset`, `ReadOffsetReflectsCopy`, `ReadPastThreshold` | `~interfered`: the last RX buffer is not disabled, nor another enabled, in mid-capture | the handler skips the reset of the read offset with no buffer enabled, and the next capture begins in error, which `Delivered` allows for |
| `ReadPastThreshold` | of a read that is not let in exactly at its threshold | the chunk is full in the BRAM, the interrupt that has it copied comes a sample later, and the read sends old samples from the DDR: against `wl_baseband.c` 1033-1037, "only ... if the requested read has been completely received" |
| `ReadPastThreshold` | `ReadChunks` of at most 1 | the guard adds one chunk to the first sample whatever the length, so a longer read is let through early |
| `Played` | `WholeChunks`: continuous lengths of an even number of chunks, or of at most the BRAM | the lap starts in the half of the BRAM that the refill does not expect |
| `Played` | `WholeChunks`: lengths that are not one sample more than a whole number of chunks (two or more) | the length register holds the index of the last sample, the core compares with `<` and `>`, and the last sample is never copied |
| `Played`, `Reloaded` | `Careful`: the host leaves one buffer of a transmission enabled until its end; `MaxLag` of at most a chunk | with no buffer enabled the handler skips the copy, and the write offset is not put back |
| `Reloaded` | of a buffer that is not `unloaded` | old samples are sent the next time: after an unfinished Write IQ, after a long continuous transmission that was ended, and after a Write IQ that ended during a transmission without a final interrupt, against `wl_baseband.c` 948-950, "the buffers will be populated by the final interrupt" |
| `AckMeansWritten`, `SlowPrefixWritten` | `~stray`: no answer of an earlier transfer was taken | an answer with a foreign IQ ID is taken as the acknowledgement; `DoneMeansWritten` is the claim without this condition |
| `OneLossRepaired` | one loss, no early timeout | a retransmission in slow mode is counted twice by the local checksum; `AbortsOnlyAtMaxRetry` states that this does not happen and fails |
| `OneLossRepaired` | no busy node | a restart after NODE_NOT_READY can meet an answer of the pass it abandoned, with the same IQ ID, and die of its checksum |
| `WithinOutput` | the request size does not divide the number of packets, or the last packet is full | `MCReadIqTransferSplit` |
| `ReturnsThisRead`, `NothingLeftOver` | `Undisturbed`: `Patient`, and `MaxDefer` of at most `MaxIqRetry`; `Completes` needs `MaxLoss` within the retries, too | with more deferrals than `MaxIqRetry` the host sends the request once more before it gives up, and the next read takes the answer for its own |
| that a read misses no packet (`NoPacketMissing`) | no timeout comes early (`Patient`), or nothing is lost | with both, duplicates whose start samples add up hide missing packets: only sums are compared |
| `OnlyWhenDue`, `Heard` | hardware triggers are selected while no ID is active (`Sensible`); no input is named twice in a selection (`Readable`); frames that come in while hardware triggers are rewritten are exempt | the detector keeps the IDs of the other mode; masks are added, so that a repeated input selects its neighbour; every frame matches between two writes |
| `OnlyAddressed` | of a board whose node ID is not the ID of the group (`Namesake`) | node 1 carries out the commands to the group with ID 1 without being in it, against `wl_transport.c` 186, "if this message is not for the given node, then ignore it" |
| `HostViewHolds` | a board is found at the starting port the host is configured for; CONFIG_SETUP adds the node ID to the board's | boards set up over the network answer elsewhere unless their ID equals the starting port |
| `OwnTraffic`, `NoneLeaked` | an object is not used after its deletion, and the MEX file is unloaded with all objects or without any | the kept index names another object's socket |

### Bounds

Chunks of two or three samples with a DDR of three or four: the BRAM holds
two, so every wrap of an offset occurs, and a sample more or less crosses
every boundary. Two captures, transmissions, transfers or reads: what one
leaves behind is seen by the next; none of the code looks back further. Three
or four packets: a first, a last and at least one between. One or two losses:
one to break a pass and one to break its repair. Retries of one or two: below,
at and over the limit. Three commands: one whose late copy meets two later
ones. Two boards: the one that is meant and another. Four objects on two
slots: the table fills up, an index is used again, and a failed open leaves an
entry behind. The bounds are constants and appear in the guards under their
names (`MaxCaptures`, `MaxTx`, `MaxCalls` and so on).

Deadlock is checked for `ReadIqHeaderRing` and `TxPlayback`. The other models
stop when their bounds are used up, so their configurations turn the check
off; progress is stated by `CaptureEnds`, `TransferEnds`, `Completes` and
`CallsReturn`.

### Fairness

* `ReadIqHeaderRing`: weak fairness of the CPU in its loop and of the DMA,
  which is hardware that drains its queue.
* `RxCapture`, `TxPlayback`: weak fairness of the radio's sample clock and of
  the interrupt. No fairness of commands.
* `WriteIqTransfer`, `ReadIqTransfer`: weak fairness of the host's loop, of
  its poll counter (`Timeout`) and of the node's main loop. Transmissions and
  captures of a given length end (`EndTx`, `EndRx`); for a continuous
  transmission `EndTx` is a host command and enabled between transfers only.
  The network loses at most `MaxLoss` datagrams.
* `CdmaSharing`: weak fairness of the CPU, which executes the steps of a call,
  and of the engine, which ends every copy. Interrupts need not come.
* `TriggerManager`, `NodeConfig`, `SocketPool`: safety only; nothing has to
  happen, as the user decides what to call and the host gives up after its
  attempts.

## 4. Proofs

Each module of proofs has one inductive invariant, one lemma per action (or
per group of actions that leave the same variables alone), and the theorems
that follow. The assumptions are the `ASSUME` of the modelled module, which
only says what kind of values the constants have, and the conditions named
below; bounds such as `MaxCalls` are arbitrary numbers.

**`ReadIqHeaderRing_proofs`**, for any sizes, command lengths and failures:
`TypeCorrect` (`TypeOK`, and with it that the driver never holds more packets
than its TX BDs allow); and under `Spare` `HeadersSafe` (`HeaderIntact`) and
`ImplementsStream` (`StreamSpec`, the refinement). `HeaderIntact` is not
inductive: to see that building a header spares the slots in use one must know
which slots are in use. `RingInv` adds that (`Window`: a packet that waits
sits as many slots behind the loop as the loop has gone on since; `Near`: that
is no further than the packets in the driver and the sends that failed), that
a header stays in its slot between `memcpy` and send (`Built`), and that every
packet passed is on the wire, waits or was reported (`Accounted`). `Spare`
keeps the sum below `NumHdr`, hence no slot in the window is the one being
built. `Spare` is not what the boot check gives, which admits one packet more:
`MCReadIqHeaderRingLimit` shows that the theorem needs it.

**`RxCapture_proofs`**, for any interfaces, chunk and buffer size, lengths,
commands and number of captures: `TypeCorrect` (`TypeOK`); under `Ordinary`
(`MaxLag + 2 <= Chunk`, lengths are supported ones) `OffsetsAreReset`
(`OffsetsReset`), `OffsetFollowsCopy` (`ReadOffsetReflectsCopy`) and
`CapturesDelivered` (`Delivered` as long as the host has not `interfered`);
and, if besides `ReadChunks` is within `{0, 1}`, `ReadsAreCopied`
(`ReadPastThreshold`). What `Delivered` says of a
finished capture depends on every interrupt before. `CaptureInv` says where
the offsets are on the way (`Tracked`: the read offset starts a chunk; the
radio is at most a chunk ahead while no interrupt is pending, and at most
`lag` more than that when one is) and where the samples are (`Held`: in DDR
below the read offset, in BRAM from there to the radio's). The condition on
`MaxLag` is what keeps the radio from coming round to a sample of the BRAM
that has not been copied. For a read, the radio is past the chunk, so the
interrupt has been raised, and as commands wait for its handler (`NextCommand`)
the chunk is in the DDR when the read begins; no copy of the same capture
changes it there.

**`ReadIqTransfer_proofs`**, for reads, packets, requests and retry limits of
any size: `TypeCorrect`, among it that the tracker is never overrun, and,
under `LastRequestFits` (the condition of section 3), `StaysWithinOutput`
(`WithinOutput`). `ReadInv` adds that the requests of a read follow one
another in whole packets (`Placed`) and that what is asked for again after a
timeout or a failed check ends where the request ends (`SameEnd`).
Under `Undisturbed`, for any number of losses: `ReturnsOwnSamples`
(`ReturnsThisRead`) and `LeavesNothing` (`NothingLeftOver`). `CleanInv` says
what is in flight (`Traffic`): one request, one deferral, or the last packets
of the request, which are in their places if the host has counted all the
others; and that the output array holds the samples before the request and
those of the packets counted (`Here`). So when the tracker is full it is in
order, every sample up to the end of the request is there (`Whole`), and
nothing is under way; a read dies only of a timeout, when nothing is under way
either. The sums that the host compares are not needed for it: when they
differ although all is in order, the code dies, too.

**`WriteIqTransfer_proofs`**, for any number of packets, retries and losses:
`TypeCorrect`, `AcknowledgedIsWritten` (`AckMeansWritten`) and `SlowModeIsSafe`
(`SlowPrefixWritten`). `WriteInv` follows a packet along the chain of the
checksum: commands reach the node in the order of transfers (`InOrder`), what
is in a node's checksum or in an answer is in the buffer (`Founded`), the
host's checksum covers every packet up to the loop's (`Covered`), and only a
fast pass goes on without an answer (`Polls`).

**`TxPath_proofs`**, `TxPlayback`: for any interfaces, chunk and buffer size
and lengths, `TypeCorrect` (`TypeOK`); and under `Ordinary` `SendsWaveform`
(`Played`) and `ReadyAgain` (`Reloaded`). That the sample sent next is right
depends on copies made chunks ago, so `PlayInv` says where the handler's write
offset and the radio's read address are (`Window`): the BRAM is being filled
chunk by chunk (`Filling`), holds the waveform to its end (`Filled`), or its
first half is the start of the next lap (`Wrapped`); and that what the radio
sends before the next copy is in the BRAM, and what the handler has still to
copy is as loaded in the DDR (`Data`). An interrupt becomes pending when the
radio enters the last chunk before the write offset, so a handler at most a
chunk late either copies before the radio has passed that offset or finds the
underflow latch set. `Control` has what the commands may not change under way,
`Dry` that without DRAM each sample of a packet goes to its own place, and
`Kept` that the start of the waveform is back in the BRAM at rest: this holds
after an underflow, too, since the last interrupt copies it whatever was sent.
Neither theorem says anything of the buffers that are `unloaded`.
`Ordinary` is `Careful`, `WholeChunks`, `MaxLag <= Chunk`, and packets shorter
than a chunk: the guard of WRITE_IQ lets a packet through once the radio is a
chunk past its first sample, whatever its length. The rows of `Played` in
section 3 say what happens otherwise.

**`TxPath_proofs`**, `CdmaSharing`: for any number of copies and errors
`CdmaTypeCorrect` (`CdmaTypeOK`), `NothingForgotten` (`NoneForgotten`) and
`Refinement` (`KeepsPromise`). `CdmaInv` adds that a handler starts its copy on
an idle engine while the main loop may find a handler's in it (`SafeStart`),
that the copy in the engine is unsettled (`EngineOpen`), and that an error has
a cause (`ErrorHasCause`).

**`TriggerManager_proofs`**, for any IDs, outputs, selections, commands,
copies and frames: `HoldsForHost` (`HeldForHost`) and, under `Readable`,
`TypeCorrect`, `FiresOnlyWhenDue` (`OnlyWhenDue`) and `TriggersHeard`
(`Heard`). `HoldInv` adds that no command which would clear a held output is
under way, neither the current one nor a late copy. `ViewInv` relates the node
to `asked`: the node has not carried out the current command and is as the
host last knew it, or it has, and is as the command asks (`Phase`); a late
copy of an earlier command would change nothing, which needs that the copies
of the current command are behind all others in the queue (`Numbered`);
detector and gate follow the mask at every write of a change (`Gates`); and a
trigger in the queue has not driven an output yet and is queued once
(`InQueue`). `Readable` says that the host names existing inputs, each once,
and that a sum of their masks has just their bits; it is a condition because
the provers cannot compute a fold.

**`NodeConfig_proofs`**, for any boards, groups and commands: `TypeCorrect`,
`AnswersAreTrue` (`AnswerMeansDone`), and under `Ordinary` `NoStrays`
(`OnlyAddressed`) and `ViewHolds` (`HostViewHolds`). `DoneInv` adds what a
sequence number proves: none in a queue or an answer is past the current
call's, and an answer with the current one exists only once the command has
been carried out. `HostInv` follows a frame from the host through a queue: a
command is queued only where it is meant to be (`Meant`), frames of the
current call are behind all earlier ones (`Ordered`), so a board that has
answered it has no earlier frame left that could undo what the host concludes
from the answer (`Answered`, `Found`). `Ordinary` is that
switches tell boards apart (`Distinct`), and that no node has ID 254, whose
address would be the broadcast address (`Addressable`).

**`SocketPool_proofs`**, for any objects and table size: `TypeCorrect`,
`TrafficStaysOwn` (`OwnTraffic`), `NothingLeaked` (`NoneLeaked`). `PoolInv`
adds why an index may be kept: an open object's entry holds its socket or,
while all is being cleared, nothing (`Owned`); no two entries hold the same
socket (`Apart`); an entry has a packet only with a socket (`Entries`).

The conditions `Undisturbed`, `Readable`, and `Ordinary` (of `NodeConfig` and of
`TxPlayback`) are
defined beside the properties, and TLC evaluates them on the instances of the
runs, so the theorems are about these instances, too.

Only model-checked: `Delivered` after a command that interfered; `OneLossRepaired`;
and all liveness properties, as the prover handles neither fairness nor
ENABLED.

## 5. Not modelled

* Single-register commands of baseband and AGC, the radio controller interface
  (`wl_interface.c`), user commands (`wl_user.c`), LEDs and MEM_RW: one access
  each, no state to relate.
* Trigger delays, debouncing, energy detection and the test trigger: registers
  of their own that decide when a trigger comes out, not whether.
* RSSI samples: they follow IQ at an eighth of the size.
* The second Ethernet device: the build has `WL_USE_ETH_B` 0.
* The 64-bit timestamp, UART and timer set-up; payload size test and link
  negotiation of the transport: used to print or to set a length once.
* The Java transport: the protocol of the MEX transport without its table.
* Host classes: they build command arguments; the number of packets that they
  fix is a constant of the transfers.
* How long the CDMA takes after a handler has returned: `RxCapture` and
  `TxPlayback` take a copy as made when the handler ends, and `CdmaSharing`
  says nothing of data. Whether a Read IQ that follows at once can overtake
  the last copy is thus open.
* Simulink signal processing, examples and build files.

## 6. What would come next

1. An abstract sample store (a buffer written and read as a whole) that
   `RxCapture` and the two transfers implement under the conditions of
   section 3.
2. `Delivered` for the buffers that stay enabled while others are enabled,
   disabled or reset in mid-capture, by a `CaptureInv` that follows each
   buffer from the moment it was enabled.
