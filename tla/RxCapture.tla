------------------------------ MODULE RxCapture ------------------------------
(***************************************************************************)
(* Capture of IQ samples by the buffers core and their transfer to DDR.    *)
(*                                                                         *)
(* The radio writes samples into a BRAM of two halves ("ping" and "pong"). *)
(* The core interrupts the CPU when more than half a BRAM is waiting, and  *)
(* when the capture is done; the interrupt handler copies the waiting      *)
(* whole chunks to the DDR buffer while the radio keeps writing.  The main *)
(* loop meanwhile changes lengths and enables, resets the core and serves  *)
(* Read IQ from DDR, while the handler still interrupts it.                *)
(*                                                                         *)
(* Sizes are counted in samples; a chunk is half the BRAM.  RSSI follows   *)
(* IQ at an eighth of the size and is left out.  A sample is the pair of   *)
(* its capture and its index in it.  The buffers core is hardware: it is   *)
(* modelled from the notes of its Simulink model and from how the firmware *)
(* uses its registers.                                                     *)
(***************************************************************************)
EXTENDS Integers, FiniteSets

CONSTANTS
    RF,             \* the RF interfaces with a buffer (RFA, RFB)
    Chunk,          \* WL_BUF_RX_TRANSFER_THRESHOLD_SAMPLES, half the BRAM
    NumChunks,      \* chunks that the DDR buffer of an interface holds
    Lengths,        \* the RX lengths the host asks for
    ReadChunks,     \* the lengths of a Read IQ, in chunks
    MaxCaptures,    \* bound on the captures of a behaviour
    MaxChanges,     \* bound on the buffer commands while captures run
    MaxLag          \* samples the radio may write before a pending
                    \* interrupt is served

ASSUME CaptureAssumption ==
    /\ IsFiniteSet(RF) /\ RF # {}
    /\ Chunk \in Nat /\ Chunk >= 2
    /\ NumChunks \in Nat /\ NumChunks >= 2
    /\ {Lengths, ReadChunks} \subseteq SUBSET Nat
    /\ MaxCaptures \in Nat
    /\ MaxChanges \in Nat
    /\ MaxLag \in Nat

VARIABLES
    useDram,        \* use_dram_for_buffers
    rxLength,       \* RX length register: index of the last sample
    rxBufferSize,   \* rx_buffer_size, in samples
    rxEn,           \* RX buffer enables
    txEn,           \* TX buffer enables
    changes,        \* buffer commands served while captures ran
    interfered,     \* the host has enabled RX buffers, or disabled the last
                    \* one, while a capture ran
    rd,             \* RX IQ read offset register, in samples
    running,        \* RX status: a capture is in progress
    written,        \* samples of the current or last capture in BRAM, which
                    \* is what (wr_byte_offset_update + 4) says
    err,            \* IQ/RSSI error latch
    above,          \* occupancy > threshold, as the core last evaluated it
    irq,            \* RX interrupt pending
    lag,            \* samples written since the interrupt became pending
    capture,        \* number of the current or last capture
    bram,           \* BRAM of each interface
    ddr,            \* DDR buffer of each interface
    armed,          \* enabled since the current or last capture started
    copied,         \* end of what the handler has copied of this capture
    reading         \* the Read IQ that is being sent, if any: its interface,
                    \* its samples, the write offset it was let in at and
                    \* the capture it was let into

regs == <<useDram, rxLength, rxBufferSize>>
enables == <<rxEn, txEn, changes, interfered>>
core == <<running, written, err, above, lag, capture, bram>>
vars == <<regs, enables, rd, running, written, err, above, irq, lag, capture,
          bram, ddr, armed, copied, reading>>

BramSize == 2 * Chunk
MaxSamples == NumChunks * Chunk

\* Mutant: no shorter limit without DRAM.
SupportedAnyway == MaxSamples

\* The longest capture: without DRAM the samples stay in BRAM.
Supported == IF useDram THEN MaxSamples ELSE BramSize

\* RX IQ threshold: a chunk with DRAM, otherwise past the end of the buffer.
Threshold == IF useDram THEN Chunk ELSE BramSize

\* Samples are those of whole chunks: & ..._ALIGNMENT_MASK.
Aligned(n) == Chunk * (n \div Chunk)

Empty == <<0, 0>>

\* What a Read IQ of a buffer that receives nothing is let into.
NoCapture == -1

\* baseband_buffers_config and baseband_reset at boot, with or without DRAM.
Init ==
    /\ useDram \in BOOLEAN
    /\ rxLength = BramSize - 1
    /\ rxBufferSize = BramSize
    /\ rxEn = {}
    /\ txEn = {}
    /\ changes = 0
    /\ interfered = FALSE
    /\ rd = 0
    /\ running = FALSE
    /\ written = 0
    /\ err = FALSE
    /\ above = FALSE
    /\ irq = FALSE
    /\ lag = 0
    /\ capture = 0
    /\ bram = [b \in RF |-> [i \in 0 .. BramSize - 1 |-> Empty]]
    /\ ddr = [b \in RF |-> [i \in 0 .. MaxSamples - 1 |-> Empty]]
    /\ armed = {}
    /\ copied = 0
    /\ reading = {}

-----------------------------------------------------------------------------
(* The buffers core (hardware)                                             *)

\* Occupancy is an unsigned difference: behind the read offset it is huge.
OverThreshold(w, r) == w < r \/ w - r > Threshold
OverBram(w, r) == w < r \/ w - r > BramSize

\* A trigger starts a capture when at least one buffer is enabled: the write
\* address restarts from its initial value and the error latch is cleared,
\* to be set again at once if the occupancy is already past the BRAM.
StartCapture ==
    /\ ~running
    /\ ~irq
    /\ rxEn # {}
    /\ capture < MaxCaptures
    /\ running' = TRUE
    /\ capture' = capture + 1
    /\ written' = 0
    /\ err' = OverBram(0, rd)
    /\ above' = OverThreshold(0, rd)
    /\ irq' = (~above /\ OverThreshold(0, rd))
    /\ lag' = 0
    /\ armed' = rxEn
    /\ copied' = 0
    /\ UNCHANGED <<regs, enables, rd, bram, ddr, reading>>

\* The radio writes the next sample into every enabled BRAM.  The interrupt
\* rises with the occupancy passing the threshold and with the last sample.
WriteSample ==
    LET w == written + 1
        done == written >= rxLength
    IN  /\ running
        /\ irq => lag < MaxLag
        /\ bram' = [b \in RF |->
                       IF b \in rxEn
                       THEN [bram[b] EXCEPT ![written % BramSize] = <<capture, written>>]
                       ELSE bram[b]]
        /\ written' = w
        /\ running' = ~done
        /\ above' = OverThreshold(w, rd)
        /\ err' = (err \/ OverBram(w, rd))
        /\ irq' = (irq \/ (~above /\ OverThreshold(w, rd)) \/ done)
        /\ lag' = IF irq THEN lag + 1 ELSE 0
        /\ UNCHANGED <<regs, enables, rd, capture, ddr, armed, copied, reading>>

\* A write to the read offset register moves the occupancy at once, as long
\* as the core is running.
SetReadOffset(r) ==
    /\ rd' = r
    /\ above' = IF running THEN OverThreshold(written, r) ELSE above
    /\ err' = (err \/ (running /\ OverBram(written, r)))

-----------------------------------------------------------------------------
(* wl_buffers_core_rx_int_handler                                          *)

\* iq_xfer_length: to the write offset, or to the end of the BRAM when the
\* write offset is at or before the read offset in it.
XferLength(r, w) ==
    IF w % BramSize > r % BramSize THEN w - r ELSE BramSize - (r % BramSize)

\* The part of a DDR buffer that one transfer fills.
CopyChunks(buf, mem, r, len) ==
    [i \in 0 .. MaxSamples - 1 |->
        IF i \in r .. r + len - 1 THEN mem[(r % BramSize) + (i - r)] ELSE buf[i]]

\* An overflow is printed, and nothing else happens.
IsrError ==
    /\ irq
    /\ useDram
    /\ err
    /\ irq' = FALSE
    /\ lag' = 0
    /\ UNCHANGED <<regs, enables, rd, running, written, err, above, capture,
                   bram, ddr, armed, copied, reading>>

\* Mutants: the offset is never put back, or moves a chunk too far.
NextReadOffsetKept(w) == w
NextReadOffsetAhead(w) == IF w = rxBufferSize THEN 0 ELSE w + Chunk

\* The new read offset: zero when the capture is over.
NextReadOffset(w) == IF w = rxBufferSize THEN 0 ELSE w

\* Mutant: the interrupt is not acknowledged.
IsrTransferNotAcked ==
    /\ irq /\ useDram /\ ~err
    /\ UNCHANGED vars

\* Copy the waiting chunks of every enabled interface and move the read
\* offset; with no interface enabled the offsets stay as they are.
IsrTransfer ==
    LET w   == Aligned(written)
        len == XferLength(rd, w)
        r   == NextReadOffset(w)
    IN  /\ irq
        /\ useDram
        /\ ~err
        /\ irq' = (running /\ rxEn # {} /\ ~above /\ OverThreshold(written, r))
        /\ lag' = 0
        /\ ddr' = [b \in RF |->
                      IF b \in rxEn THEN CopyChunks(ddr[b], bram[b], rd, len) ELSE ddr[b]]
        /\ IF rxEn # {}
           THEN SetReadOffset(r) /\ copied' = rd + len
           ELSE UNCHANGED <<rd, above, err, copied>>
        /\ UNCHANGED <<regs, enables, running, written, capture, bram, armed, reading>>

\* Without DRAM the interrupt only puts the offsets back to zero.
IsrNoDram ==
    /\ irq
    /\ ~useDram
    /\ irq' = FALSE
    /\ lag' = 0
    /\ SetReadOffset(0)
    /\ UNCHANGED <<regs, enables, running, written, capture, bram, ddr, armed,
                   copied, reading>>

Isr == IsrError \/ IsrTransfer \/ IsrNoDram

-----------------------------------------------------------------------------
(* The main loop: a pending interrupt is taken before its next step        *)

\* The capture is over and its last interrupt served.
Quiet == ~running /\ ~irq

\* The main loop takes the next command.
NextCommand == ~irq /\ reading = {}

\* The size the handler compares with: the request, up to whole chunks.
RoundUp(n) == IF n > Aligned(n) THEN Aligned(n) + Chunk ELSE Aligned(n)

\* Mutant: a length past the supported one is not clamped.
RxLengthUnclamped(n) ==
    /\ NextCommand /\ ~running
    /\ n # 0
    /\ rxBufferSize' = RoundUp(n)
    /\ rxLength' = n
    /\ UNCHANGED <<useDram, enables, rd, core, irq, ddr, armed, copied, reading>>

\* RX_LENGTH with n samples, which the host sets between captures.  Captures
\* longer than the threshold end on a whole chunk; a length of 0 leaves
\* rx_buffer_size alone.
RxLength(n) ==
    LET len == IF n - 1 > Supported - 1 THEN Supported - 1 ELSE n
    IN  /\ NextCommand /\ ~running
        /\ IF n = 0
           THEN /\ rxLength' = 0
                /\ UNCHANGED rxBufferSize
           ELSE /\ rxBufferSize' = RoundUp(n)
                /\ rxLength' = (IF len > Threshold THEN RoundUp(len) ELSE len) - 1
        /\ UNCHANGED <<useDram, enables, rd, core, irq, ddr, armed, copied, reading>>

\* The enables may change at any time; changes counts those under way.
ChangeEnables ==
    /\ NextCommand
    /\ running => changes < MaxChanges
    /\ changes' = IF running THEN changes + 1 ELSE changes

\* RX_BUFF_EN: an interface never transmits and receives at once.
RxBuffEn(sel) ==
    /\ ChangeEnables
    /\ rxEn' = rxEn \cup sel
    /\ txEn' = txEn \ rxEn'
    /\ interfered' = (interfered \/ running)
    /\ UNCHANGED <<regs, rd, core, irq, ddr, armed, copied, reading>>

\* The host leaves no RX buffer enabled until the capture is over.
NoneLeft(sel) == running /\ rxEn \ sel = {}

\* TX_BUFF_EN, which takes the enabled TX buffers from the receiver.
TxBuffEn(sel) ==
    /\ ChangeEnables
    /\ txEn' = txEn \cup sel
    /\ rxEn' = rxEn \ txEn'
    /\ interfered' = (interfered \/ NoneLeft(txEn'))
    /\ armed' = IF running THEN armed \ txEn' ELSE armed
    /\ UNCHANGED <<regs, rd, core, irq, ddr, copied, reading>>

\* Mutant: the other interfaces are disabled along with the selected ones.
TxRxBuffDisAll(sel) ==
    /\ ChangeEnables
    /\ txEn' = {}
    /\ rxEn' = {}
    /\ interfered' = (interfered \/ NoneLeft(RF))
    /\ armed' = IF running THEN armed \ sel ELSE armed
    /\ UNCHANGED <<regs, rd, core, irq, ddr, copied, reading>>

\* TXRX_BUFF_DIS.
TxRxBuffDis(sel) ==
    /\ ChangeEnables
    /\ txEn' = txEn \ sel
    /\ rxEn' = rxEn \ sel
    /\ interfered' = (interfered \/ NoneLeft(sel))
    /\ armed' = IF running THEN armed \ sel ELSE armed
    /\ UNCHANGED <<regs, rd, core, irq, ddr, copied, reading>>

\* baseband_reset: the enables and the read offset, whatever the core does.
BasebandReset ==
    /\ ChangeEnables
    /\ rxEn' = {}
    /\ txEn' = {}
    /\ SetReadOffset(0)
    /\ irq' = (running /\ ~above /\ OverThreshold(written, 0))
    /\ lag' = 0
    /\ armed' = IF running THEN {} ELSE armed
    /\ copied' = 0
    /\ UNCHANGED <<regs, interfered, running, written, capture, bram, ddr, reading>>

\* Mutant: one sample less is enough.
DeferLess(b, start) == running /\ b \in rxEn /\ written + 1 < start + Chunk

\* A Read IQ is put off while the buffer is being received and the capture
\* has not passed a chunk from its first sample.
Defer(b, start) == running /\ b \in rxEn /\ written < start + Chunk

\* READ_IQ of samples start .. start + total - 1 that the node answers: the
\* packet loop begins.
ReadIq(b, start, total) ==
    /\ NextCommand
    /\ ~Defer(b, start)
    /\ start + total <= rxLength + 1
    /\ reading' = {[buff |-> b, start |-> start, total |-> total, at |-> written,
                    of |-> IF running /\ b \in rxEn THEN capture ELSE NoCapture]}
    /\ UNCHANGED <<regs, enables, rd, core, irq, ddr, armed, copied>>

\* Its last packet is out; until then the radio and the handler go on.
ReadSent ==
    /\ ~irq
    /\ reading # {}
    /\ reading' = {}
    /\ UNCHANGED <<regs, enables, rd, core, irq, ddr, armed, copied>>

-----------------------------------------------------------------------------
Host ==
    \/ \E n \in Lengths : RxLength(n)
    \/ \E sel \in SUBSET RF : RxBuffEn(sel) \/ TxBuffEn(sel) \/ TxRxBuffDis(sel)
    \/ BasebandReset
    \/ \E b \in RF, first \in 0 .. NumChunks, n \in ReadChunks :
           ReadIq(b, first * Chunk, n * Chunk)
    \/ ReadSent

Next == StartCapture \/ WriteSample \/ Isr \/ Host

Spec == Init /\ [][Next]_vars

\* The radio delivers samples and the CPU takes interrupts.
FairSpec == Spec /\ WF_vars(WriteSample) /\ WF_vars(Isr)

-----------------------------------------------------------------------------
(* Properties                                                              *)

Cell == (0 .. MaxCaptures) \X (0 .. MaxSamples)

Reading ==
    [buff : RF, start : 0 .. MaxSamples, total : 0 .. MaxSamples,
     at : 0 .. MaxSamples, of : {NoCapture} \cup 0 .. MaxCaptures]

\* The shape of the state: the type invariant of this module.
TypeOK ==
    /\ useDram \in BOOLEAN
    /\ rxLength \in 0 .. MaxSamples - 1
    /\ rxBufferSize \in Nat
    /\ rxEn \in SUBSET RF
    /\ txEn \in SUBSET RF
    /\ changes \in 0 .. MaxChanges
    /\ interfered \in BOOLEAN
    /\ rd \in 0 .. MaxSamples
    /\ written \in 0 .. MaxSamples
    /\ running \in BOOLEAN /\ err \in BOOLEAN /\ above \in BOOLEAN
    /\ irq \in BOOLEAN
    /\ lag \in 0 .. MaxLag
    /\ capture \in 0 .. MaxCaptures
    /\ bram \in [RF -> [0 .. BramSize - 1 -> Cell]]
    /\ ddr \in [RF -> [0 .. MaxSamples - 1 -> Cell]]
    /\ armed \in SUBSET RF
    /\ copied \in 0 .. MaxSamples
    /\ reading \in SUBSET Reading

\* What Read IQ reads for interface b.
Stored(b) == IF useDram THEN ddr[b] ELSE bram[b]

\* When a capture is over and its last interrupt is served, the host reads
\* exactly the samples of that capture from every interface that stayed
\* enabled, or the error latch is set: no chunk is silently skipped,
\* overwritten or left behind in the BRAM.  Without DRAM the latch is no
\* excuse: RX_LENGTH lets no capture through that outgrows the BRAM.
Delivered ==
    Quiet /\ capture > 0 /\ ~(err /\ useDram) =>
        \A b \in armed : \A i \in 0 .. written - 1 : Stored(b)[i] = <<capture, i>>

\* Between captures the read offset is back at zero, which is what the next
\* capture's occupancy, and with it every later interrupt, is measured from.
\* A host that has interfered may leave the handler without a buffer to copy
\* and the offset as it was; the latch then tells (Delivered).
OffsetsReset == Quiet /\ ~interfered => rd = 0

\* The read offset never passes what has been copied to DDR.
ReadOffsetReflectsCopy == ~interfered => rd <= copied

\* All samples of read r are where Read IQ reads them from.
Received(r) ==
    \A i \in r.start .. r.start + r.total - 1 : Stored(r.buff)[i] = <<capture, i>>

\* A Read IQ that is let into a running capture past its threshold sends what
\* was captured, while the radio and the handler go on, until another capture
\* starts.  It is not so of a read of a chunk that is let in at the threshold,
\* when the chunk is full in the BRAM, against the comment of the code that
\* such a read "has been completely received": the interrupt that has the
\* chunk copied to the DDR comes a sample later.
ReadPastThreshold ==
    ~interfered =>
        \A r \in reading :
            r.of = capture /\ r.at # r.start + Chunk => Received(r)

\* Every capture ends and its last interrupt is served.
CaptureEnds == running ~> Quiet
=============================================================================
