------------------------------ MODULE TxPlayback ------------------------------
(***************************************************************************)
(* Transmission of IQ samples: DDR buffers, the BRAM the radio reads, and  *)
(* the interrupt handler that refills one half of it while the radio reads *)
(* the other.                                                              *)
(*                                                                         *)
(* Before a transmission the BRAM holds the first two chunks (a chunk is   *)
(* half the BRAM).  When less than a chunk is left ahead of the radio the  *)
(* core interrupts and the handler copies the next chunk; after the last   *)
(* sample it puts the first two chunks back.  In continuous mode the       *)
(* handler starts over when the last chunk is in, with one chunk only.     *)
(* Meanwhile the main loop serves Write IQ and the buffer commands.        *)
(*                                                                         *)
(* Sizes are counted in samples; a sample in BRAM is its index in the      *)
(* waveform and the number of the Write IQ that wrote it.  The buffers     *)
(* core is hardware, modelled from the equations and the wiring in its     *)
(* Simulink model.  The trigger delay (TX_DELAY) only shifts a             *)
(* transmission and is left out.                                           *)
(***************************************************************************)
EXTENDS Integers, FiniteSets

CONSTANTS
    RF,             \* the RF interfaces with a buffer (RFA, RFB)
    Chunk,          \* WL_BUF_TX_TRANSFER_THRESHOLD_SAMPLES, half the BRAM
    NumChunks,      \* chunks that the DDR buffer of an interface holds
    Lengths,        \* the lengths the host asks for in normal mode
    ContLengths,    \* the lengths the host asks for in continuous mode
    Starts,         \* first samples of the packets of a Write IQ
    PacketLen,      \* samples in a packet
    MaxWrites,      \* bound on the packets of a behaviour
    MaxTx,          \* bound on transmissions and laps of a behaviour
    MaxLag,         \* samples sent before a pending interrupt is served
    Careful         \* FALSE if the host may also disable the last buffer of
                    \* a transmission under way

ASSUME PlaybackAssumption ==
    /\ IsFiniteSet(RF) /\ RF # {}
    /\ Chunk \in Nat /\ Chunk >= 2
    /\ NumChunks \in Nat /\ NumChunks >= 2
    /\ {Lengths, ContLengths, Starts} \subseteq SUBSET Nat
    /\ PacketLen \in 1 .. Chunk
    /\ \A s \in Starts : s + PacketLen <= NumChunks * Chunk
    /\ {MaxWrites, MaxTx, MaxLag} \subseteq Nat
    /\ Careful \in BOOLEAN

VARIABLES
    useDram,        \* use_dram_for_buffers
    txLength,       \* TX length register: index of the last sample
    cont,           \* CONFIG register, continuous transmission
    txEn,           \* TX buffer enables
    rd,             \* the core's read address, in samples
    wr,             \* TX IQ write offset register, in samples
    running,        \* TX status: a transmission is in progress
    err,            \* TX underflow latch
    irq,            \* TX interrupt pending
    lag,            \* samples sent since the interrupt became pending
    bram,           \* BRAM of each interface
    ddr,            \* DDR buffer of each interface: the writer of each sample
    writes,         \* Write IQ packets accepted
    unloaded,       \* interfaces whose BRAM is left to the host to load again:
                    \* written without a LAST_WRITE since, or with one during
                    \* a transmission without a final interrupt, or their long
                    \* continuous transmission was ended under way
    lap,            \* transmissions started and laps of continuous ones
    armed,          \* enabled and loaded when it started
    looped,         \* the transmission started as a continuous one
    wave,           \* the waveform of each interface when it started
    wrong           \* armed interfaces that have sent a wrong sample

config == <<useDram, txLength, cont, txEn>>
core == <<rd, wr, running, err, irq, lag>>
memory == <<bram, ddr, writes, unloaded>>
history == <<lap, armed, looped, wave, wrong>>
vars == <<config, core, memory, history>>

BramSize == 2 * Chunk
MaxSamples == NumChunks * Chunk

\* The longest transmission: without DRAM the samples are in the BRAM.
Supported == IF useDram THEN MaxSamples ELSE BramSize

\* baseband_buffers_config and baseband_reset at boot, with or without DRAM.
Init ==
    /\ useDram \in BOOLEAN
    /\ txLength = BramSize - 1
    /\ cont = FALSE
    /\ txEn = {}
    /\ rd = 0
    /\ wr = BramSize
    /\ running = FALSE
    /\ err = FALSE
    /\ irq = FALSE
    /\ lag = 0
    /\ bram = [b \in RF |-> [i \in 0 .. BramSize - 1 |-> <<0, i>>]]
    /\ ddr = [b \in RF |-> [i \in 0 .. MaxSamples - 1 |-> 0]]
    /\ writes = 0
    /\ unloaded = {}
    /\ lap = 0
    /\ armed = {}
    /\ looped = FALSE
    /\ wave = ddr
    /\ wrong = {}

-----------------------------------------------------------------------------
(* The buffers core (hardware)                                             *)

\* large_tx: the BRAM does not hold the transmission.
LargeTx == txLength > BramSize

\* tx_tmp_buf_wr_not_done, and not_final_tx_tmp_buf_wr: more is to be copied.
WriteNotDone == wr < txLength
NotFinal == LargeTx /\ (WriteNotDone \/ cont) /\ txEn # {}

\* tx_occupancy, an unsigned difference: huge when negative.
Occupancy ==
    LET n == (IF WriteNotDone THEN wr ELSE txLength) - rd
    IN  IF n < 0 THEN n + 1024 * MaxSamples ELSE n

\* TX IQ threshold: a chunk with DRAM, otherwise past the end of the buffer.
Threshold == IF useDram THEN Chunk ELSE BramSize

\* The interrupt asks for a chunk; the underflow latch is set.
Refill == NotFinal /\ Occupancy < Threshold
Underflow == NotFinal /\ Occupancy = 0

\* After any step the interrupt line may have risen (else what was pending
\* stays so) and the underflow latch may be set.
CoreReacts(pending) ==
    /\ irq' = (pending \/ (~Refill /\ Refill'))
    /\ err' = (err \/ Underflow')

\* A trigger starts a transmission when at least one buffer is enabled.  The
\* trigger comes after the last interrupt of the transmission before it.
StartTx ==
    /\ ~running
    /\ ~irq
    /\ txEn # {}
    /\ lap < MaxTx
    /\ running' = TRUE
    /\ err' = FALSE
    /\ lap' = lap + 1
    /\ armed' = txEn \ unloaded
    /\ looped' = cont
    /\ wave' = [b \in RF |-> IF useDram THEN ddr[b]
                             ELSE [i \in 0 .. MaxSamples - 1 |-> bram[b][i % BramSize][1]]]
    /\ wrong' = {}
    /\ UNCHANGED <<config, rd, wr, irq, lag, memory>>

\* What the radio sends for interface b, and whether it is sample rd of the
\* waveform: of the one it started with, unless the transmission started as
\* a continuous one, which picks up what is written under way.
Sent(b) == bram[b][rd % BramSize]
SendsWrong(b) ==
    \/ Sent(b)[2] # rd
    \/ ~looped /\ Sent(b)[1] # wave[b][rd]

\* The radio reads the next sample of every enabled buffer.  After the last
\* one the read address restarts, and so does a continuous transmission; a
\* large normal one interrupts.
SendSample ==
    LET last == rd >= txLength
    IN  /\ running
        /\ irq => lag < MaxLag
        /\ last /\ cont => lap < MaxTx
        /\ rd' = IF last THEN 0 ELSE rd + 1
        /\ running' = ~(last /\ ~cont)
        /\ lap' = IF last /\ cont THEN lap + 1 ELSE lap
        /\ lag' = IF irq THEN lag + 1 ELSE 0
        /\ wrong' = wrong \cup {b \in armed \cap txEn : SendsWrong(b)}
        /\ UNCHANGED <<config, wr, memory, armed, looped, wave>>
        /\ CoreReacts(irq \/ (LargeTx /\ ~NotFinal /\ last /\ ~cont))

-----------------------------------------------------------------------------
(* populate_tmp_tx_buffers                                                 *)

\* The BRAM of b after the DMA copied len samples from offset.
Populated(b, offset, len) ==
    [i \in 0 .. BramSize - 1 |->
        LET j == offset + ((i - offset) % BramSize)
        IN  IF j < offset + len THEN <<ddr[b][j], j>> ELSE bram[b][i]]

\* Copy to the BRAM of the selected interfaces; without DRAM there is nothing
\* to copy.
Populate(sel, offset, len) ==
    bram' = [b \in RF |-> IF useDram /\ b \in sel THEN Populated(b, offset, len)
                                                  ELSE bram[b]]

-----------------------------------------------------------------------------
(* wl_buffers_core_tx_int_handler                                          *)

\* Mutant: the test finds the underflow that the core has latched.
TxIqErrorSeen == IF err THEN 1 ELSE 0

\* wl_bb_get_rf_tx_iq_error: bit 24 of the status, shifted right by 25.
TxIqError == 0

\* Where the handler copies to, and how much: from the start when all is
\* written (half of it when the radio goes on), else the next chunk.
NextOffset == IF ~WriteNotDone THEN 0 ELSE Chunk * (wr \div Chunk)
XferLength == IF ~WriteNotDone /\ ~cont THEN BramSize ELSE Chunk

\* Mutant: the interrupt is not acknowledged.
IsrNotAcked == irq /\ UNCHANGED vars

\* The handler leaves the core alone when it sees an underflow or when no
\* buffer is enabled.  Without DRAM it only puts the write offset back.
Isr ==
    /\ irq
    /\ IF useDram /\ TxIqError = 0 /\ txEn # {}
       THEN /\ Populate(txEn, NextOffset, XferLength)
            /\ wr' = NextOffset + XferLength
       ELSE /\ wr' = IF useDram THEN wr ELSE BramSize
            /\ UNCHANGED bram
    /\ lag' = 0
    /\ UNCHANGED <<config, rd, running, ddr, writes, unloaded, history>>
    /\ CoreReacts(FALSE)

-----------------------------------------------------------------------------
(* The main loop: a pending interrupt is taken before its next step        *)

Quiet == ~running /\ ~irq

\* Mutant: a length past the supported one is not clamped.
TxLengthUnclamped(n) ==
    /\ Quiet
    /\ n # 0
    /\ txLength' = n - 1
    /\ UNCHANGED <<useDram, cont, txEn, core, memory, history>>

\* TX_LENGTH with n samples; the length is clamped to the supported one, and
\* no samples means one.
TxLength(n) ==
    /\ Quiet
    /\ n \in IF cont THEN ContLengths ELSE Lengths \cup ContLengths
    /\ txLength' = CASE n = 0 -> 0
                     [] n > Supported -> Supported - 1
                     [] OTHER -> n - 1
    /\ UNCHANGED <<useDram, cont, txEn, core, memory, history>>

\* TX_MODE: the host starts a continuous transmission of a length meant for
\* it, and may end it while it runs; after a long one it loads the buffers
\* again before the next transmission.
TxMode(mode) ==
    /\ ~irq
    /\ mode => Quiet /\ txLength + 1 \in ContLengths
    /\ cont' = mode
    /\ unloaded' = IF cont /\ running /\ LargeTx THEN unloaded \cup txEn ELSE unloaded
    /\ UNCHANGED <<useDram, txLength, txEn, rd, wr, running, lag, bram, ddr, writes,
                   history>>
    /\ CoreReacts(irq)

\* TX_BUFF_EN of buffers that do not transmit: enable and load them.
TxBuffEn(sel) ==
    /\ ~irq
    /\ running => sel \cap txEn = {}
    /\ txEn' = txEn \cup sel
    /\ Populate(sel, 0, BramSize)
    /\ unloaded' = unloaded \ sel
    /\ UNCHANGED <<useDram, txLength, cont, rd, wr, running, lag, ddr, writes,
                   history>>
    /\ CoreReacts(irq)

\* A careful host leaves one buffer of a transmission enabled until its end.
MayDisable(sel) == Careful /\ running => txEn \ sel # {}

\* RX_BUFF_EN, which takes the selected buffers from the transmitter.
RxBuffEn(sel) ==
    /\ ~irq
    /\ MayDisable(sel)
    /\ txEn' = txEn \ sel
    /\ armed' = armed \ sel
    /\ UNCHANGED <<useDram, txLength, cont, rd, wr, running, lag, memory, lap,
                   looped, wave, wrong>>
    /\ CoreReacts(irq)

\* TXRX_BUFF_DIS: disable the buffers and put their BRAM back.
TxRxBuffDis(sel) ==
    /\ ~irq
    /\ MayDisable(sel)
    /\ txEn' = txEn \ sel
    /\ armed' = armed \ sel
    /\ Populate(sel, 0, BramSize)
    /\ unloaded' = unloaded \ sel
    /\ UNCHANGED <<useDram, txLength, cont, rd, wr, running, lag, ddr, writes,
                   lap, looped, wave, wrong>>
    /\ CoreReacts(irq)

\* Mutant: the distance of a chunk is forgotten.
NotReadyNear(b, start) == running /\ b \in txEn /\ rd + 1 < start

\* WRITE_IQ is refused while the buffer is transmitting and the radio is not
\* a chunk past the first sample of the packet.
NotReady(b, start) == running /\ b \in txEn /\ rd + 1 < start + Chunk

\* The copy of a packet to the TX buffer, in DDR or in BRAM.
Put(buf, start, new) ==
    [i \in DOMAIN buf |-> IF i \in start .. start + PacketLen - 1 THEN new[i] ELSE buf[i]]

\* A large normal transmission ends with an interrupt that loads the BRAM.
FinalInterrupt == LargeTx /\ ~looped

\* WRITE_IQ of one packet of less than 400 samples to one buffer.  The last
\* packet of a Write IQ loads the BRAM, unless the buffer is transmitting: that
\* is left to the final interrupt, whether there will be one or not.
WriteIq(b, start, last) ==
    LET v == writes + 1
        transmitting == running /\ b \in txEn
    IN  /\ ~irq
        /\ writes < MaxWrites
        /\ start + PacketLen <= Supported
        /\ ~NotReady(b, start)
        /\ writes' = v
        /\ IF useDram
           THEN LET new == Put(ddr[b], start, [i \in DOMAIN ddr[b] |-> v])
                IN  /\ ddr' = [ddr EXCEPT ![b] = new]
                    /\ bram' = IF last /\ ~transmitting
                               THEN [bram EXCEPT ![b] =
                                        [i \in DOMAIN bram[b] |-> <<new[i], i>>]]
                               ELSE bram
           ELSE /\ bram' = [bram EXCEPT ![b] = Put(@, start, [i \in DOMAIN @ |-> <<v, i>>])]
                /\ UNCHANGED ddr
        /\ unloaded' = IF last /\ (useDram /\ transmitting => FinalInterrupt)
                       THEN unloaded \ {b}
                       ELSE unloaded \cup {b}
        /\ UNCHANGED <<config, core, history>>

\* baseband_reset (NODE_RESET of the baseband), between transmissions.
BasebandReset ==
    /\ Quiet
    /\ cont' = FALSE
    /\ txEn' = {}
    /\ wr' = BramSize
    /\ UNCHANGED <<useDram, txLength, rd, running, err, irq, lag, memory, history>>

-----------------------------------------------------------------------------
Host ==
    \/ \E n \in Lengths \cup ContLengths : TxLength(n)
    \/ \E mode \in BOOLEAN : TxMode(mode)
    \/ \E sel \in SUBSET RF : TxBuffEn(sel) \/ RxBuffEn(sel) \/ TxRxBuffDis(sel)
    \/ \E b \in RF, s \in Starts, last \in BOOLEAN : WriteIq(b, s, last)
    \/ BasebandReset

Next == StartTx \/ SendSample \/ Isr \/ Host

Spec == Init /\ [][Next]_vars

\* The radio takes samples and the CPU takes interrupts.
FairSpec == Spec /\ WF_vars(SendSample) /\ WF_vars(Isr)

-----------------------------------------------------------------------------
(* Properties                                                              *)

Cell == (0 .. MaxWrites) \X (0 .. MaxSamples - 1)

\* The shape of the state: the type invariant of this module.
TypeOK ==
    /\ useDram \in BOOLEAN
    /\ txLength \in 0 .. Supported - 1
    /\ cont \in BOOLEAN
    /\ txEn \in SUBSET RF
    /\ rd \in 0 .. MaxSamples - 1
    /\ wr \in 0 .. MaxSamples
    /\ {running, err, irq, looped} \subseteq BOOLEAN
    /\ lag \in 0 .. MaxLag
    /\ bram \in [RF -> [0 .. BramSize - 1 -> Cell]]
    /\ ddr \in [RF -> [0 .. MaxSamples - 1 -> 0 .. MaxWrites]]
    /\ writes \in 0 .. MaxWrites
    /\ {unloaded, armed, wrong} \subseteq SUBSET RF
    /\ lap \in 0 .. MaxTx
    /\ wave \in [RF -> [0 .. MaxSamples - 1 -> 0 .. MaxWrites]]

\* Every buffer that was enabled and loaded when a transmission started sends
\* its waveform, sample by sample in order, or the underflow latch tells: the
\* handler's copies, Write IQ and the buffer commands never put a sample under
\* the radio that does not belong there.
Played == ~err => wrong = {}

\* Between transmissions the BRAM of every enabled buffer holds the start of
\* its waveform up to the write offset, from which the next transmission
\* counts: also after an underflow, and after a Write IQ that ended under way
\* and that the final interrupt picks up.  A transmission that fits in the
\* BRAM and a continuous one have no such interrupt, although the comment at
\* the end of Write IQ has it that "the buffers will be populated by the final
\* interrupt": what is written then is not in the BRAM, and the buffer is
\* unloaded until the host loads it again.
Reloaded ==
    Quiet /\ useDram =>
        \A b \in txEn \ unloaded : \A i \in 0 .. BramSize - 1 :
            i < wr => bram[b][i] = <<ddr[b][i], i>>

\* Every transmission that is not continuous, or is ended, stops with its
\* last interrupt served.
TransmissionEnds == (running /\ [](~cont)) ~> Quiet

\* A length whose last sample starts a chunk is never sent whole, and only
\* whole laps are sent over and over.
WholeChunks ==
    /\ \A n \in Lengths \cup ContLengths : n <= BramSize \/ (n - 1) % Chunk # 0
    /\ \A n \in ContLengths :
           n <= BramSize \/ (n % BramSize = 0 /\ n <= MaxSamples)

\* The handler is at most a chunk late, a packet is shorter than one, and the
\* host leaves one buffer of a transmission enabled until its end.
Ordinary ==
    /\ Careful
    /\ WholeChunks
    /\ MaxLag <= Chunk
    /\ PacketLen < Chunk
=============================================================================
