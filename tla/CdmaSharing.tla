---------------------------- MODULE CdmaSharing ----------------------------
(***************************************************************************)
(* The one CDMA engine of the node and the two contexts that use it.       *)
(*                                                                         *)
(* wl_cdma_transfer() looks for an error of the previous copy and resets   *)
(* the engine if there was one, waits until the engine is idle and starts  *)
(* the copy, without waiting for its end.  The main loop calls it to clear *)
(* the DDR at boot, for every Write IQ packet and to preload the TX BRAM.  *)
(* The interrupt handlers of the buffers core call it to move RX and TX    *)
(* samples, and may take the CPU from the main loop between any two of     *)
(* these steps: nothing disables interrupts around a call.                 *)
(*                                                                         *)
(* A copy is a number; each context makes its copies in increasing order.  *)
(* The engine and its driver are hardware and a library: a start is        *)
(* refused while the engine is busy, and an engine with an error makes no  *)
(* copy until it is reset.                                                 *)
(***************************************************************************)
EXTENDS Integers

CONSTANTS
    NumBoot,        \* copies clear_ddr() makes, before interrupts are on
    NumMain,        \* copies of the commands of the main loop
    NumIsr,         \* bound on the copies of the interrupt handlers
    MaxErrors       \* bound on the errors of the engine

ASSUME CdmaAssumption ==
    /\ NumBoot \in Nat /\ NumMain \in Nat /\ NumIsr \in Nat
    /\ MaxErrors \in Nat

Boot   == 1 .. NumBoot
Main   == NumBoot + 1 .. NumBoot + NumMain
Urgent == NumBoot + NumMain + 1 .. NumBoot + NumMain + NumIsr
Copies == Boot \cup Main \cup Urgent

None == 0           \* no copy in the engine

Contexts == {"main", "isr"}

VARIABLES
    enabled,        \* the interrupt controller has been started
    inIsr,          \* an interrupt handler has the CPU
    pc,             \* where each context is in wl_cdma_transfer()
    last,           \* the last copy each context has called it for
    engine,         \* copy in progress, or None
    error,          \* error bit of the engine's status register
    errors,         \* errors so far
    outcome         \* how each copy has ended

cdmaVars == <<enabled, inIsr, pc, last, engine, error, errors, outcome>>

Places == {"out", "check", "reset", "wait", "start"}

Outcomes == {"none", "copied", "refused", "failed", "aborted"}

CdmaTypeOK ==
    /\ enabled \in BOOLEAN /\ inIsr \in BOOLEAN /\ error \in BOOLEAN
    /\ pc \in [Contexts -> Places]
    /\ last \in [Contexts -> Nat]
    /\ last.main <= NumBoot + NumMain
    /\ last.isr \in NumBoot + NumMain .. NumBoot + NumMain + NumIsr
    /\ engine \in Copies \cup {None}
    /\ errors \in 0 .. MaxErrors
    /\ outcome \in [Copies -> Outcomes]

CdmaInit ==
    /\ enabled = FALSE
    /\ inIsr = FALSE
    /\ pc = [c \in Contexts |-> "out"]
    /\ last = [c \in Contexts |-> IF c = "isr" THEN NumBoot + NumMain ELSE 0]
    /\ engine = None
    /\ error = FALSE
    /\ errors = 0
    /\ outcome = [t \in Copies |-> "none"]

(***************************************************************************)
(* The main loop runs while no handler does; a handler is not interrupted. *)
(***************************************************************************)
HasCpu(c) == (c = "isr") = inIsr

At(c, place) == HasCpu(c) /\ pc[c] = place

Goto(c, place) == pc' = [pc EXCEPT ![c] = place]

Call(c) ==
    /\ last' = [last EXCEPT ![c] = @ + 1]
    /\ Goto(c, "check")
    /\ UNCHANGED <<enabled, engine, error, errors, outcome>>

(* A step of clear_ddr(), which node_init() runs with interrupts off. *)
ClearDdr ==
    /\ At("main", "out") /\ ~enabled
    /\ last.main < NumBoot
    /\ Call("main") /\ UNCHANGED inIsr

(* wl_interrupt_restore_state(INTERRUPTS_ENABLED), the end of main()'s     *)
(* set-up.                                                                 *)
EnableInterrupts ==
    /\ At("main", "out") /\ ~enabled
    /\ last.main = NumBoot
    /\ enabled' = TRUE
    /\ UNCHANGED <<inIsr, pc, last, engine, error, errors, outcome>>

(* Mutant: the preload is made once more than there are buffers. *)
CommandCopyOneMore ==
    /\ At("main", "out") /\ enabled
    /\ last.main <= NumBoot + NumMain
    /\ Call("main") /\ UNCHANGED inIsr

(* A Write IQ packet (write_tx_buffers()) or the preload that follows the  *)
(* last one (populate_tmp_tx_buffers()).                                   *)
CommandCopy ==
    /\ At("main", "out") /\ enabled
    /\ last.main < NumBoot + NumMain
    /\ Call("main") /\ UNCHANGED inIsr

(* The RX or TX interrupt is taken and its handler makes its first copy.   *)
(* A handler that finds no enabled buffer leaves the engine alone and is   *)
(* left out.                                                               *)
Interrupt ==
    /\ enabled /\ ~inIsr
    /\ last.isr < NumBoot + NumMain + NumIsr
    /\ inIsr' = TRUE
    /\ Call("isr")

(* The handler's next copy: IQ and RSSI of each enabled interface. *)
HandlerCopy ==
    /\ At("isr", "out")
    /\ last.isr < NumBoot + NumMain + NumIsr
    /\ Call("isr") /\ UNCHANGED inIsr

HandlerReturns ==
    /\ At("isr", "out")
    /\ inIsr' = FALSE
    /\ UNCHANGED <<enabled, pc, last, engine, error, errors, outcome>>

(***************************************************************************)
(* The steps of wl_cdma_transfer().                                        *)
(***************************************************************************)
CheckError(c) ==
    /\ At(c, "check")
    /\ Goto(c, IF error THEN "reset" ELSE "wait")
    /\ UNCHANGED <<enabled, inIsr, last, engine, error, errors, outcome>>

(* XAxiCdma_Reset() stops whatever the engine is doing by then. *)
ResetEngine(c) ==
    /\ At(c, "reset")
    /\ error' = FALSE
    /\ engine' = None
    /\ outcome' = IF engine = None THEN outcome
                  ELSE [outcome EXCEPT ![engine] = "aborted"]
    /\ Goto(c, "wait")
    /\ UNCHANGED <<enabled, inIsr, last, errors>>

(* Mutant: the engine is not waited for. *)
WaitIdleAtOnce(c) ==
    /\ At(c, "wait")
    /\ Goto(c, "start")
    /\ UNCHANGED <<enabled, inIsr, last, engine, error, errors, outcome>>

(* Mutant: the wait is also for an engine without error. *)
WaitIdleNoError(c) ==
    /\ At(c, "wait")
    /\ engine = None /\ ~error
    /\ Goto(c, "start")
    /\ UNCHANGED <<enabled, inIsr, last, engine, error, errors, outcome>>

WaitIdle(c) ==
    /\ At(c, "wait")
    /\ engine = None
    /\ Goto(c, "start")
    /\ UNCHANGED <<enabled, inIsr, last, engine, error, errors, outcome>>

Refused == engine # None

(* Mutant: the registers of the engine are written without the driver's    *)
(* test.                                                                   *)
StartCopyUntested(c) ==
    /\ At(c, "start")
    /\ engine' = IF error THEN engine ELSE last[c]
    /\ outcome' = IF error THEN [outcome EXCEPT ![last[c]] = "failed"]
                  ELSE outcome
    /\ Goto(c, "out")
    /\ UNCHANGED <<enabled, inIsr, last, error, errors>>

(* XAxiCdma_SimpleTransfer(), whose return value is dropped. *)
StartCopy(c) ==
    /\ At(c, "start")
    /\ engine' = IF Refused \/ error THEN engine ELSE last[c]
    /\ outcome' = IF Refused THEN [outcome EXCEPT ![last[c]] = "refused"]
                  ELSE IF error THEN [outcome EXCEPT ![last[c]] = "failed"]
                  ELSE outcome
    /\ Goto(c, "out")
    /\ UNCHANGED <<enabled, inIsr, last, error, errors>>

(***************************************************************************)
(* The engine.                                                             *)
(***************************************************************************)
EngineDone ==
    /\ engine # None
    /\ outcome' = [outcome EXCEPT ![engine] = "copied"]
    /\ engine' = None
    /\ UNCHANGED <<enabled, inIsr, pc, last, error, errors>>

EngineError ==
    /\ engine # None /\ errors < MaxErrors
    /\ outcome' = [outcome EXCEPT ![engine] = "failed"]
    /\ engine' = None
    /\ error' = TRUE
    /\ errors' = errors + 1
    /\ UNCHANGED <<enabled, inIsr, pc, last>>

Cpu ==
    \/ ClearDdr \/ EnableInterrupts \/ CommandCopy
    \/ HandlerCopy \/ HandlerReturns
    \/ \E c \in Contexts : \/ CheckError(c) \/ ResetEngine(c)
                           \/ WaitIdle(c) \/ StartCopy(c)

CdmaNext == Cpu \/ Interrupt \/ EngineDone \/ EngineError

(* The CPU runs and the engine ends each copy.  Interrupts may or may not  *)
(* come, and are bounded: the radio produces samples more slowly than the  *)
(* engine moves them.                                                      *)
CdmaSpec ==
    /\ CdmaInit /\ [][CdmaNext]_cdmaVars
    /\ WF_cdmaVars(Cpu) /\ WF_cdmaVars(EngineDone)

-----------------------------------------------------------------------------
(***************************************************************************)
(* Properties.                                                             *)
(***************************************************************************)

(* Whatever the interleaving, the code that shares the engine keeps the    *)
(* promises of TransferService: one copy at a time, each context's copies  *)
(* in order, the handlers' copies and those of clear_ddr() never refused,  *)
(* and none aborted unless the engine had an error.                        *)
Calling(c) == pc[c] # "out"

Asked(t) == \E c \in Contexts : Calling(c) /\ last[c] = t

Status(t) ==
    IF outcome[t] # "none" THEN outcome[t]
    ELSE IF engine = t THEN "running"
    ELSE IF Asked(t) THEN "asked" ELSE "idle"

StatusMap == [t \in Copies |-> Status(t)]

Service == INSTANCE TransferService WITH status <- StatusMap

KeepsPromise == Service!Spec

(* A copy that was called for is settled or in the engine once the call    *)
(* has returned, and the engine never holds a copy that is settled or      *)
(* still to be started: no copy is forgotten or made twice.                *)
Issued(t) == IF t \in Urgent THEN t <= last.isr ELSE t <= last.main

NoneForgotten ==
    \A t \in Copies :
        (Issued(t) /\ ~Asked(t)) = (outcome[t] # "none" \/ engine = t)

(* Every call of wl_cdma_transfer() returns, whoever holds the engine. *)
CallsReturn == \A c \in Contexts : Calling(c) ~> ~Calling(c)

(* "this function will wait for the DMA to be ready if it is currently in  *)
(* use": no copy is left out because the engine is busy.                   *)
WaitsForDma == \A t \in Copies : outcome[t] # "refused"

=============================================================================
