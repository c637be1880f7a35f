-------------------------- MODULE TransferService --------------------------
(***************************************************************************)
(* What the firmware's copy service, wl_cdma_transfer(), promises to the   *)
(* contexts that share it: the main loop and the interrupt handlers of the *)
(* buffers core.                                                           *)
(*                                                                         *)
(* One copy is made at a time.  Every copy a handler asks for is made; a   *)
(* copy the main loop asks for is made as well, unless a copy of a handler *)
(* is in progress when it would start: then it is silently left out.  The  *)
(* copies of one context are settled in the order they were asked for.     *)
(* After a hardware error the promise is weaker: copies may fail, or be    *)
(* cut short by the reset that clears the error.                           *)
(***************************************************************************)
EXTENDS Integers

CONSTANTS
    Boot,           \* copies the main loop asks for with interrupts off
    Main,           \* copies the main loop asks for with interrupts on
    Urgent          \* copies the interrupt handlers ask for

VARIABLE status     \* what has become of each copy

Copies == Boot \cup Main \cup Urgent

Settled == {"copied", "refused", "failed", "aborted"}

Has(s) == \E t \in Copies : status[t] = s

(* The copies the same context asks for before t. *)
Earlier(t) ==
    IF t \in Urgent THEN {u \in Urgent : u < t}
                    ELSE {u \in Boot \cup Main : u < t}

Init == status = [t \in Copies |-> "idle"]

Become(t, s) == status' = [status EXCEPT ![t] = s]

Ask(t) ==
    /\ status[t] = "idle"
    /\ \A u \in Earlier(t) : status[u] # "idle" /\ status[u] # "asked"
    /\ Become(t, "asked")

Start(t) ==
    /\ status[t] = "asked"
    /\ \A u \in Earlier(t) : status[u] \in Settled
    /\ ~Has("running")
    /\ Become(t, "running")

Finish(t) == status[t] = "running" /\ Become(t, "copied")

(* Only a copy of the main loop is refused, and only to a handler's. *)
Refuse(t) ==
    /\ status[t] = "asked" /\ t \in Main
    /\ \E u \in Urgent : status[u] = "running"
    /\ Become(t, "refused")

Fail(t) ==
    /\ \/ status[t] = "running"
       \/ status[t] = "asked" /\ Has("failed")
    /\ Become(t, "failed")

Abort(t) == status[t] = "running" /\ Has("failed") /\ Become(t, "aborted")

Next == \E t \in Copies : \/ Ask(t) \/ Start(t) \/ Finish(t)
                          \/ Refuse(t) \/ Fail(t) \/ Abort(t)

Spec == Init /\ [][Next]_status

=============================================================================
