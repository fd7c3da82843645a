----------------------------- MODULE Telemetry -----------------------------
(***************************************************************************)
(* What the whole system promises: the page shows what the balloon once    *)
(* measured, and nothing else.                                             *)
(***************************************************************************)
EXTENDS Sequences

CONSTANTS
    Measurements,  \* what the sensors may return
    Report(_)      \* what a reader is to learn of a measurement

VARIABLES
    taken,  \* the measurements that were transmitted so far
    shown   \* the report on the page, or Nothing

Nothing == [f \in {} |-> 0]

Init == taken = <<>> /\ shown = Nothing

Measure ==
    /\ \E m \in Measurements : taken' = Append(taken, m)
    /\ UNCHANGED shown

Show ==
    /\ \E i \in DOMAIN taken : shown' = Report(taken[i])
    /\ UNCHANGED taken

Spec == Init /\ [][Measure \/ Show]_<<taken, shown>>

=============================================================================
