------------------------------- MODULE SdLog -------------------------------
(***************************************************************************)
(* What the transmitter promises about its SD card: between two power-ons  *)
(* the card is a log.  A record is only ever added after all others; none  *)
(* is changed, removed or overtaken, until a reset tears the address of    *)
(* the next one: from then on nothing is promised but that the card holds  *)
(* records.                                                                *)
(***************************************************************************)
EXTENDS Sequences

CONSTANT Records

VARIABLES
    log,
    torn   \* a reset tore the address

Init == log = <<>> /\ torn = FALSE

\* A record is added at the end.
Add(r) ==
    /\ ~torn
    /\ log' = Append(log, r)
    /\ UNCHANGED torn

\* The address is torn.
Tear ==
    /\ torn' = TRUE
    /\ UNCHANGED log

\* A record is written to a torn address, over another one or anywhere.
Misplace ==
    /\ torn
    /\ log' \in Seq(Records)
    /\ UNCHANGED torn

\* Power comes back: a new log begins.
Begin == log' = <<>> /\ torn' = FALSE

Next ==
    \/ \E r \in Records : Add(r)
    \/ Tear
    \/ Misplace
    \/ Begin

Spec == Init /\ [][Next]_<<log, torn>>

=============================================================================
