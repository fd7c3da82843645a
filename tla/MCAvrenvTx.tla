----------------------------- MODULE MCAvrenvTx -----------------------------
(***************************************************************************)
(* The transmitter on a small instance.                                    *)
(***************************************************************************)
EXTENDS AvrenvTx

\* Voltages in the order of the thresholds, a unit standing for each band: 1 is
\* low, 2 too low to write, 3 too low for the GPS, 4 enough for everything.
MCBatteries == 1 .. 4

=============================================================================
