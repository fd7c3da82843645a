----------------------------- MODULE MeasSlot -----------------------------
(***************************************************************************)
(* The transmitter's initialization and measurement slots (main and doMeas *)
(* of avrenv-tx) as far as the two sensors go: Bme688 and Pa1616s composed.*)
(* They share the program's thread, its time and the budget of faults; the *)
(* sensors go on by themselves between any two steps.  What main does with *)
(* a slot that fails or never ends is the subject of AvrenvTx.             *)
(***************************************************************************)
EXTENDS Integers, Sequences

CONSTANTS
    COUNT, TRIES, HEATER_DUR,  \* see Bme688
    Second, Sentence,          \* see Pa1616s
    MaxFaults,                 \* bound: faults of both
    INTERVAL,                  \* units of time between two slots
    SendTime                   \* most units to transmit and write the data

ASSUME BmeAssumption ==
    /\ COUNT \in Nat \ {0}
    /\ TRIES \in Nat \ {0}
    /\ HEATER_DUR \in Nat /\ HEATER_DUR <= 65535

ASSUME PasAssumption ==
    /\ Second \in Nat
    /\ Sentence \in Nat
    /\ 2 * Sentence <= Second

\* Three lost newlines would let a line outgrow its part of readOut's array.
ASSUME FaultAssumption == MaxFaults \in 0 .. 2

VARIABLES
    at, goal, back, found, held, stray, count, tries, data, bme, \* see Bme688
    chip, lost,
    gps, num, msg, line, lines, nmea, sec, tok, clean, whole,    \* see Pa1616s
    time, faults,
    phase,  \* which part of main or doMeas the program is in
    pas,    \* what pasInit returned
    pason   \* the enable pin of the GPS module is high

Bme == INSTANCE Bme688
Pas == INSTANCE Pa1616s

\* The most a slot takes whose transactions and sentences all arrive: all tries
\* of the air sensor, and what is left of a sentence and a whole second.
LongestSlot == Bme!Longest + Second + Sentence

\* 10 * (1 + 16 + 5) + 100 + 8 + 40 < 400 in the program.
ASSUME SlotAssumption ==
    /\ INTERVAL \in Nat
    /\ SendTime \in Nat
    /\ LongestSlot + SendTime < INTERVAL

bmeVars == <<at, goal, back, found, held, stray, count, tries, data, bme, chip,
             lost>>
pasVars == <<gps, num, msg, line, lines, nmea, sec, tok, clean, whole>>
slotVars == <<phase, pas, pason>>
vars == <<bmeVars, pasVars, time, faults, slotVars>>

\* A reset of the controller also switches the GPS module off and on.
Reset ==
    /\ Bme!Restart
    /\ gps' = "off" /\ num' = 0 /\ msg' = FALSE /\ line' = <<>> /\ lines' = <<>>
    /\ nmea' = [pos |-> Pas!None, speed |-> Pas!None]
    /\ sec' = 0 /\ tok' = 1 /\ clean' = TRUE /\ whole' = TRUE
    /\ phase' = "bmeInit" /\ pas' = FALSE /\ pason' = TRUE

\* A step of the calls of main and doMeas to the air sensor and to the GPS.
CallBme ==
    /\ phase \in {"bmeInit", "bmeMeasure"}
    /\ Bme!Step
    /\ UNCHANGED <<pasVars, slotVars>>

CallPas ==
    /\ phase \in {"pasInit", "pasRead"}
    /\ Pas!Step
    /\ UNCHANGED <<bmeVars, slotVars>>

Finish == Bme!Finish /\ UNCHANGED <<pasVars, slotVars>>

\* The GPS is initialized whether or not the air sensor was.
InitPas ==
    /\ phase = "bmeInit" /\ at = "idle"
    /\ Pas!PasInit
    /\ phase' = "pasInit"
    /\ UNCHANGED <<bmeVars, pas, pason>>

EnterLoop ==
    /\ phase = "pasInit" /\ gps \in {"ready", "failed"}
    /\ pas' = (gps = "ready")
    /\ phase' = "loop"
    /\ UNCHANGED <<bmeVars, pasVars, time, faults, pason>>

\* doMeas is only called when both were initialized.
DoMeas ==
    /\ phase = "loop" /\ pas
    /\ Bme!Measure
    /\ phase' = "bmeMeasure"
    /\ UNCHANGED <<pasVars, pas, pason>>

\* The battery may be too low for the GPS: it is switched off, and stays so.
ReadPas ==
    /\ phase = "bmeMeasure" /\ at = "idle"
    /\ pason' \in {pason, FALSE}
    /\ IF pason'
       THEN Pas!PasRead /\ phase' = "pasRead"
       ELSE phase' = "send" /\ UNCHANGED <<pasVars, time, faults>>
    /\ UNCHANGED <<bmeVars, pas>>

\* Nothing is sent when pasRead failed.
EndRead ==
    /\ phase = "pasRead" /\ gps \in {"ok", "failed"}
    /\ phase' = IF gps = "ok" THEN "send" ELSE "loop"
    /\ UNCHANGED <<bmeVars, pasVars, time, faults, pas, pason>>

Send ==
    /\ phase = "send"
    /\ phase' = "loop"
    /\ UNCHANGED <<bmeVars, pasVars, time, faults, pas, pason>>

Init ==
    /\ Bme!Init
    /\ Pas!Init
    /\ phase = "bmeInit" /\ pas = FALSE /\ pason = TRUE

Next ==
    \/ CallBme \/ CallPas \/ Finish \/ Reset
    \/ InitPas \/ EnterLoop \/ DoMeas \/ ReadPas \/ EndRead \/ Send

Spec == Init /\ [][Next]_vars

----------------------------------------------------------------------------
(* Properties *)

TypeOK ==
    /\ Bme!TypeOK
    /\ Pas!TypeOK
    /\ phase \in {"bmeInit", "pasInit", "loop", "bmeMeasure", "pasRead", "send"}
    /\ pas \in BOOLEAN
    /\ pason \in BOOLEAN

\* A slot in which neither line had a fault ends before the next one is due,
\* even when the air sensor needs all its tries and the GPS just began a second:
\* the assumption on MaxMeas in AvrenvTx.
SlotInTime ==
    phase \in {"pasRead", "send"} /\ clean /\ "bmeMeasure" \notin lost =>
        time + SendTime < INTERVAL

\* "Gets measurements from all sensors, transmits and writes them": what is
\* transmitted was measured in this slot, by every sensor that is on.
SentIsMeasured ==
    phase = "send" =>
        /\ data.of > 0
        /\ pason => nmea.pos # Pas!None /\ nmea.speed # Pas!None

ConfAsleep == Bme!ConfAsleep
MeasuredHere == Bme!MeasuredHere
InTime == phase = "bmeMeasure" => Bme!InTime
HeatsAsLong == Bme!HeatsAsLong
ReadsAnywhere == Pas!ReadsAnywhere
JoinedRefused == Pas!JoinedRefused

=============================================================================
