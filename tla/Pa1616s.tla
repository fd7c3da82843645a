------------------------------ MODULE Pa1616s ------------------------------
(***************************************************************************)
(* The GPS module and its driver, avrenv-tx/pa1616s.c.                     *)
(*                                                                         *)
(* Once a second the module sends a GGA and then an RMC sentence, each "$",*)
(* a body and a newline; the driver enables its receiver whenever a slot   *)
(* comes, so it starts reading anywhere in that stream.  On the way "$",   *)
(* bodies and newlines get lost or garbled, and the module may send other  *)
(* sentences (it forgets its configuration when its power fails) or fall   *)
(* silent.  The texts are abstracted to what they are, when the module     *)
(* measured them and whether they are intact; the checksum is taken to     *)
(* recognize every garbled body.                                           *)
(*                                                                         *)
(* Lengths: a line that is longer than PAS_NMEA_LEN needs three lost       *)
(* newlines, which MaxFaults excludes.                                     *)
(***************************************************************************)
EXTENDS Integers, Sequences

CONSTANTS
    Second,    \* units of time between two GGA sentences
    Sentence,  \* units of time a sentence takes
    MaxFaults  \* bound: faults on the serial line

VARIABLES
    gps,     \* what the driver does, or how its last call ended
    num,     \* lines readOut is to read: 1 for the ack, 2 for a fix
    msg,     \* readOut: a '$' was seen
    line,    \* readOut: the bodies in the line so far
    lines,   \* the lines read and not parsed yet
    nmea,    \* the sentences that position and speed were taken from
    sec,     \* module: seconds since the call began, 0 while it sends the ack
    tok,     \* module: what it sends next
    time,    \* time passed
    faults,  \* faults so far
    clean,   \* history: there was no fault during this call
    whole    \* history: at most newlines were lost during this call

vars == <<gps, num, msg, line, lines, nmea, sec, tok, time, faults, clean,
          whole>>
stream == <<sec, tok, time>>

\* A mutation: one line more.
PAS_NMEA_CNT_More == 3

PAS_NMEA_CNT == 2

Kinds == {"GPGGA", "GPRMC", "ack", "other"}
Bodies == [kind : Kinds, sec : Nat, intact : BOOLEAN]
None == [kind |-> "other", sec |-> 0, intact |-> TRUE]

----------------------------------------------------------------------------
(* The module's output *)

\* A second's output is tokens 1 to 6; in second 0 just the ack, 1 to 3.
Last == IF sec = 0 THEN 3 ELSE 6

IsBody == tok \in {2, 5}

Body == [kind   |-> IF sec = 0 THEN "ack" ELSE IF tok = 2 THEN "GPGGA" ELSE "GPRMC",
         sec    |-> sec,
         intact |-> TRUE]

Garbled == [Body EXCEPT !.intact = FALSE]

\* Units of time until the next token has been sent.
Duration ==
    IF tok = 1 THEN Second - 2 * Sentence ELSE IF IsBody THEN Sentence ELSE 0

Advance ==
    /\ time' = time + Duration
    /\ IF tok = Last THEN sec' = sec + 1 /\ tok' = 1
                     ELSE sec' = sec /\ tok' = tok + 1

----------------------------------------------------------------------------
(* readOut *)

Reading == gps = "reading"

\* A line is complete with bodies l: the receiver is disabled after the last.
EndLine(l) ==
    /\ lines' = Append(lines, l)
    /\ line' = <<>>
    /\ msg' = FALSE
    /\ gps' = IF Len(lines) + 1 = num THEN "parsing" ELSE "reading"

\* Before a '$' everything is skipped; after it, another is part of the line.
ReadDollar ==
    /\ Reading /\ tok \in {1, 4}
    /\ msg' = TRUE
    /\ Advance
    /\ UNCHANGED <<gps, num, line, lines, nmea, faults, clean, whole>>

Store(b) == line' = IF msg THEN Append(line, b) ELSE line

ReadBody ==
    /\ Reading /\ IsBody
    /\ Store(Body)
    /\ Advance
    /\ UNCHANGED <<gps, num, msg, lines, nmea, faults, clean, whole>>

\* A mutation: the characters before the first '$' are kept as well.
ReadNewlineAlways ==
    /\ Reading /\ tok \in {3, 6}
    /\ EndLine(line)
    /\ Advance
    /\ UNCHANGED <<num, nmea, faults, clean, whole>>

ReadNewline ==
    /\ Reading /\ tok \in {3, 6}
    /\ IF msg THEN EndLine(line) ELSE UNCHANGED <<gps, msg, line, lines>>
    /\ Advance
    /\ UNCHANGED <<num, nmea, faults, clean, whole>>

\* Kept tells that the sentences themselves do not suffer.
Fault(kept) ==
    /\ Reading
    /\ faults < MaxFaults
    /\ faults' = faults + 1
    /\ clean' = FALSE
    /\ whole' = (whole /\ kept)

Drop ==
    /\ Fault(tok \in {3, 6})
    /\ Advance
    /\ UNCHANGED <<gps, num, msg, line, lines, nmea>>

\* A garbled body may also hold what readOut takes for the '$' of a line it has
\* not begun, or for the end of the line.
Garble ==
    /\ Fault(FALSE) /\ IsBody
    /\ \/ Store(Garbled) /\ UNCHANGED <<gps, msg, lines>>
       \/ ~msg /\ msg' = TRUE /\ line' = <<Garbled>> /\ UNCHANGED <<gps, lines>>
       \/ msg /\ EndLine(Append(line, Garbled))
    /\ Advance
    /\ UNCHANGED <<num, nmea>>

\* The module sends an intact sentence of another kind.
Unexpected ==
    /\ Fault(FALSE) /\ IsBody
    /\ Store([Body EXCEPT !.kind = "other"])
    /\ Advance
    /\ UNCHANGED <<gps, num, msg, lines, nmea>>

\* readOut has no timeout: only the watchdog ends the wait.
Silence ==
    /\ Fault(FALSE)
    /\ gps' = "hung"
    /\ UNCHANGED <<num, msg, line, lines, nmea, stream>>

----------------------------------------------------------------------------
(* pasInit and pasRead *)

\* readOut(n lines), and the module is about to send token t of second s.
ReadOut(n, s, t) ==
    /\ gps' = "reading"
    /\ num' = n
    /\ msg' = FALSE /\ line' = <<>> /\ lines' = <<>>
    /\ nmea' = [pos |-> None, speed |-> None]
    /\ sec' = s /\ tok' = t
    /\ clean' = TRUE /\ whole' = TRUE
    /\ UNCHANGED <<time, faults>>

\* The module was told to be silent, then what to send, and acknowledges that.
PasInit == ReadOut(1, 0, 1)

CheckAck ==
    /\ gps = "parsing" /\ num = 1
    /\ gps' = IF lines = <<<<[kind |-> "ack", sec |-> 0, intact |-> TRUE]>>>>
              THEN "ready" ELSE "failed"
    /\ lines' = <<>>
    /\ UNCHANGED <<num, msg, line, nmea, sec, tok, time, faults, clean, whole>>

PasRead == \E t \in 1 .. 6 : ReadOut(PAS_NMEA_CNT, 1, t)

First(l) == IF l = <<>> THEN None ELSE l[1]

\* XOR up to the first '*'; the checksum of nothing is right.
CheckSum(l) == First(l).intact

\* A mutation: the fields are not counted.
MayFitAlways(l) == First(l) = First(l)

\* The bodies that follow the first add fields, except what is left of a garbled
\* one may have no more comma.
MayFit(l) == \A i \in 2 .. Len(l) : ~l[i].intact
MustFit(l) == Len(l) = 1

\* Sets a group of fields from the line l, and tells whether to go on.
SetFields(group, l) ==
    /\ nmea' = [nmea EXCEPT ![group] = First(l)]
    /\ \/ MayFit(l) /\ gps' = IF Len(lines) = 1 THEN "ok" ELSE "parsing"
       \/ ~MustFit(l) /\ gps' = "failed"

\* The next of the two lines.  Other sentences are ignored, and so is a line
\* with nothing in it.
ParseLine ==
    /\ gps = "parsing" /\ num = PAS_NMEA_CNT
    /\ LET l == Head(lines)
           kind == First(l).kind
       IN  \/ ~CheckSum(l) /\ gps' = "failed" /\ UNCHANGED nmea
           \/ CheckSum(l) /\ kind = "GPGGA" /\ SetFields("pos", l)
           \/ CheckSum(l) /\ kind = "GPRMC" /\ SetFields("speed", l)
           \/ /\ CheckSum(l) /\ kind \notin {"GPGGA", "GPRMC"}
              /\ gps' = IF Len(lines) = 1 THEN "ok" ELSE "parsing"
              /\ UNCHANGED nmea
    /\ lines' = Tail(lines)
    /\ UNCHANGED <<num, msg, line, sec, tok, time, faults, clean, whole>>

Init ==
    /\ gps = "off"
    /\ num = 0
    /\ msg = FALSE /\ line = <<>> /\ lines = <<>>
    /\ nmea = [pos |-> None, speed |-> None]
    /\ sec = 0 /\ tok = 1
    /\ time = 0
    /\ faults = 0
    /\ clean = TRUE /\ whole = TRUE

Step ==
    \/ ReadDollar \/ ReadBody \/ ReadNewline
    \/ Drop \/ Garble \/ Unexpected \/ Silence
    \/ CheckAck \/ ParseLine

Next ==
    \/ gps = "off" /\ PasInit
    \/ gps \in {"ready", "ok", "failed"} /\ num > 0 /\ PasRead
    \/ Step

----------------------------------------------------------------------------
(* Properties *)

TypeOK ==
    /\ gps \in {"off", "reading", "parsing", "ready", "ok", "failed", "hung"}
    /\ num \in 0 .. PAS_NMEA_CNT
    /\ msg \in BOOLEAN
    /\ line \in Seq(Bodies)
    /\ lines \in Seq(Seq(Bodies)) /\ Len(lines) <= num
    /\ nmea \in [pos : Bodies, speed : Bodies]
    /\ sec \in Nat
    /\ tok \in 1 .. 6
    /\ time \in Nat
    /\ faults \in 0 .. MaxFaults
    /\ clean \in BOOLEAN /\ whole \in BOOLEAN

\* Wherever in the stream pasRead begins, without a fault it succeeds and takes
\* position and speed from sentences of the same second or, if it began between
\* the two, the position from the second after.
ReadsAnywhere ==
    gps \in {"ok", "failed"} /\ num = PAS_NMEA_CNT /\ clean =>
        /\ gps = "ok"
        /\ nmea.pos.sec > 0
        /\ nmea.speed.sec > 0
        /\ nmea.pos.sec - nmea.speed.sec \in {0, 1}

\* Lines that run together because newlines were lost never pass for a fix whose
\* position or speed is left over from an earlier call: pasRead fails, or it
\* returns both, from one sentence and the next.
JoinedRefused ==
    gps = "ok" /\ num = PAS_NMEA_CNT /\ whole =>
        /\ nmea.pos.sec > 0
        /\ nmea.speed.sec > 0
        /\ nmea.pos.sec - nmea.speed.sec \in {0, 1}

=============================================================================
