------------------------------ MODULE AvrenvRx ------------------------------
(***************************************************************************)
(* The receiver (avrenv-rx): the main program that looks for a payload and *)
(* goes to sleep, the PORTD interrupt the radio raises on two pins, and    *)
(* the periodic interrupt (PIT) that counts seconds.  Interrupts come      *)
(* between any two steps of the main program; one does not interrupt the   *)
(* other.                                                                  *)
(*                                                                         *)
(* The radio library is not part of the repository.  Of it is assumed that *)
(* rfmIrq takes note of a payload that is there, whichever pin called it,  *)
(* that rfmPayloadReady reports it once, and that no other payload is      *)
(* received before rfmStartReceive.                                        *)
(***************************************************************************)
EXTENDS Integers

CONSTANTS
    PIT_MOD,    \* pitints counts modulo this (2^32)
    START_MOD,  \* and rxtstart keeps it modulo this (2^16)
    Splits,     \* where a read of pitints may be torn (2^8, 2^16, 2^24)
    UCHAR_MAX,  \* the largest duration that is sent on (255)
    MaxAwake,   \* most PIT interrupts while the main program is awake
    MaxEdges    \* most edges of DIO4 between two PIT interrupts

ASSUME CountAssumption ==
    /\ PIT_MOD \in Nat \ {0}
    /\ START_MOD \in Nat \ {0}
    /\ Splits \subseteq Nat \ {0}
    /\ UCHAR_MAX \in Nat
    /\ MaxAwake \in Nat \ {0}
    /\ MaxEdges \in Nat

VARIABLES
    pc,       \* where the main program is
    isr,      \* where the PORTD interrupt handler is
    flags,    \* PORTD_INTFLAGS: the pins that had a rising edge
    loaded,   \* what |= loaded from it
    noted,    \* rfmIrq took note of a payload
    radio,    \* the radio receives, holds a payload, or failed to initialize
    fits,     \* the payload has the expected length
    edges,    \* edges of DIO4 since the last PIT interrupt
    pitints,  \* seconds counted by the PIT
    start,    \* rxtstart
    dur,      \* the duration that is sent on
    awake,    \* PIT interrupts since the main program last slept
    since,    \* history: seconds since rxtstart was set, up to a bound
    exact,    \* history: no count wrapped, was cut off or read torn
    age       \* history: seconds the payload has been waiting

vars == <<pc, isr, flags, loaded, noted, radio, fits, edges, pitints, start,
          dur, awake, since, exact, age>>

isrVars == <<isr, flags, loaded>>
radioVars == <<radio, fits, age>>
countVars == <<pitints, awake, since, edges>>

Pins == {2, 3}   \* DIO0 and DIO4/DIO1 of the radio

Handling == {"dur", "start", "read", "line", "error"}
Locations == Handling \cup {"check", "gap", "asleep"}

Idle == <<"idle", 0>>
Return == <<"return", 0>>
Steps == {Idle, Return} \cup {"test", "clear", "call"} \X Pins

----------------------------------------------------------------------------
(* The radio and its two pins *)

\* A payload arrives, of the expected length or another: DIO0 rises.
Arrive(ok) ==
    /\ radio = "rx"
    /\ radio' = "full"
    /\ fits' = ok
    /\ age' = 0
    /\ flags' = flags \cup {2}
    /\ UNCHANGED <<pc, isr, loaded, noted, countVars, start, dur, exact>>

\* DIO4 rises, for a payload or for nothing.
OtherEdge ==
    /\ radio \in {"rx", "full"}
    /\ edges < MaxEdges
    /\ edges' = edges + 1
    /\ flags' = flags \cup {3}
    /\ UNCHANGED <<pc, isr, loaded, noted, radioVars, pitints, awake, since,
                   start, dur, exact>>

----------------------------------------------------------------------------
(* The PORTD interrupt *)

\* An interrupt wakes the main program, which goes on behind sleep_mode().
Wake(p) == IF p = "asleep" THEN "check" ELSE p

\* The handler is entered.
Interrupt ==
    /\ isr = Idle
    /\ flags # {}
    /\ isr' = <<"test", 2>>
    /\ UNCHANGED <<pc, flags, loaded, noted, radioVars, countVars, start, dur,
                   exact>>

\* Behind the branch of a pin comes that of the other one, or the return.
Behind(pin) == IF pin = 2 THEN <<"test", 3>> ELSE Return

\* The flag of the pin is tested and, when it is set, |= loads all of them.
Test(pin) ==
    /\ isr = <<"test", pin>>
    /\ IF pin \in flags
       THEN loaded' = flags /\ isr' = <<"clear", pin>>
       ELSE loaded' = loaded /\ isr' = Behind(pin)
    /\ UNCHANGED <<pc, flags, noted, radioVars, countVars, start, dur, exact>>

\* A mutation: the flag of the second pin is cleared and nothing else is done.
ClearOnly(pin) ==
    /\ isr = <<"clear", pin>>
    /\ flags' = flags \ loaded
    /\ loaded' = {}
    /\ isr' = IF pin = 2 THEN <<"call", pin>> ELSE Return
    /\ UNCHANGED <<pc, noted, radioVars, countVars, start, dur, exact>>

\* |= stores them: each flag that was loaded is cleared, whichever pin it
\* belongs to, and a flag set since then stays.
Clear(pin) ==
    /\ isr = <<"clear", pin>>
    /\ flags' = flags \ loaded
    /\ loaded' = {}
    /\ isr' = <<"call", pin>>
    /\ UNCHANGED <<pc, noted, radioVars, countVars, start, dur, exact>>

\* rfmIrq().
Call(pin) ==
    /\ isr = <<"call", pin>>
    /\ noted' = (noted \/ radio = "full")
    /\ isr' = Behind(pin)
    /\ UNCHANGED <<pc, flags, loaded, radioVars, countVars, start, dur, exact>>

\* The handler returns.
Reti ==
    /\ isr = Return
    /\ isr' = Idle
    /\ pc' = Wake(pc)
    /\ UNCHANGED <<flags, loaded, noted, radioVars, countVars, start, dur,
                   exact>>

----------------------------------------------------------------------------
(* The PIT *)

\* pitints++
NextCount(p) == (p + 1) % PIT_MOD

\* Seconds are kept until they no longer make a difference.
Later(s) == IF s <= UCHAR_MAX + MaxAwake THEN s + 1 ELSE s

\* A second is counted while the main program is awake.
Count ==
    /\ awake < MaxAwake
    /\ awake' = awake + 1
    /\ pitints' = NextCount(pitints)
    /\ since' = Later(since)
    /\ edges' = 0

\* A payload is there and the main program does not know.
Unnoticed == radio = "full" /\ pc \notin Handling

\* A mutation: the PIT does not wake the main program.
TickNoWake ==
    /\ isr = Idle /\ flags = {}
    /\ pc = "asleep"
    /\ pitints' = NextCount(pitints)
    /\ since' = Later(since)
    /\ edges' = 0
    /\ age' = IF Unnoticed THEN age + 1 ELSE age
    /\ exact' = (exact /\ pitints' # 0)
    /\ UNCHANGED <<pc, isrVars, noted, radio, fits, awake, start, dur>>

\* The PIT interrupt, between two steps of the main program or in its sleep.
Tick ==
    /\ isr = Idle /\ flags = {}
    /\ IF pc = "asleep"
       THEN /\ awake' = 1
            /\ pitints' = NextCount(pitints)
            /\ since' = Later(since)
            /\ edges' = 0
       ELSE Count
    /\ pc' = Wake(pc)
    /\ age' = IF Unnoticed THEN age + 1 ELSE age
    /\ exact' = (exact /\ pitints' # 0)
    /\ UNCHANGED <<isrVars, noted, radio, fits, start, dur>>

----------------------------------------------------------------------------
(* The main program *)

\* It runs when there is no interrupt to serve.
At(p) == pc = p /\ isr = Idle /\ flags = {}

\* if (radio) receiveData(): rfmPayloadReady says whether there is a payload.
Check ==
    /\ At("check")
    /\ noted' = FALSE
    /\ pc' = IF radio # "off" /\ noted THEN "dur" ELSE "gap"
    /\ UNCHANGED <<isrVars, radioVars, countVars, start, dur, exact>>

\* What a read of pitints, one byte after the other, returns: for m = 0 the
\* count, else the PIT interrupt comes when the part below m has been read.
Value(m) ==
    IF m = 0 THEN pitints
    ELSE LET after == NextCount(pitints)
         IN  (pitints % m) + (after - (after % m))

ReadCount(m) == IF m = 0 THEN UNCHANGED countVars ELSE Count

\* The read returned the count before or after the interrupt.
Whole(m) ==
    /\ Value(m) \in {pitints, NextCount(pitints)}
    /\ m # 0 => NextCount(pitints) # 0

\* A mutation: the 32 bit difference is not limited.
DurationUnclamped(now, then) == (now - then) % PIT_MOD

\* A mutation: it is cut off to 8 bits.
DurationCutOff(now, then) == ((now - then) % PIT_MOD) % (UCHAR_MAX + 1)

\* min(UCHAR_MAX, pitints - rxtstart), in 32 bits.
Duration(now, then) ==
    LET difference == (now - then) % PIT_MOD
    IN  IF difference < UCHAR_MAX THEN difference ELSE UCHAR_MAX

\* uint8_t dur = ...
SetDur(m) ==
    /\ At("dur")
    /\ ReadCount(m)
    /\ dur' = Duration(Value(m), start)
    /\ exact' = (exact /\ Whole(m))
    /\ pc' = "start"
    /\ UNCHANGED <<isrVars, noted, radioVars, start>>

\* rxtstart = pitints, in 16 bits.
SetStart(m) ==
    /\ At("start")
    /\ IF m = 0
       THEN UNCHANGED <<pitints, awake, edges>> /\ since' = 0
       ELSE /\ awake < MaxAwake
            /\ awake' = awake + 1
            /\ pitints' = NextCount(pitints)
            /\ edges' = 0
            /\ since' = IF Value(m) = pitints THEN 1 ELSE 0
    /\ start' = Value(m) % START_MOD
    /\ exact' = (Whole(m) /\ Value(m) < START_MOD)
    /\ pc' = "read"
    /\ UNCHANGED <<isrVars, noted, radioVars, dur>>

\* rfmReadPayload, and the look at the length.
ReadPayload ==
    /\ At("read")
    /\ pc' = IF fits THEN "line" ELSE "error"
    /\ UNCHANGED <<isrVars, noted, radioVars, countVars, start, dur, exact>>

\* rfmStartReceive(false): the radio receives again.
StartReceive ==
    /\ radio' = "rx"
    /\ noted' = FALSE
    /\ UNCHANGED <<fits, age>>

\* getData, handleData: a line is printed.
PrintLine ==
    /\ At("line")
    /\ StartReceive
    /\ pc' = "gap"
    /\ UNCHANGED <<isrVars, countVars, start, dur, exact>>

\* A mutation: the function returns when the length is wrong.
PrintErrorReturns ==
    /\ At("error")
    /\ pc' = "gap"
    /\ UNCHANGED <<isrVars, noted, radioVars, countVars, start, dur, exact>>

\* The length is wrong: an error is printed instead.
PrintError ==
    /\ At("error")
    /\ StartReceive
    /\ pc' = "gap"
    /\ UNCHANGED <<isrVars, countVars, start, dur, exact>>

\* sleep_mode(); a payload that came after the check does not prevent it.
Sleep ==
    /\ At("gap")
    /\ pc' = "asleep"
    /\ awake' = 0
    /\ UNCHANGED <<isrVars, noted, radioVars, pitints, since, edges, start, dur,
                   exact>>

----------------------------------------------------------------------------

Init ==
    /\ pc = "check"
    /\ isr = Idle
    /\ flags = {}
    /\ loaded = {}
    /\ noted = FALSE
    /\ radio \in {"rx", "off"}
    /\ fits = FALSE
    /\ edges = 0
    /\ pitints = 0
    /\ start = 0
    /\ dur = 0
    /\ awake = 0
    /\ since = 0
    /\ exact = TRUE
    /\ age = 0

Main ==
    \/ Check
    \/ \E m \in {0} \cup Splits : SetDur(m) \/ SetStart(m)
    \/ ReadPayload
    \/ PrintLine
    \/ PrintError
    \/ Sleep

Handler ==
    \/ Interrupt
    \/ \E pin \in Pins : Test(pin) \/ Clear(pin) \/ Call(pin)
    \/ Reti

Next ==
    \/ Main
    \/ Handler
    \/ Tick
    \/ \E ok \in BOOLEAN : Arrive(ok)
    \/ OtherEdge

\* The processor runs, the handlers leave it time, and seconds pass.
Fairness ==
    /\ WF_vars(Main)
    /\ WF_vars(Handler)
    /\ WF_vars(Tick)

Spec == Init /\ [][Next]_vars

FairSpec == Spec /\ Fairness

----------------------------------------------------------------------------
(* Properties *)

TypeOK ==
    /\ pc \in Locations
    /\ isr \in Steps
    /\ flags \in SUBSET Pins
    /\ loaded \in SUBSET Pins
    /\ noted \in BOOLEAN
    /\ radio \in {"rx", "full", "off"}
    /\ fits \in BOOLEAN
    /\ edges \in 0 .. MaxEdges
    /\ pitints \in 0 .. PIT_MOD - 1
    /\ start \in 0 .. START_MOD - 1
    /\ dur \in 0 .. UCHAR_MAX
    /\ awake \in 0 .. MaxAwake
    /\ since \in 0 .. UCHAR_MAX + MaxAwake + 1
    /\ exact \in BOOLEAN
    /\ age \in Nat

\* The handler calls rfmIrq, now or in the branch of the other pin.
Serving == isr[1] \in {"clear", "call"}

\* No payload is lost between the interrupt flags, the handler and the main
\* program: although |= clears the flags of both pins, one that is there is
\* noted, about to be noted, or its flag is still set.
NoEdgeLost ==
    Unnoticed => noted \/ 2 \in flags \/ Serving

\* A payload that arrives when the main program has looked and is about to
\* sleep is not forgotten: it waits until the program sleeps, and the next PIT
\* interrupt wakes it.
Prompt == Unnoticed => age <= 2 * MaxAwake

\* How much less than the seconds that have passed dur is.
Short == (IF since < UCHAR_MAX THEN since ELSE UCHAR_MAX) - dur

\* The duration is that since the last payload, but for interrupts while the
\* program is awake, as long as rxtstart holds all of the count and no read of
\* it was torn.
DurationRight == pc = "start" /\ exact => Short \in 0 .. MaxAwake

\* Whatever was received, the receiver goes back to receive mode.
BackToReceiving == radio = "full" ~> radio = "rx"

\* "dur duration since last transmission": the same whatever the count is.
DurationAlwaysRight == pc = "start" => Short \in 0 .. MaxAwake

=============================================================================
