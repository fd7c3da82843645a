------------------------------ MODULE AvrenvTx ------------------------------
(***************************************************************************)
(* The transmitter's main program (avrenv-tx/avrenv.c and data.c): one     *)
(* thread of C code, the periodic interrupt timer (PIT) that counts        *)
(* seconds, the watchdog, the resets, and the SD card whose next address   *)
(* survives every reset but a power-on.                                    *)
(*                                                                         *)
(* Time is counted in whole seconds: Tick is one second passing, and the   *)
(* steps of the program happen between ticks.  A call to a device either   *)
(* succeeds, reports failure, or never returns: the I2C and GPS read loops *)
(* have no timeout.                                                        *)
(***************************************************************************)
EXTENDS Selection

CONSTANTS
    INTERVAL,    \* seconds between two slots of the main loop
    WdtPeriod,   \* seconds until the watchdog resets the controller
    MaxInit,     \* most seconds an initialization that does not hang takes
    MaxMeas,     \* most seconds a slot that does not hang takes
    CardSize,    \* blocks of the SD card; an address >= CardSize is refused
    Splits,      \* values of the lowest bit of each byte but the first
    Batteries,   \* battery voltages the ADC may report
    MaxBattery,  \* the largest of them (4095 mV: a 12 bit result)
    BAT_LOW_MV,  \* below it (average) the loop does nothing
    BAT_SDC_MV,  \* at or below it nothing is written to the SD card
    BAT_PAS_MV   \* below it the GPS is switched off until the next reset

ASSUME TimeAssumption ==
    /\ INTERVAL \in Nat \ {0}
    /\ WdtPeriod \in Nat
    /\ MaxInit \in Nat
    /\ MaxMeas \in Nat

\* A slot that does not hang ends before the next one is due, and the slot
\* plus the wait for it stay below the watchdog's period (4 s, 8 s).
ASSUME SlotAssumption ==
    /\ MaxMeas < INTERVAL
    /\ MaxInit < WdtPeriod
    /\ INTERVAL + MaxMeas < WdtPeriod

ASSUME CardAssumption == CardSize \in Nat

ASSUME SplitsAssumption == \A m \in Splits : m \in Nat \ {0}

ASSUME BatteryAssumption ==
    /\ MaxBattery \in Nat
    /\ Batteries \subseteq 0 .. MaxBattery
    /\ BAT_LOW_MV \in Nat
    /\ BAT_SDC_MV \in Nat
    /\ BAT_PAS_MV \in Nat
    /\ BAT_LOW_MV <= BAT_SDC_MV
    /\ BAT_SDC_MV < BAT_PAS_MV

Blocks == 0 .. CardSize - 1
Blank == "blank"
Contents == {Blank, "reset", "meas"}

\* How a call to a device may end.
Outcomes == {"ok", "fail", "hang"}

VARIABLES
    pc,       \* where the main program is
    pitints,  \* seconds since the PIT was enabled, modulo INTERVAL
    wdt,      \* seconds since the watchdog was last reset
    busy,     \* seconds the current initialization or slot has taken
    porf,     \* the reset flag register still shows a power-on reset
    bavg,     \* averaged battery voltage, 0 before the first sample
    ready,    \* radio && bme == 0 && pas
    sdc,      \* sdcInit() succeeded
    pason,    \* the GPS enable pin is high
    bmeok,    \* bmeMeasure() of this slot returned 0
    sdaddr,   \* next SD card address (.noinit)
    slot,     \* the address the running write was given
    card,     \* the blocks, as written since the last power-on
    first,    \* history: sdaddr when this boot began
    fed,      \* history: the watchdog was reset since this boot began
    torn,     \* history: since power came a reset set the address back
    calm      \* environment: from now on nothing fails

vars == <<pc, pitints, wdt, busy, porf, bavg, ready, sdc, pason, bmeok,
          sdaddr, slot, card, first, fed, torn, calm>>

InitPhase == {"initReset", "initRadio", "initBme", "initSdc", "storeReset",
              "writeReset", "initPas", "enablePit"}
SlotPhase == {"storeMeas", "bmeMeasure", "pasRead", "transmit", "writeMeas",
              "feed", "sleep"}
Locations == InitPhase \cup SlotPhase \cup {"loop", "asleep", "hung"}

\* pitints++, modulo INTERVAL: the count is only used in pitints % INTERVAL,
\* and INTERVAL divides 2^32.
NextSecond(p) == IF p + 1 < INTERVAL THEN p + 1 ELSE 0

----------------------------------------------------------------------------
(* The address *)

\* Addresses past the end of the card are all refused alike and stand for one.
Address(x) == IF x < CardSize THEN x ELSE CardSize

\* sdaddr++.
NextAddress(a) == Address(a + 1)

\* What sdaddr holds while sdaddr++ stores it byte by byte: still the old
\* address, or the bytes below a boundary m of the new one with the bytes above
\* it of the old one, or the other way round.  They only mix when the low bytes
\* wrap around to zero: then the address falls back to the block t whose low
\* bytes are zero, of the m the old address was the last of, or goes m ahead.
Storing(a) ==
    {a} \cup
    {t \in 0 .. CardSize :
        \E m \in Splits :
            \/ t % m = 0 /\ Address(t + m - 1) = a
            \/ (a + 1) % m = 0 /\ t = Address(a + m)}

StorePhase == {"storeReset", "storeMeas"}

\* The address is half stored and lies before the one that is being spent.
SetBack == pc \in StorePhase /\ sdaddr < slot

----------------------------------------------------------------------------
(* Resets *)

\* What every reset does to RAM, the timers and the pins: the variables are
\* zeroed by the C startup code, initPins raises the GPS enable pin, and only
\* the flag register, .noinit memory and the SD card keep their contents.
Restart ==
    /\ pc' = "initReset"
    /\ pitints' = 0
    /\ wdt' = 0
    /\ busy' = 0
    /\ bavg' = 0
    /\ ready' = TRUE
    /\ sdc' = FALSE
    /\ pason' = TRUE
    /\ bmeok' = FALSE
    /\ slot' = 0
    /\ fed' = FALSE
    /\ UNCHANGED calm

\* Power is cut and comes back: .noinit memory holds anything.  A new log
\* begins: the blocks of an earlier power cycle do not count as written.
PowerOn ==
    /\ ~calm
    /\ Restart
    /\ porf' = TRUE
    /\ sdaddr' \in 0 .. CardSize
    /\ first' = 0
    /\ card' = [a \in Blocks |-> Blank]
    /\ torn' = FALSE

\* Every other reset keeps .noinit memory as it is, half stored or not.
SoftReset ==
    /\ Restart
    /\ torn' = (torn \/ SetBack)
    /\ UNCHANGED <<porf, sdaddr, first, card>>

\* The reset pin, the UPDI interface or the brown-out detector.
ExternalReset == ~calm /\ SoftReset

WatchdogExpired == wdt >= WdtPeriod

WatchdogReset == WatchdogExpired /\ SoftReset

----------------------------------------------------------------------------
(* Initialization, main() up to the loop *)

\* The outcomes a device call may have now.
Outcome(r) == r = "ok" \/ ~calm

\* Main goes on at next, or is stuck in the call it made.
Goto(r, next) == pc' = IF r = "hang" THEN "hung" ELSE next

\* A mutation: the address is cleared by every reset.
InitResetAlways ==
    /\ pc = "initReset"
    /\ pc' = "initRadio"
    /\ sdaddr' = 0
    /\ first' = sdaddr'
    /\ porf' = FALSE
    /\ UNCHANGED <<pitints, wdt, busy, bavg, ready, sdc, pason, bmeok, slot,
                   card, fed, torn, calm>>

\* initReset: .noinit memory is only cleared when power came back, and the
\* reset flags are cleared after they were looked at.
InitReset ==
    /\ pc = "initReset"
    /\ pc' = "initRadio"
    /\ sdaddr' = IF porf THEN 0 ELSE sdaddr
    /\ first' = sdaddr'
    /\ porf' = FALSE
    /\ UNCHANGED <<pitints, wdt, busy, bavg, ready, sdc, pason, bmeok, slot,
                   card, fed, torn, calm>>

\* rfmInit; a failure is only remembered.
InitRadio(r) ==
    /\ pc = "initRadio"
    /\ Outcome(r)
    /\ Goto(r, "initBme")
    /\ ready' = (ready /\ r = "ok")
    /\ UNCHANGED <<pitints, wdt, busy, porf, bavg, sdc, pason, bmeok, sdaddr,
                   slot, card, first, fed, torn, calm>>

\* bmeInit, over I2C.
InitBme(r) ==
    /\ pc = "initBme"
    /\ Outcome(r)
    /\ Goto(r, "initSdc")
    /\ ready' = (ready /\ r = "ok")
    /\ UNCHANGED <<pitints, wdt, busy, porf, bavg, sdc, pason, bmeok, sdaddr,
                   slot, card, first, fed, torn, calm>>

\* A mutation: no block is spent on the reset record.
InitSdcNoRecord(r) ==
    /\ pc = "initSdc"
    /\ Outcome(r)
    /\ Goto(r, "initPas")
    /\ sdc' = (r = "ok")
    /\ UNCHANGED <<slot, sdaddr, pitints, wdt, busy, porf, bavg, ready, pason,
                   bmeok, card, first, fed, torn, calm>>

\* sdcInit; when it succeeds writeReset takes the address and begins to store
\* the next one.
InitSdc(r) ==
    /\ pc = "initSdc"
    /\ Outcome(r)
    /\ Goto(r, IF r = "ok" THEN "storeReset" ELSE "initPas")
    /\ sdc' = (r = "ok")
    /\ IF r = "ok"
       THEN slot' = sdaddr /\ sdaddr' \in Storing(sdaddr)
       ELSE UNCHANGED <<slot, sdaddr>>
    /\ UNCHANGED <<pitints, wdt, busy, porf, bavg, ready, pason, bmeok, card,
                   first, fed, torn, calm>>

\* The address of writeReset's call is stored before the call.
StoreReset ==
    /\ pc = "storeReset"
    /\ pc' = "writeReset"
    /\ sdaddr' = NextAddress(slot)
    /\ UNCHANGED <<pitints, wdt, busy, porf, bavg, ready, sdc, pason, bmeok,
                   slot, card, first, fed, torn, calm>>

\* sdcWriteSingleBlock(slot, ...): the block is written, or the card refuses.
WriteBlock(what, r) ==
    IF r = "ok" /\ slot \in Blocks
    THEN card' = [card EXCEPT ![slot] = what]
    ELSE UNCHANGED card

\* The write inside writeReset; its result is ignored.
WriteReset(r) ==
    /\ pc = "writeReset"
    /\ Outcome(r)
    /\ Goto(r, "initPas")
    /\ WriteBlock("reset", r)
    /\ UNCHANGED <<pitints, wdt, busy, porf, bavg, ready, sdc, pason, bmeok,
                   sdaddr, slot, first, fed, torn, calm>>

\* pasInit: two delays of a second, then the wait for the acknowledge.
InitPas(r) ==
    /\ pc = "initPas"
    /\ Outcome(r)
    /\ Goto(r, "enablePit")
    /\ ready' = (ready /\ r = "ok")
    /\ UNCHANGED <<pitints, wdt, busy, porf, bavg, sdc, pason, bmeok, sdaddr,
                   slot, card, first, fed, torn, calm>>

\* enable_pit, sei and the way into the loop.  The PIT's first period may be
\* of any length up to a second: when it ends in this step (early), the slot
\* at 0 is missed.
EnablePit(early) ==
    /\ pc = "enablePit"
    /\ early => ~calm /\ ~WatchdogExpired
    /\ pc' = "loop"
    /\ busy' = 0
    /\ pitints' = IF early THEN NextSecond(0) ELSE 0
    /\ wdt' = IF early THEN wdt + 1 ELSE wdt
    /\ UNCHANGED <<porf, bavg, ready, sdc, pason, bmeok, sdaddr, slot, card,
                   first, fed, torn, calm>>

----------------------------------------------------------------------------
(* The loop *)

\* A mutation: the sum is not halved.
AverageNoShift(avg, bat) == IF avg = 0 THEN bat ELSE avg + bat

\* if (bavg == 0) bavg = bat; bavg = (bavg + bat) >> 1;
Average(avg, bat) == IF avg = 0 THEN bat ELSE (avg + bat) \div 2

\* The condition of the loop, with a battery sample taken.  A battery that
\* recovers reads above the threshold: an average one below it and samples at
\* it would stay where they are, because the average is rounded down.
Due(bat) ==
    /\ pc = "loop"
    /\ pitints = 0
    /\ calm => bat > BAT_LOW_MV
    /\ busy' = 0
    /\ bavg' = Average(bavg, bat)

\* A mutation: the watchdog is not reset while the battery is low.
LowBatteryNoReset(bat) ==
    /\ Due(bat)
    /\ bavg' < BAT_LOW_MV
    /\ wdt' = wdt
    /\ fed' = fed
    /\ pc' = "sleep"
    /\ UNCHANGED <<pitints, porf, ready, sdc, pason, bmeok, sdaddr, slot, card,
                   first, torn, calm>>

\* The battery is low: the watchdog is reset and nothing else is done.
LowBattery(bat) ==
    /\ Due(bat)
    /\ bavg' < BAT_LOW_MV
    /\ wdt' = 0
    /\ fed' = TRUE
    /\ pc' = "sleep"
    /\ UNCHANGED <<pitints, porf, ready, sdc, pason, bmeok, sdaddr, slot, card,
                   first, torn, calm>>

\* A mutation: the watchdog is reset whether or not the devices are ready.
NotReadyReset(bat) ==
    /\ Due(bat)
    /\ bavg' >= BAT_LOW_MV
    /\ ~ready
    /\ wdt' = 0
    /\ pc' = "sleep"
    /\ UNCHANGED <<pitints, porf, ready, sdc, pason, bmeok, sdaddr, slot,
                   card, first, fed, torn, calm>>

\* A device failed to initialize: the slot is skipped and the watchdog runs on.
NotReady(bat) ==
    /\ Due(bat)
    /\ bavg' >= BAT_LOW_MV
    /\ ~ready
    /\ pc' = "sleep"
    /\ UNCHANGED <<pitints, wdt, porf, ready, sdc, pason, bmeok, sdaddr, slot,
                   card, first, fed, torn, calm>>

\* doMeas(sdc, sdaddr++): the address is taken, and the next one stored, before
\* anything is measured.
StartMeas(bat) ==
    /\ Due(bat)
    /\ bavg' >= BAT_LOW_MV
    /\ ready
    /\ slot' = sdaddr
    /\ sdaddr' \in Storing(sdaddr)
    /\ pc' = "storeMeas"
    /\ UNCHANGED <<pitints, wdt, porf, ready, sdc, pason, bmeok, card, first,
                   fed, torn, calm>>

\* A mutation: doMeas is given sdaddr + 1, and sdaddr keeps its value.
StoreMeasNot ==
    /\ pc = "storeMeas"
    /\ pc' = "bmeMeasure"
    /\ sdaddr' = slot
    /\ UNCHANGED <<pitints, wdt, busy, porf, bavg, ready, sdc, pason, bmeok,
                   slot, card, first, fed, torn, calm>>

\* The last byte is stored and doMeas called.
StoreMeas ==
    /\ pc = "storeMeas"
    /\ pc' = "bmeMeasure"
    /\ sdaddr' = NextAddress(slot)
    /\ UNCHANGED <<pitints, wdt, busy, porf, bavg, ready, sdc, pason, bmeok,
                   slot, card, first, fed, torn, calm>>

\* A mutation: without a position there is nothing to send.
BmeMeasureForPas(r) ==
    /\ pc = "bmeMeasure"
    /\ Outcome(r)
    /\ bmeok' = (r = "ok")
    /\ pason' = IF r # "hang" /\ bavg < BAT_PAS_MV THEN FALSE ELSE pason
    /\ Goto(r, IF pason' THEN "pasRead" ELSE "feed")
    /\ UNCHANGED <<pitints, wdt, busy, porf, bavg, ready, sdc, sdaddr, slot,
                   card, first, fed, torn, calm>>

\* bmeMeasure; then the GPS is switched off for good when the battery is low.
\* The GPS is read, and waited for, whatever the sensor said.
BmeMeasure(r) ==
    /\ pc = "bmeMeasure"
    /\ Outcome(r)
    /\ bmeok' = (r = "ok")
    /\ pason' = IF r # "hang" /\ bavg < BAT_PAS_MV THEN FALSE ELSE pason
    /\ Goto(r, IF pason' THEN "pasRead"
               ELSE IF bmeok' THEN "transmit" ELSE "feed")
    /\ UNCHANGED <<pitints, wdt, busy, porf, bavg, ready, sdc, sdaddr, slot,
                   card, first, fed, torn, calm>>

\* pasRead: both sentences are read and valid, or there is nothing to send.
PasRead(r) ==
    /\ pc = "pasRead"
    /\ Outcome(r)
    /\ Goto(r, IF bmeok /\ r = "ok" THEN "transmit" ELSE "feed")
    /\ UNCHANGED <<pitints, wdt, busy, porf, bavg, ready, sdc, pason, bmeok,
                   sdaddr, slot, card, first, fed, torn, calm>>

\* transmitMeas; its result is ignored.
Transmit(r) ==
    /\ pc = "transmit"
    /\ Outcome(r)
    /\ Goto(r, IF sdc /\ bavg > BAT_SDC_MV THEN "writeMeas" ELSE "feed")
    /\ UNCHANGED <<pitints, wdt, busy, porf, bavg, ready, sdc, pason, bmeok,
                   sdaddr, slot, card, first, fed, torn, calm>>

\* writeMeas; a refused write is only reported.
WriteMeas(r) ==
    /\ pc = "writeMeas"
    /\ Outcome(r)
    /\ Goto(r, "feed")
    /\ WriteBlock("meas", r)
    /\ UNCHANGED <<pitints, wdt, busy, porf, bavg, ready, sdc, pason, bmeok,
                   sdaddr, slot, first, fed, torn, calm>>

\* wdt_reset() after doMeas returned, whether or not anything was sent.
Feed ==
    /\ pc = "feed"
    /\ pc' = "sleep"
    /\ wdt' = 0
    /\ fed' = TRUE
    /\ UNCHANGED <<pitints, busy, porf, bavg, ready, sdc, pason, bmeok, sdaddr,
                   slot, card, first, torn, calm>>

\* A mutation: the watchdog is reset before every sleep.
SleepFeeds ==
    /\ pc = "sleep"
    /\ pc' = "asleep"
    /\ wdt' = 0
    /\ UNCHANGED <<pitints, busy, porf, bavg, ready, sdc, pason, bmeok, sdaddr,
                   slot, card, first, fed, torn, calm>>

\* sleep_mode().
Sleep ==
    /\ pc = "sleep"
    /\ pc' = "asleep"
    /\ UNCHANGED <<pitints, wdt, busy, porf, bavg, ready, sdc, pason, bmeok,
                   sdaddr, slot, card, first, fed, torn, calm>>

----------------------------------------------------------------------------
(* Time *)

\* A second passes while the program works, within the time work may take.
Working ==
    \/ pc \in InitPhase /\ busy < MaxInit
    \/ pc \in SlotPhase /\ busy < MaxMeas

\* A second passes while the program has nothing to do until it does.
Waiting ==
    \/ pc = "loop" /\ pitints # 0
    \/ pc \in {"asleep", "hung"}

\* The PIT interrupt counts and wakes the program; before enable_pit there is
\* none, and a program that hangs no longer reads the count.
Tick ==
    /\ ~WatchdogExpired
    /\ Working \/ Waiting
    /\ wdt' = wdt + 1
    /\ busy' = IF Working THEN busy + 1 ELSE busy
    /\ pitints' = IF pc \in InitPhase \cup {"hung"} THEN pitints
                  ELSE NextSecond(pitints)
    /\ pc' = IF pc = "asleep" THEN "loop" ELSE pc
    /\ UNCHANGED <<porf, bavg, ready, sdc, pason, bmeok, sdaddr, slot, card,
                   first, fed, torn, calm>>

\* The environment settles: devices answer, the battery holds and nobody
\* touches the power or the reset pin any more.
Settle ==
    /\ ~calm
    /\ calm' = TRUE
    /\ UNCHANGED <<pc, pitints, wdt, busy, porf, bavg, ready, sdc, pason, bmeok,
                   sdaddr, slot, card, first, fed, torn>>

----------------------------------------------------------------------------

Init ==
    /\ pc = "initReset"
    /\ pitints = 0 /\ wdt = 0 /\ busy = 0
    /\ porf = TRUE
    /\ bavg = 0
    /\ ready = TRUE /\ sdc = FALSE /\ pason = TRUE /\ bmeok = FALSE
    /\ sdaddr \in 0 .. CardSize
    /\ slot = 0 /\ first = 0
    /\ card = [a \in Blocks |-> Blank]
    /\ fed = FALSE
    /\ torn = FALSE
    /\ calm = FALSE

\* One step of the main program.
Main ==
    \/ InitReset
    \/ \E r \in Outcomes :
          \/ InitRadio(r)
          \/ InitBme(r)
          \/ InitSdc(r)
          \/ WriteReset(r)
          \/ InitPas(r)
          \/ BmeMeasure(r)
          \/ PasRead(r)
          \/ Transmit(r)
          \/ WriteMeas(r)
    \/ StoreReset
    \/ StoreMeas
    \/ \E early \in BOOLEAN : EnablePit(early)
    \/ \E bat \in Batteries : LowBattery(bat) \/ NotReady(bat) \/ StartMeas(bat)
    \/ Feed
    \/ Sleep

Next ==
    \/ Main
    \/ Tick
    \/ WatchdogReset
    \/ ExternalReset
    \/ PowerOn
    \/ Settle

\* The processor runs, time passes and the watchdog is hardware.
Fairness ==
    /\ WF_vars(Main)
    /\ WF_vars(Tick)
    /\ WF_vars(WatchdogReset)

Spec == Init /\ [][Next]_vars

FairSpec == Spec /\ Fairness

----------------------------------------------------------------------------
(* Properties *)

\* The values the variables take; in particular the average stays within the
\* range of the samples and the watchdog's count within its period.
TypeOK ==
    /\ pc \in Locations
    /\ pitints \in 0 .. INTERVAL - 1
    /\ wdt \in 0 .. WdtPeriod
    /\ busy \in 0 .. MaxInit + MaxMeas
    /\ porf \in BOOLEAN
    /\ bavg \in 0 .. MaxBattery
    /\ ready \in BOOLEAN /\ sdc \in BOOLEAN /\ pason \in BOOLEAN
    /\ bmeok \in BOOLEAN
    /\ sdaddr \in 0 .. CardSize
    /\ slot \in 0 .. CardSize
    /\ first \in 0 .. CardSize
    /\ card \in [Blocks -> Contents]
    /\ fed \in BOOLEAN
    /\ torn \in BOOLEAN
    /\ calm \in BOOLEAN

\* "the SD card address is maintained so previously written records are not
\* overwritten": when a write is about to happen, its block and every later one
\* is still blank, whatever resets, failed writes and failed initializations
\* came before, but for a reset that found the address half stored and set back.
\* So no record is lost and records lie in the order written.
LogOrder ==
    ~torn /\ pc \in {"writeReset", "writeMeas"} =>
        \A a \in Blocks : a >= slot => card[a] = Blank

\* The same promise as README.md states it, for every reset.  It does not hold:
\* sdaddr++ is four stores on the 8 bit processor, and a reset between the one
\* that clears the low byte and the one that carries to the next leaves an
\* address of which the block was written long ago.
AddressMaintained ==
    pc \in {"writeReset", "writeMeas"} /\ slot \in Blocks => card[slot] = Blank

\* The records of two boots never run into each other: once the SD card is
\* initialized, the first block of this boot holds the reset record or, when
\* that write failed, a gap, but no measurement, unless the address was set
\* back.
Segmented ==
    ~torn /\ sdc /\ first \in Blocks => card[first] # "meas"

\* The watchdog does not hit a transmitter that works: after its first reset
\* in a boot, it never comes near its period unless a device failed to
\* initialize or a call hangs, however the battery comes and goes.
NoSpuriousReset ==
    fed /\ ready /\ pc # "hung" => wdt < WdtPeriod

\* Only a slot of a transmitter whose devices were all initialized resets the
\* watchdog, or a battery that is low: as long as a device failed to initialize
\* or a call hangs, the watchdog counts on until it resets the transmitter.
FedOnlyWhenWell ==
    [][wdt' < wdt => \/ pc' = "initReset"
                     \/ ready /\ pc # "hung"
                     \/ bavg' < BAT_LOW_MV]_vars

\* A transmitter that is stuck, in a call that never returns or with a device
\* that failed to initialize, is reset and tries again, or is waiting with a
\* low battery.
WedgedResets ==
    (pc = "hung" \/ (pc = "loop" /\ ~ready)) ~>
        (pc = "initReset" \/ (bavg < BAT_LOW_MV /\ fed))

\* Whatever happened before, once the environment has settled the transmitter
\* sends measurements again and again.
Recovers == calm ~> pc = "transmit"

\* The records on the card in the order of their addresses.
WrittenLog == InOrder(card, {a \in Blocks : card[a] # Blank})

Log == INSTANCE SdLog WITH Records <- Contents \ {Blank}, log <- WrittenLog

\* The card of the transmitter is an append-only log between power-ons,
\* through every reset that does not set the address back: writeReset and
\* writeMeas add a record or none.
ImplementsSdLog == Log!Spec

=============================================================================
