------------------------------- MODULE Bme688 -------------------------------
(***************************************************************************)
(* The air sensor: its driver (avrenv-tx/bme688.c with the part of Bosch's *)
(* API it calls, bme68x/bme68x.c, over avrenv-tx/i2c.c) and the sensor.    *)
(*                                                                         *)
(* A step of the driver is one transaction on the I2C bus, or several reads*)
(* in a row whose results are only used together.  The driver believes     *)
(* every write: one the sensor does not acknowledge is lost and still      *)
(* reported as a success.  A read first writes which register to begin at: *)
(* when that is lost the bytes come from another register, and when the    *)
(* read itself is not acknowledged it never returns.  The sensor measures  *)
(* on its own between any two transactions and keeps its registers when    *)
(* the controller restarts.                                                *)
(*                                                                         *)
(* The unit of time is the polling period of the API, 10 ms; the bytes on  *)
(* the bus take no time.                                                   *)
(***************************************************************************)
EXTENDS Integers

CONSTANTS
    COUNT,       \* measurements that bmeMeasure tries at most
    TRIES,       \* polls for new data of read_field_data
    HEATER_DUR,  \* duration of the heater in ms
    MaxFaults    \* bound: transactions that are not acknowledged

VARIABLES
    at,      \* the driver's next transaction, "idle" between two calls
    goal,    \* the mode that set_op_mode is to set
    back,    \* where set_op_mode returns to
    found,   \* the mode that set_conf found and restores
    held,    \* the mode in the configuration that set_conf read
    stray,   \* what was last read of the mode's register was another's
    count,   \* measurements that this call of bmeMeasure tried
    tries,   \* polls left in read_field_data
    data,    \* the caller's struct: its status, and which try it is from
    bme,     \* what bmeInit returned
    time,    \* time since the call began
    chip,    \* the sensor: mode, configured registers, field of values
    faults,  \* transactions that were not acknowledged
    lost     \* history: the calls since the last restart that lost a write,
             \* be it of a value or of the register to read

driverVars == <<goal, back, found, held, stray, count, tries, data, bme, time>>
vars == <<at, driverVars, chip, faults, lost>>

\* "other" are the two modes in which the sensor measures again and again.
Modes == {"sleep", "forced", "other"}
Registers == {"conf", "res_heat", "gas_wait", "ctrl_gas"}
Reads == {"chipId", "calib", "opMode", "getMode", "readConf", "readGas", "field"}
Writes == {"softReset", "putToSleep", "setMode", "writeConf", "resHeat",
           "gasWait", "ctrlGas"}
Locations == Reads \cup Writes \cup {"heatrConf", "delay", "judge", "idle", "hung"}

\* Status 0x80, new data, and 0x30, gas valid and heater stable.  "of" is the
\* try of this call that measured the values, 0 for none of this call.
Data == [new : BOOLEAN, good : BOOLEAN, of : 0 .. COUNT]
NoData == [new |-> FALSE, good |-> FALSE, of |-> 0]

\* "running" is the try that the measurement under way belongs to.
Chips == [mode : Modes, regs : SUBSET Registers, new : BOOLEAN,
          good : BOOLEAN, of : 0 .. COUNT, running : 0 .. COUNT]

----------------------------------------------------------------------------
(* Durations *)

BME68X_OS_8X == 4
BME68X_PERIOD_POLL == 10000
os_to_meas_cycles == <<0, 1, 2, 4, 8, 16>>

\* Microseconds to measure temperature, pressure and humidity, and then gas.
GetMeasDur(os) ==
    LET cycles == 3 * os_to_meas_cycles[os + 1]
    IN  cycles * 1963 + 477 * 4 + 477 * 5 + 1000

\* How long bmeMeasure waits for a measurement, in units rounded up.
Wait ==
    (GetMeasDur(BME68X_OS_8X) + HEATER_DUR * 1000) \div BME68X_PERIOD_POLL + 1

\* The powers of 4.
Power == <<1, 4, 16, 64, 256, 1024>>

\* How often dur is divided by 4 until it has 6 bits.
Factor(dur) ==
    CHOOSE f \in 0 .. 5 :
        /\ dur \div Power[f + 1] <= 63
        /\ \A g \in 0 .. 5 : g < f => dur \div Power[g + 1] > 63

\* A mutation: the longest durations are not cut off.
CalcGasWaitUncut(dur) == (dur \div Power[Factor(dur) + 1] + Factor(dur) * 64) % 256

\* The register value for a heater duration: a mantissa of 6 bits and the
\* number of times it was divided by 4.
CalcGasWait(dur) ==
    IF dur >= 4032 THEN 255
    ELSE (dur \div Power[Factor(dur) + 1] + Factor(dur) * 64) % 256

\* The duration in ms that the sensor makes of a register value.
Heating(gas_wait) == (gas_wait % 64) * Power[gas_wait \div 64 + 1]

----------------------------------------------------------------------------
(* Transactions *)

Call == IF bme = "ok" THEN "bmeMeasure" ELSE "bmeInit"

\* The sensor acknowledges what the driver writes, or the driver goes on as if
\* it had: the write is lost for calls.
Acknowledged(ok, calls) ==
    IF ok THEN UNCHANGED <<faults, lost>>
    ELSE /\ faults < MaxFaults
         /\ faults' = faults + 1
         /\ lost' = lost \cup calls

\* A write makes the sensor c.  A sensor that does not acknowledge stays as it
\* is, and bmeWrite returns success all the same.
Write(c) ==
    \E ok \in BOOLEAN :
        /\ Acknowledged(ok, {Call})
        /\ chip' = IF ok THEN c ELSE chip

\* A read whose bytes are only taken over: those of other registers when the
\* one to begin at was lost.
Read(from, to) ==
    /\ at = from
    /\ \E ok \in BOOLEAN : Acknowledged(ok, {Call})
    /\ at' = to
    /\ UNCHANGED <<driverVars, chip>>

\* i2cStartRead waits for an acknowledgement that does not come.
Hang ==
    /\ at \in Reads
    /\ faults < MaxFaults
    /\ at' = "hung"
    /\ faults' = faults + 1
    /\ UNCHANGED <<driverVars, chip, lost>>

\* Calls bme68x_set_op_mode(m), which returns to b.
SetOpMode(m, b) == at' = "getMode" /\ goal' = m /\ back' = b

\* Reads the register of the mode, which the sensor is set to.  Of another
\* register the same bits may be any mode, and set_op_mode writes the rest back:
\* then the configuration is lost for all that follows.
ReadMode(mode, calls) ==
    \E ok \in BOOLEAN :
        /\ Acknowledged(ok, calls)
        /\ ok => mode = chip.mode
        /\ stray' = ~ok

\* Any mode but sleep is left before a mode is set.
GetMode ==
    /\ at = "getMode"
    /\ \E mode \in Modes :
          /\ ReadMode(mode, {Call, "bmeInit"})
          /\ at' = IF mode # "sleep" THEN "putToSleep"
                   ELSE IF goal = "sleep" THEN back ELSE "setMode"
    /\ UNCHANGED <<goal, back, found, held, count, tries, data, bme, time, chip>>

\* The registers configured after set_op_mode wrote the mode: oversampling
\* shares its register.
Kept == IF stray THEN chip.regs \ {"conf"} ELSE chip.regs

PutToSleep ==
    /\ at = "putToSleep"
    /\ Write([chip EXCEPT !.mode = "sleep", !.regs = Kept])
    /\ at' = "getMode"
    /\ time' = time + 1
    /\ UNCHANGED <<goal, back, found, held, stray, count, tries, data, bme>>

\* The sensor c in mode m.  Leaving sleep starts a measurement: what was measured
\* before is not new.
Started(c, m) ==
    IF m = "sleep" THEN [c EXCEPT !.mode = m]
    ELSE [c EXCEPT !.mode = m, !.new = FALSE,
                   !.running = IF Call = "bmeInit" THEN 0 ELSE count + 1]

SetMode ==
    /\ at = "setMode"
    /\ Write(Started([chip EXCEPT !.regs = Kept], goal))
    /\ at' = back
    /\ UNCHANGED <<goal, back, found, held, stray, count, tries, data, bme, time>>

Configure(from, reg, to) ==
    /\ at = from
    /\ Write([chip EXCEPT !.regs = @ \cup {reg}])
    /\ at' = to
    /\ UNCHANGED driverVars

----------------------------------------------------------------------------
(* bmeInit *)

\* The controller starts or is reset by its watchdog, at any time.
Restart ==
    /\ at' = "softReset"
    /\ goal' = "sleep" /\ back' = "idle"
    /\ found' = "sleep" /\ held' = "sleep" /\ stray' = FALSE
    /\ count' = 0 /\ tries' = 0 /\ data' = NoData
    /\ bme' = "none"
    /\ time' = 0
    /\ lost' = {}
    /\ UNCHANGED <<chip, faults>>

SoftReset ==
    /\ at = "softReset"
    /\ Write([mode |-> "sleep", regs |-> {}, new |-> FALSE, good |-> FALSE,
              of |-> 0, running |-> 0])
    /\ at' = "chipId"
    /\ time' = time + 1
    /\ UNCHANGED <<goal, back, found, held, stray, count, tries, data, bme>>

ReadId == Read("chipId", "calib")

\* Another chip, or register, than the one expected.
WrongId ==
    /\ at = "chipId"
    /\ at' = "idle"
    /\ bme' = "fail"
    /\ UNCHANGED <<goal, back, found, held, stray, count, tries, data, time, chip,
                   faults, lost>>

ReadCalib == Read("calib", "opMode")

\* A mutation: configures in whatever mode the sensor is.
GetOpModeOnly ==
    /\ at = "opMode"
    /\ \E mode \in Modes : ReadMode(mode, {Call}) /\ found' = mode
    /\ at' = "readConf"
    /\ UNCHANGED <<goal, back, held, count, tries, data, bme, time, chip>>

GetOpMode ==
    /\ at = "opMode"
    /\ \E mode \in Modes : ReadMode(mode, {Call}) /\ found' = mode
    /\ SetOpMode("sleep", "readConf")
    /\ UNCHANGED <<held, count, tries, data, bme, time, chip>>

\* Of the configuration, set_conf keeps what it does not set: also the mode.
ReadConf ==
    /\ at = "readConf"
    /\ \E ok \in BOOLEAN :
          /\ Acknowledged(ok, {Call})
          /\ held' \in IF ok THEN {chip.mode} ELSE Modes
          /\ stray' = (stray \/ ~ok)
    /\ at' = "writeConf"
    /\ UNCHANGED <<goal, back, found, count, tries, data, bme, time, chip>>

\* The mode that was found is restored, except sleep.
WriteConf ==
    /\ at = "writeConf"
    /\ Write(Started([chip EXCEPT !.regs = @ \cup {"conf"}], held))
    /\ IF found = "sleep" THEN at' = "heatrConf" /\ UNCHANGED <<goal, back>>
                          ELSE SetOpMode(found, "heatrConf")
    /\ UNCHANGED <<found, held, stray, count, tries, data, bme, time>>

\* set_conf has returned, and its variables are gone.
SetHeatrConf ==
    /\ at = "heatrConf"
    /\ SetOpMode("sleep", "resHeat")
    /\ found' = "sleep" /\ held' = "sleep"
    /\ UNCHANGED <<stray, count, tries, data, bme, time, chip, faults, lost>>

ResHeat == Configure("resHeat", "res_heat", "gasWait")
GasWait == Configure("gasWait", "gas_wait", "readGas")
ReadGas == Read("readGas", "ctrlGas")

CtrlGas ==
    /\ at = "ctrlGas"
    /\ Write([chip EXCEPT !.regs = @ \cup {"ctrl_gas"}])
    /\ at' = "idle"
    /\ bme' = "ok"
    /\ stray' = FALSE
    /\ UNCHANGED <<goal, back, found, held, count, tries, data, time>>

----------------------------------------------------------------------------
(* bmeMeasure *)

\* main only measures when bmeInit succeeded.  Whatever the sensor holds is now
\* from an earlier call; it keeps telling whether that was read.
Measure ==
    /\ at = "idle"
    /\ bme = "ok"
    /\ count' = 0
    /\ tries' = 0
    /\ data' = NoData
    /\ time' = 0
    /\ chip' = [chip EXCEPT !.of = 0, !.running = 0]
    /\ SetOpMode("forced", "delay")
    /\ lost' = lost \ {"bmeMeasure"}
    /\ UNCHANGED <<found, held, stray, bme, faults>>

\* set_op_mode has returned, and what it read is gone.
Delay ==
    /\ at = "delay"
    /\ time' = time + Wait
    /\ tries' = TRIES
    /\ at' = "field"
    /\ stray' = FALSE
    /\ UNCHANGED <<goal, back, found, held, count, data, bme, chip, faults, lost>>

\* The values are only taken over when they are new.
TakeNew(d) ==
    /\ data' = d
    /\ at' = "judge"
    /\ UNCHANGED <<goal, back, found, held, stray, count, tries, bme, time>>

\* Reading the values may mark them as read: the code does not rely on either.
ReadNewData ==
    /\ at = "field"
    /\ chip.new
    /\ TakeNew([new |-> TRUE, good |-> chip.good, of |-> chip.of])
    /\ \E n \in BOOLEAN : chip' = [chip EXCEPT !.new = n]
    /\ UNCHANGED <<faults, lost>>

\* A mutation: polls once more after the last try.
PollOnceMore(g) ==
    /\ data' = [data EXCEPT !.new = FALSE, !.good = g]
    /\ time' = time + 1
    /\ tries' = tries - 1
    /\ at' = IF tries = 0 THEN "judge" ELSE "field"
    /\ UNCHANGED <<goal, back, found, held, stray, count, bme>>

Poll(g) ==
    /\ data' = [data EXCEPT !.new = FALSE, !.good = g]
    /\ time' = time + 1
    /\ tries' = tries - 1
    /\ at' = IF tries = 1 THEN "judge" ELSE "field"
    /\ UNCHANGED <<goal, back, found, held, stray, count, bme>>

PollAgain ==
    /\ at = "field"
    /\ ~chip.new
    /\ Poll(chip.good)
    /\ UNCHANGED <<chip, faults, lost>>

\* The bytes of other registers may look like new data, or like none.
ReadStray ==
    /\ at = "field"
    /\ Acknowledged(FALSE, {Call})
    /\ \E g \in BOOLEAN : \/ TakeNew([new |-> TRUE, good |-> g, of |-> 0])
                          \/ Poll(g)
    /\ UNCHANGED chip

\* A mutation: takes new data although gas or heater are not right yet.
AcceptedNew == data.new

\* n_data == 1 && data->status == 0xb0
Accepted == data.new /\ data.good

\* A mutation: goes on until the data is good.
JudgeForever ==
    /\ at = "judge"
    /\ count' = IF count + 1 < COUNT THEN count + 1 ELSE count
    /\ IF Accepted THEN at' = "idle" /\ UNCHANGED <<goal, back>>
                   ELSE SetOpMode("forced", "delay")
    /\ UNCHANGED <<found, held, stray, tries, data, bme, time, chip, faults, lost>>

Judge ==
    /\ at = "judge"
    /\ count' = count + 1
    /\ IF Accepted \/ count + 1 = COUNT THEN at' = "idle" /\ UNCHANGED <<goal, back>>
                                        ELSE SetOpMode("forced", "delay")
    /\ UNCHANGED <<found, held, stray, tries, data, bme, time, chip, faults, lost>>

----------------------------------------------------------------------------
(* The sensor *)

\* In forced mode it measures once and sleeps.
ModeAfter == IF chip.mode = "forced" THEN "sleep" ELSE chip.mode

\* Gas is measured when that was configured, and the heater may or may not have
\* become stable.
Finish ==
    /\ chip.mode # "sleep"
    /\ \E g \in BOOLEAN :
          /\ g => "ctrl_gas" \in chip.regs
          /\ chip' = [chip EXCEPT !.mode = ModeAfter, !.new = TRUE, !.good = g,
                                  !.of = chip.running]
    /\ UNCHANGED <<at, driverVars, faults, lost>>

Init ==
    /\ at = "softReset"
    /\ goal = "sleep" /\ back = "idle"
    /\ found = "sleep" /\ held = "sleep" /\ stray = FALSE
    /\ count = 0 /\ tries = 0 /\ data = NoData
    /\ bme = "none"
    /\ time = 0
    /\ chip = [mode |-> "sleep", regs |-> {}, new |-> FALSE, good |-> FALSE,
               of |-> 0, running |-> 0]
    /\ faults = 0
    /\ lost = {}

Initialize ==
    \/ SoftReset \/ ReadId \/ WrongId \/ ReadCalib
    \/ GetOpMode \/ ReadConf \/ WriteConf
    \/ SetHeatrConf \/ ResHeat \/ GasWait \/ ReadGas \/ CtrlGas

Sample == Delay \/ ReadNewData \/ PollAgain \/ ReadStray \/ Judge

Step == Initialize \/ GetMode \/ PutToSleep \/ SetMode \/ Sample \/ Hang

Next == Step \/ Measure \/ Finish \/ Restart

Spec == Init /\ [][Next]_vars

----------------------------------------------------------------------------
(* Properties *)

TypeOK ==
    /\ at \in Locations
    /\ goal \in Modes
    /\ back \in {"idle", "readConf", "heatrConf", "resHeat", "delay"}
    /\ found \in Modes
    /\ held \in Modes
    /\ stray \in BOOLEAN
    /\ count \in 0 .. COUNT
    /\ tries \in 0 .. TRIES
    /\ data \in Data
    /\ bme \in {"none", "ok", "fail"}
    /\ time \in Nat
    /\ chip \in Chips
    /\ faults \in 0 .. MaxFaults
    /\ lost \in SUBSET {"bmeInit", "bmeMeasure"}

Configuring == {"readConf", "writeConf", "resHeat", "gasWait", "readGas", "ctrlGas",
                "setMode"}

\* "Configure only in the sleep mode", as bme68x_set_conf says of itself: the
\* sensor is configured, and a measurement started, only while it sleeps, also
\* after a restart in the middle of a measurement and with lost writes - unless
\* what was read as its mode came from another register.
ConfAsleep == at \in Configuring /\ ~stray => chip.mode = "sleep"

\* A call of bmeMeasure that returns before its last try returns one whole, good
\* measurement, of that try and of a sensor configured as bmeInit does - unless
\* a write was lost, also that of the register to read.
MeasuredHere ==
    at = "idle" /\ count \in 1 .. COUNT - 1 /\ lost = {} =>
        /\ data = [new |-> TRUE, good |-> TRUE, of |-> count]
        /\ chip.regs = Registers

\* The most a call takes.
Longest == COUNT * (1 + Wait + TRIES)

\* bmeMeasure returns within its budget although the sensor may be asleep, busy,
\* slow or never stable; every write that was lost, and every mode read from
\* another register, may cost one more poll.
InTime == Call = "bmeMeasure" /\ at # "hung" => time <= Longest + faults

\* The register value for dur makes the heater burn not longer than asked for,
\* and at most a sixteenth shorter up to the longest duration it knows, 4032 ms.
HeatsFor(dur) ==
    LET heating == Heating(CalcGasWait(dur))
        wanted == IF dur < 4032 THEN dur ELSE 4032
    IN  heating <= wanted /\ 16 * (wanted - heating) <= wanted

\* The durations where the mantissa, the factor or the limit changes.
Boundaries == {0, 63, 64, 67, 255, 256, 1023, 1024, 4031, 4032, 4096, 65535}

\* When bmeInit has written its heater duration, whatever it was given, the
\* heater will never burn longer than the driver waits for it and not much
\* shorter.
HeatsAsLong == at = "readGas" => \A dur \in Boundaries : HeatsFor(dur)

=============================================================================
