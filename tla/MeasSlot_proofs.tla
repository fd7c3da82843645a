-------------------------- MODULE MeasSlot_proofs --------------------------
(***************************************************************************)
(* Proofs about the measurement slot, for every number of tries and polls, *)
(* every heater duration and every timing of the GPS module that the       *)
(* assumptions of MeasSlot allow.                                          *)
(***************************************************************************)
EXTENDS MeasSlot, SequenceTheorems, TLAPS

----------------------------------------------------------------------------
(* The air sensor: types, and where it sleeps *)

SetsMode == {"getMode", "putToSleep", "setMode"}

\* The last try ends the call, and a poll is left while the driver polls.
CountInv ==
    /\ at # "idle" => count < COUNT
    /\ at = "field" => tries > 0

\* set_op_mode leaves sleep only for callers that do not configure.
AsleepInv ==
    /\ Bme!ConfAsleep
    /\ at \in SetsMode /\ goal # "sleep" => back \in {"heatrConf", "delay"}
    /\ at = "setMode" => goal # "sleep"

BmeInv == Bme!TypeOK /\ CountInv /\ AsleepInv

LEMMA WaitRange == Bme!Wait \in Nat
  BY BmeAssumption
  DEF Bme!Wait, Bme!GetMeasDur, Bme!os_to_meas_cycles, Bme!BME68X_OS_8X,
      Bme!BME68X_PERIOD_POLL

LEMMA ZeroInRange == 0 \in 0 .. COUNT - 1 /\ 0 \in 0 .. COUNT /\ 0 \in 0 .. TRIES /\ 0 < COUNT
  <1>1. COUNT \in Nat /\ COUNT > 0 /\ TRIES \in Nat
    BY BmeAssumption
  <1>2. QED
    BY <1>1

LEMMA Counting ==
    ASSUME BmeInv, at # "idle"
    PROVE  count \in 0 .. COUNT - 1
  <1>1. count \in 0 .. COUNT /\ count < COUNT
    BY DEF BmeInv, Bme!TypeOK, CountInv
  <1>2. QED
    BY <1>1, BmeAssumption

LEMMA BmeInit == Bme!Init => BmeInv
  <1> SUFFICES ASSUME Bme!Init PROVE BmeInv
    OBVIOUS
  <1>1. at \in Bme!Locations /\ goal \in Bme!Modes /\ found \in Bme!Modes
    BY DEF Bme!Init, Bme!Locations, Bme!Writes, Bme!Modes
  <1>2. 0 \in 0 .. COUNT /\ 0 \in 0 .. TRIES /\ 0 \in 0 .. MaxFaults /\ 0 < COUNT
    BY ZeroInRange, FaultAssumption
  <1>3. chip \in Bme!Chips
    BY <1>2 DEF Bme!Init, Bme!Chips, Bme!Modes, Bme!Registers
  <1>4. data \in Bme!Data
    BY <1>2 DEF Bme!Init, Bme!Data, Bme!NoData
  <1>5. Bme!TypeOK
    BY <1>1, <1>2, <1>3, <1>4 DEF Bme!Init, Bme!TypeOK
  <1>6. CountInv /\ AsleepInv
    BY <1>2 DEF Bme!Init, CountInv, AsleepInv, Bme!ConfAsleep, Bme!Configuring, SetsMode
  <1>7. QED
    BY <1>5, <1>6 DEF BmeInv

\* What is not acknowledged is a fault and remembered as lost.
LEMMA AcknowledgedTyped ==
    ASSUME Bme!TypeOK, NEW CONSTANT ok \in BOOLEAN,
           NEW STATE calls, calls \subseteq {"bmeInit", "bmeMeasure"},
           Bme!Acknowledged(ok, calls)
    PROVE  /\ ok => UNCHANGED <<faults, lost>>
           /\ ~ok => faults' = faults + 1 /\ lost' = lost \cup calls
           /\ faults' \in 0 .. MaxFaults
           /\ lost' \in SUBSET {"bmeInit", "bmeMeasure"}
  <1>1. CASE ok
    BY <1>1 DEF Bme!Acknowledged, Bme!TypeOK
  <1>2. CASE ~ok
    <2>1. faults < MaxFaults /\ faults' = faults + 1 /\ lost' = lost \cup calls
      BY <1>2 DEF Bme!Acknowledged
    <2>2. faults' \in 0 .. MaxFaults
      BY <2>1, FaultAssumption DEF Bme!TypeOK
    <2>3. QED
      BY <1>2, <2>1, <2>2 DEF Bme!TypeOK
  <1>3. QED
    BY <1>1, <1>2

LEMMA CallTyped == Bme!Call \in {"bmeInit", "bmeMeasure"}
  BY DEF Bme!Call

\* A write makes the sensor what it is to be or leaves it as it is.
LEMMA WriteTyped ==
    ASSUME Bme!TypeOK, NEW STATE c, c \in Bme!Chips, Bme!Write(c)
    PROVE  /\ chip' = c \/ (chip' = chip /\ faults' = faults + 1)
           /\ chip' \in Bme!Chips
           /\ faults' \in 0 .. MaxFaults
           /\ lost' \in SUBSET {"bmeInit", "bmeMeasure"}
  <1>1. PICK ok \in BOOLEAN :
           Bme!Acknowledged(ok, {Bme!Call}) /\ chip' = IF ok THEN c ELSE chip
    BY DEF Bme!Write
  <1>2. {Bme!Call} \subseteq {"bmeInit", "bmeMeasure"}
    BY CallTyped
  <1>3. /\ ~ok => faults' = faults + 1
        /\ faults' \in 0 .. MaxFaults
        /\ lost' \in SUBSET {"bmeInit", "bmeMeasure"}
    BY <1>1, <1>2, AcknowledgedTyped
  <1>4. QED
    BY <1>1, <1>3 DEF Bme!TypeOK

\* A transaction that leaves the sensor alone keeps the invariant when it goes
\* on where the sensor may be awake, or is known to sleep.
LEMMA ReadsTyped ==
    ASSUME BmeInv, NEW CONSTANT ok \in BOOLEAN, Bme!Acknowledged(ok, {Bme!Call}),
           UNCHANGED <<goal, back, found, count, tries, data, bme, time, chip>>,
           held' \in Bme!Modes, stray' \in BOOLEAN,
           at # "idle",
           at' \in {"calib", "opMode", "writeConf", "ctrlGas"},
           at' \in {"writeConf", "ctrlGas"} /\ ~stray' => chip.mode = "sleep"
    PROVE  BmeInv'
  <1>1. Bme!TypeOK /\ {Bme!Call} \subseteq {"bmeInit", "bmeMeasure"}
    BY CallTyped DEF BmeInv
  <1>2. faults' \in 0 .. MaxFaults /\ lost' \in SUBSET {"bmeInit", "bmeMeasure"}
    BY <1>1, AcknowledgedTyped
  <1>3. at' \in Bme!Locations
    BY DEF Bme!Locations, Bme!Reads, Bme!Writes
  <1>4. Bme!TypeOK'
    BY <1>1, <1>2, <1>3 DEF Bme!TypeOK
  <1>5. CountInv' /\ AsleepInv'
    BY DEF BmeInv, CountInv, AsleepInv, Bme!ConfAsleep, Bme!Configuring, SetsMode
  <1>6. QED
    BY <1>4, <1>5 DEF BmeInv

\* Reading the mode: the right one, or any of another register.
LEMMA ReadModeTyped ==
    ASSUME Bme!TypeOK, NEW CONSTANT mode \in Bme!Modes,
           NEW STATE calls, calls \subseteq {"bmeInit", "bmeMeasure"},
           Bme!ReadMode(mode, calls)
    PROVE  /\ stray' \in BOOLEAN
           /\ ~stray' => mode = chip.mode /\ UNCHANGED <<faults, lost>>
           /\ stray' => faults' = faults + 1 /\ lost' = lost \cup calls
           /\ faults' \in 0 .. MaxFaults
           /\ lost' \in SUBSET {"bmeInit", "bmeMeasure"}
  <1>1. PICK ok \in BOOLEAN : /\ Bme!Acknowledged(ok, calls)
                              /\ ok => mode = chip.mode
                              /\ stray' = ~ok
    BY DEF Bme!ReadMode
  <1>2. QED
    BY <1>1, AcknowledgedTyped

\* Calling bme68x_set_op_mode.
LEMMA SetOpModeTyped ==
    ASSUME BmeInv, NEW CONSTANT m \in Bme!Modes,
           NEW CONSTANT b \in {"idle", "readConf", "heatrConf", "resHeat", "delay"},
           m # "sleep" => b \in {"heatrConf", "delay"},
           Bme!SetOpMode(m, b), found' \in Bme!Modes, held' \in Bme!Modes,
           stray' \in BOOLEAN, count' \in 0 .. COUNT - 1, tries' \in 0 .. TRIES,
           data' \in Bme!Data, bme' \in {"none", "ok", "fail"}, time' \in Nat,
           chip' \in Bme!Chips, faults' \in 0 .. MaxFaults,
           lost' \in SUBSET {"bmeInit", "bmeMeasure"}
    PROVE  BmeInv'
  <1>1. count' \in 0 .. COUNT /\ count' < COUNT
    BY BmeAssumption
  <1>2. Bme!TypeOK'
    BY <1>1 DEF Bme!TypeOK, Bme!SetOpMode, Bme!Locations, Bme!Reads
  <1>3. CountInv' /\ AsleepInv'
    BY <1>1 DEF Bme!SetOpMode, CountInv, AsleepInv, Bme!ConfAsleep, Bme!Configuring, SetsMode
  <1>4. QED
    BY <1>2, <1>3 DEF BmeInv

\* Leaving sleep makes the measurement under way one of the next try.
LEMMA StartedTyped ==
    ASSUME BmeInv, at # "idle", NEW STATE c, c \in Bme!Chips,
           NEW STATE m, m \in Bme!Modes
    PROVE  Bme!Started(c, m) \in Bme!Chips
  <1>1. count + 1 \in 0 .. COUNT /\ 0 \in 0 .. COUNT
    <2>1. count \in 0 .. COUNT - 1
      BY Counting
    <2>2. QED
      BY <2>1, BmeAssumption
  <1>2. (IF Bme!Call = "bmeInit" THEN 0 ELSE count + 1) \in 0 .. COUNT
    BY <1>1
  <1>3. QED
    BY <1>2 DEF Bme!Started, Bme!Chips

LEMMA SetsModeStep ==
    BmeInv /\ (Bme!GetMode \/ Bme!PutToSleep \/ Bme!SetMode) => BmeInv'
  <1> SUFFICES ASSUME BmeInv, Bme!GetMode \/ Bme!PutToSleep \/ Bme!SetMode
               PROVE  BmeInv'
    OBVIOUS
  <1>1. CASE Bme!GetMode
    <2>0. Bme!TypeOK /\ {Bme!Call, "bmeInit"} \subseteq {"bmeInit", "bmeMeasure"}
      BY CallTyped DEF BmeInv
    <2>1. PICK mode \in Bme!Modes :
            /\ Bme!ReadMode(mode, {Bme!Call, "bmeInit"})
            /\ at' = IF mode # "sleep" THEN "putToSleep"
                     ELSE IF goal = "sleep" THEN back ELSE "setMode"
      BY <1>1 DEF Bme!GetMode
    <2>2. /\ stray' \in BOOLEAN /\ (~stray' => mode = chip.mode)
          /\ faults' \in 0 .. MaxFaults
          /\ lost' \in SUBSET {"bmeInit", "bmeMeasure"}
      BY <2>0, <2>1, ReadModeTyped
    <2>3. at' \in Bme!Locations
      BY <2>0, <2>1 DEF Bme!TypeOK, Bme!Locations, Bme!Reads, Bme!Writes
    <2>4. Bme!TypeOK'
      BY <1>1, <2>0, <2>2, <2>3 DEF Bme!GetMode, Bme!TypeOK
    <2>5. CountInv' /\ AsleepInv'
      BY <1>1, <2>0, <2>1, <2>2
      DEF Bme!GetMode, BmeInv, Bme!TypeOK, CountInv, AsleepInv, Bme!ConfAsleep,
          Bme!Configuring, SetsMode
    <2>6. QED
      BY <2>4, <2>5 DEF BmeInv
  <1>2. CASE Bme!PutToSleep
    <2> DEFINE c == [chip EXCEPT !.mode = "sleep", !.regs = Bme!Kept]
    <2>1. c \in Bme!Chips
      BY DEF BmeInv, Bme!TypeOK, Bme!Chips, Bme!Modes, Bme!Kept
    <2>2. /\ chip' \in Bme!Chips /\ faults' \in 0 .. MaxFaults
          /\ lost' \in SUBSET {"bmeInit", "bmeMeasure"}
      BY <1>2, <2>1, WriteTyped DEF Bme!PutToSleep, BmeInv
    <2>3. Bme!TypeOK'
      BY <1>2, <2>2
      DEF Bme!PutToSleep, BmeInv, Bme!TypeOK, Bme!Locations, Bme!Reads
    <2>4. CountInv' /\ AsleepInv'
      BY <1>2 DEF Bme!PutToSleep, BmeInv, CountInv, AsleepInv, Bme!ConfAsleep, Bme!Configuring, SetsMode
    <2>5. QED
      BY <2>3, <2>4 DEF BmeInv
  <1>3. CASE Bme!SetMode
    <2> DEFINE c == Bme!Started([chip EXCEPT !.regs = Bme!Kept], goal)
    <2>1. at = "setMode"
      BY <1>3 DEF Bme!SetMode
    <2>2. c \in Bme!Chips
      <3>1. [chip EXCEPT !.regs = Bme!Kept] \in Bme!Chips
        BY DEF BmeInv, Bme!TypeOK, Bme!Chips, Bme!Kept
      <3>2. goal \in Bme!Modes
        BY DEF BmeInv, Bme!TypeOK
      <3>3. QED
        BY <2>1, <3>1, <3>2, StartedTyped
    <2>3. /\ chip' \in Bme!Chips /\ faults' \in 0 .. MaxFaults
          /\ lost' \in SUBSET {"bmeInit", "bmeMeasure"}
      BY <1>3, <2>2, WriteTyped DEF Bme!SetMode, BmeInv
    <2>4. at' \in {"heatrConf", "delay"}
      BY <1>3 DEF Bme!SetMode, BmeInv, AsleepInv, SetsMode
    <2>5. Bme!TypeOK'
      BY <1>3, <2>3, <2>4 DEF Bme!SetMode, BmeInv, Bme!TypeOK, Bme!Locations
    <2>6. CountInv' /\ AsleepInv'
      BY <1>3, <2>4 DEF Bme!SetMode, BmeInv, CountInv, AsleepInv, Bme!ConfAsleep, Bme!Configuring, SetsMode
    <2>7. QED
      BY <2>5, <2>6 DEF BmeInv
  <1>4. QED
    BY <1>1, <1>2, <1>3

LEMMA InitializeStep == BmeInv /\ Bme!Initialize => BmeInv'
  <1> SUFFICES ASSUME BmeInv, Bme!Initialize PROVE BmeInv'
    OBVIOUS
  <1>0. count \in 0 .. COUNT /\ tries \in 0 .. TRIES /\ Bme!TypeOK
    BY DEF BmeInv, Bme!TypeOK
  <1>1. CASE Bme!ReadId \/ Bme!ReadCalib \/ Bme!ReadGas
    <2>1. PICK ok \in BOOLEAN : Bme!Acknowledged(ok, {Bme!Call})
      BY <1>1 DEF Bme!ReadId, Bme!ReadCalib, Bme!ReadGas, Bme!Read
    <2>2. /\ UNCHANGED <<goal, back, found, held, stray, count, tries, data, bme, time,
                       chip>>
          /\ at # "idle" /\ at' \in {"calib", "opMode", "ctrlGas"}
          /\ at' = "ctrlGas" => at = "readGas"
      BY <1>1 DEF Bme!ReadId, Bme!ReadCalib, Bme!ReadGas, Bme!Read, Bme!driverVars
    <2>3. held' \in Bme!Modes /\ stray' \in BOOLEAN
      BY <1>0, <2>2 DEF Bme!TypeOK
    <2>4. at' = "ctrlGas" /\ ~stray' => chip.mode = "sleep"
      BY <2>2 DEF BmeInv, AsleepInv, Bme!ConfAsleep, Bme!Configuring
    <2>5. QED
      BY <2>1, <2>2, <2>3, <2>4, ReadsTyped
  <1>11. CASE Bme!ReadConf
    <2>1. PICK ok \in BOOLEAN :
            /\ Bme!Acknowledged(ok, {Bme!Call})
            /\ held' \in IF ok THEN {chip.mode} ELSE Bme!Modes
            /\ stray' = (stray \/ ~ok)
      BY <1>11 DEF Bme!ReadConf
    <2>2. /\ UNCHANGED <<goal, back, found, count, tries, data, bme, time, chip>>
          /\ at = "readConf" /\ at' = "writeConf"
      BY <1>11 DEF Bme!ReadConf
    <2>3. held' \in Bme!Modes /\ stray' \in BOOLEAN
      BY <1>0, <2>1 DEF Bme!TypeOK, Bme!Chips
    <2>4. ~stray' => chip.mode = "sleep"
      BY <1>0, <2>1, <2>2 DEF BmeInv, AsleepInv, Bme!ConfAsleep, Bme!Configuring
    <2>5. QED
      BY <2>1, <2>2, <2>3, <2>4, ReadsTyped
  <1>2. CASE Bme!WrongId
    <2>1. Bme!TypeOK'
      BY <1>2 DEF Bme!WrongId, BmeInv, Bme!TypeOK, Bme!Locations
    <2>2. CountInv' /\ AsleepInv'
      BY <1>2 DEF Bme!WrongId, BmeInv, CountInv, AsleepInv, Bme!ConfAsleep, Bme!Configuring, SetsMode
    <2>3. QED
      BY <2>1, <2>2 DEF BmeInv
  <1>3. CASE Bme!SoftReset
    <2> DEFINE c == [mode |-> "sleep", regs |-> {}, new |-> FALSE, good |-> FALSE,
                     of |-> 0, running |-> 0]
    <2>1. c \in Bme!Chips
      BY BmeAssumption DEF Bme!Chips, Bme!Modes
    <2>2. /\ chip' \in Bme!Chips /\ faults' \in 0 .. MaxFaults
          /\ lost' \in SUBSET {"bmeInit", "bmeMeasure"}
      BY <1>0, <1>3, <2>1, WriteTyped DEF Bme!SoftReset
    <2>3. Bme!TypeOK'
      BY <1>3, <2>2
      DEF Bme!SoftReset, BmeInv, Bme!TypeOK, Bme!Locations, Bme!Reads
    <2>4. CountInv' /\ AsleepInv'
      BY <1>3 DEF Bme!SoftReset, BmeInv, CountInv, AsleepInv, Bme!ConfAsleep, Bme!Configuring, SetsMode
    <2>5. QED
      BY <2>3, <2>4 DEF BmeInv
  <1>4. CASE Bme!GetOpMode
    <2>1. PICK mode \in Bme!Modes : Bme!ReadMode(mode, {Bme!Call}) /\ found' = mode
      BY <1>4 DEF Bme!GetOpMode
    <2>2. {Bme!Call} \subseteq {"bmeInit", "bmeMeasure"}
      BY CallTyped
    <2>3. /\ stray' \in BOOLEAN /\ faults' \in 0 .. MaxFaults
          /\ lost' \in SUBSET {"bmeInit", "bmeMeasure"}
      BY <1>0, <2>1, <2>2, ReadModeTyped
    <2>4. count \in 0 .. COUNT - 1
      BY <1>4, Counting DEF Bme!GetOpMode
    <2>5. QED
      BY <1>0, <1>4, <2>1, <2>3, <2>4, SetOpModeTyped
      DEF Bme!GetOpMode, Bme!TypeOK, Bme!Modes
  <1>5. CASE Bme!SetHeatrConf
    <2>1. count \in 0 .. COUNT - 1
      BY <1>5, Counting DEF Bme!SetHeatrConf
    <2>2. QED
      BY <1>0, <1>5, <2>1, SetOpModeTyped
      DEF Bme!SetHeatrConf, Bme!TypeOK, Bme!Modes
  <1>6. ASSUME NEW r \in Bme!Registers, Bme!Write([chip EXCEPT !.regs = @ \cup {r}])
        PROVE  /\ chip' \in Bme!Chips /\ chip'.mode = chip.mode
               /\ faults' \in 0 .. MaxFaults
               /\ lost' \in SUBSET {"bmeInit", "bmeMeasure"}
    <2> DEFINE c == [chip EXCEPT !.regs = @ \cup {r}]
    <2>1. c \in Bme!Chips /\ c.mode = chip.mode
      BY <1>0, <1>6 DEF Bme!TypeOK, Bme!Chips
    <2>2. QED
      BY <1>0, <1>6, <2>1, WriteTyped
  <1>7. CASE Bme!ResHeat \/ Bme!GasWait
    <2>1. ~stray => chip.mode = "sleep"
      BY <1>7 DEF Bme!ResHeat, Bme!GasWait, Bme!Configure, BmeInv, AsleepInv,
                  Bme!ConfAsleep, Bme!Configuring
    <2>2. /\ chip' \in Bme!Chips /\ chip'.mode = chip.mode
          /\ faults' \in 0 .. MaxFaults
          /\ lost' \in SUBSET {"bmeInit", "bmeMeasure"}
      BY <1>6, <1>7 DEF Bme!ResHeat, Bme!GasWait, Bme!Configure, Bme!Registers
    <2>3. Bme!TypeOK'
      BY <1>0, <1>7, <2>2
      DEF Bme!ResHeat, Bme!GasWait, Bme!Configure, Bme!driverVars, Bme!TypeOK,
          Bme!Locations, Bme!Reads, Bme!Writes
    <2>4. CountInv' /\ AsleepInv'
      BY <1>7, <2>1, <2>2
      DEF Bme!ResHeat, Bme!GasWait, Bme!Configure, Bme!driverVars, BmeInv, CountInv,
          AsleepInv, Bme!ConfAsleep, Bme!Configuring, SetsMode
    <2>5. QED
      BY <2>3, <2>4 DEF BmeInv
  <1>8. CASE Bme!CtrlGas
    <2>1. /\ chip' \in Bme!Chips /\ faults' \in 0 .. MaxFaults
          /\ lost' \in SUBSET {"bmeInit", "bmeMeasure"}
      BY <1>6, <1>8 DEF Bme!CtrlGas, Bme!Registers
    <2>2. Bme!TypeOK'
      BY <1>0, <1>8, <2>1 DEF Bme!CtrlGas, Bme!TypeOK, Bme!Locations
    <2>3. CountInv' /\ AsleepInv'
      BY <1>8 DEF Bme!CtrlGas, BmeInv, CountInv, AsleepInv, Bme!ConfAsleep,
                  Bme!Configuring, SetsMode
    <2>4. QED
      BY <2>2, <2>3 DEF BmeInv
  <1>9. CASE Bme!WriteConf
    <2>1. at = "writeConf" /\ held \in Bme!Modes
      BY <1>0, <1>9 DEF Bme!WriteConf, Bme!TypeOK
    <2>2. /\ chip' \in Bme!Chips /\ faults' \in 0 .. MaxFaults
          /\ lost' \in SUBSET {"bmeInit", "bmeMeasure"}
      <3> DEFINE c == [chip EXCEPT !.regs = @ \cup {"conf"}]
      <3>1. c \in Bme!Chips
        BY <1>0 DEF Bme!TypeOK, Bme!Chips, Bme!Registers
      <3> HIDE DEF c
      <3>2. Bme!Started(c, held) \in Bme!Chips
        BY <2>1, <3>1, StartedTyped
      <3>3. Bme!Write(Bme!Started(c, held))
        BY <1>9 DEF Bme!WriteConf, c
      <3>4. QED
        BY <1>0, <3>2, <3>3, WriteTyped
    <2>3. CASE found = "sleep"
      <3>1. Bme!TypeOK'
        BY <1>0, <1>9, <2>2, <2>3 DEF Bme!WriteConf, Bme!TypeOK, Bme!Locations
      <3>2. CountInv' /\ AsleepInv'
        BY <1>9, <2>3 DEF Bme!WriteConf, BmeInv, CountInv, AsleepInv, Bme!ConfAsleep,
                          Bme!Configuring, SetsMode
      <3>3. QED
        BY <3>1, <3>2 DEF BmeInv
    <2>4. ASSUME NEW m \in Bme!Modes, m # "sleep", found = m PROVE BmeInv'
      <3>1. count \in 0 .. COUNT - 1
        BY <1>9, Counting DEF Bme!WriteConf
      <3>2. Bme!SetOpMode(m, "heatrConf")
        BY <1>9, <2>4 DEF Bme!WriteConf
      <3>3. QED
        BY <1>0, <1>9, <2>2, <2>4, <3>1, <3>2, SetOpModeTyped
        DEF Bme!WriteConf, Bme!TypeOK
    <2>5. QED
      BY <1>0, <2>3, <2>4 DEF Bme!TypeOK, Bme!Modes
  <1>10. QED
    BY <1>1, <1>2, <1>3, <1>4, <1>5, <1>7, <1>8, <1>9, <1>11 DEF Bme!Initialize

LEMMA SampleStep == BmeInv /\ Bme!Sample => BmeInv'
  <1> SUFFICES ASSUME BmeInv, Bme!Sample PROVE BmeInv'
    OBVIOUS
  <1>0. Bme!TypeOK
    BY DEF BmeInv
  <1>1. CASE Bme!Delay
    <2>1. TRIES \in 0 .. TRIES /\ TRIES > 0 /\ time' \in Nat
      <3>1. time' = time + Bme!Wait /\ time \in Nat
        BY <1>0, <1>1 DEF Bme!Delay, Bme!TypeOK
      <3>2. QED
        BY <3>1, WaitRange, BmeAssumption
    <2>2. Bme!TypeOK'
      BY <1>0, <1>1, <2>1 DEF Bme!Delay, Bme!TypeOK, Bme!Locations, Bme!Reads
    <2>3. CountInv' /\ AsleepInv'
      BY <1>1, <2>1 DEF Bme!Delay, BmeInv, CountInv, AsleepInv, Bme!ConfAsleep, Bme!Configuring, SetsMode
    <2>4. QED
      BY <2>2, <2>3 DEF BmeInv
  <1>2. CASE Bme!ReadNewData
    <2>1. data' \in Bme!Data /\ chip' \in Bme!Chips
      BY <1>0, <1>2 DEF Bme!ReadNewData, Bme!TakeNew, Bme!TypeOK, Bme!Data, Bme!Chips
    <2>2. Bme!TypeOK'
      BY <1>0, <1>2, <2>1 DEF Bme!ReadNewData, Bme!TakeNew, Bme!TypeOK, Bme!Locations
    <2>3. CountInv' /\ AsleepInv'
      BY <1>2 DEF Bme!ReadNewData, Bme!TakeNew, BmeInv, CountInv, AsleepInv,
                  Bme!ConfAsleep, Bme!Configuring, SetsMode
    <2>4. QED
      BY <2>2, <2>3 DEF BmeInv
  <1>6. ASSUME NEW g \in BOOLEAN, at = "field", Bme!Poll(g),
               chip' \in Bme!Chips, faults' \in 0 .. MaxFaults,
               lost' \in SUBSET {"bmeInit", "bmeMeasure"}
        PROVE  BmeInv'
    <2>1. data' \in Bme!Data
      BY <1>0, <1>6 DEF Bme!Poll, Bme!TypeOK, Bme!Data
    <2>2. /\ tries' \in 0 .. TRIES /\ time' \in Nat
          /\ tries = 1 \/ tries' > 0
      <3>1. tries' = tries - 1 /\ time' = time + 1
        BY <1>6 DEF Bme!Poll
      <3>2. tries \in 0 .. TRIES /\ tries > 0 /\ time \in Nat
        BY <1>0, <1>6 DEF BmeInv, CountInv, Bme!TypeOK
      <3>3. QED
        BY <3>1, <3>2, BmeAssumption
    <2>3. Bme!TypeOK'
      BY <1>0, <1>6, <2>1, <2>2 DEF Bme!Poll, Bme!TypeOK, Bme!Locations, Bme!Reads
    <2>4. CountInv' /\ AsleepInv'
      BY <1>6, <2>2 DEF Bme!Poll, BmeInv, CountInv, AsleepInv, Bme!ConfAsleep,
                        Bme!Configuring, SetsMode
    <2>5. QED
      BY <2>3, <2>4 DEF BmeInv
  <1>3. CASE Bme!PollAgain
    <2>1. chip.good \in BOOLEAN
      BY <1>0 DEF Bme!TypeOK, Bme!Chips
    <2>2. /\ chip' \in Bme!Chips /\ faults' \in 0 .. MaxFaults
          /\ lost' \in SUBSET {"bmeInit", "bmeMeasure"}
      BY <1>0, <1>3 DEF Bme!PollAgain, Bme!TypeOK
    <2>3. PICK g \in BOOLEAN : g = chip.good
      BY <2>1
    <2>4. QED
      BY <1>3, <1>6, <2>2, <2>3 DEF Bme!PollAgain
  <1>7. CASE Bme!ReadStray
    <2>1. /\ faults' \in 0 .. MaxFaults
          /\ lost' \in SUBSET {"bmeInit", "bmeMeasure"}
      <3>1. FALSE \in BOOLEAN /\ {Bme!Call} \subseteq {"bmeInit", "bmeMeasure"}
        BY CallTyped
      <3>2. Bme!Acknowledged(FALSE, {Bme!Call})
        BY <1>7 DEF Bme!ReadStray
      <3>3. QED
        BY <1>0, <3>1, <3>2, AcknowledgedTyped
    <2>2. chip' \in Bme!Chips /\ at = "field"
      BY <1>0, <1>7 DEF Bme!ReadStray, Bme!TypeOK
    <2>3. PICK g \in BOOLEAN :
            \/ Bme!TakeNew([new |-> TRUE, good |-> g, of |-> 0])
            \/ Bme!Poll(g)
      BY <1>7 DEF Bme!ReadStray
    <2>4. CASE Bme!TakeNew([new |-> TRUE, good |-> g, of |-> 0])
      <3>1. data' \in Bme!Data
        BY <2>4, ZeroInRange DEF Bme!TakeNew, Bme!Data
      <3>2. Bme!TypeOK'
        BY <1>0, <2>1, <2>2, <2>4, <3>1 DEF Bme!TakeNew, Bme!TypeOK, Bme!Locations
      <3>3. CountInv' /\ AsleepInv'
        BY <2>2, <2>4 DEF Bme!TakeNew, BmeInv, CountInv, AsleepInv, Bme!ConfAsleep,
                          Bme!Configuring, SetsMode
      <3>4. QED
        BY <3>2, <3>3 DEF BmeInv
    <2>5. QED
      BY <1>6, <2>1, <2>2, <2>3, <2>4
  <1>4. CASE Bme!Judge
    <2>1. count \in 0 .. COUNT - 1 /\ count' = count + 1
      BY <1>4, Counting DEF Bme!Judge
    <2>2. CASE Bme!Accepted \/ count + 1 = COUNT
      <3>1. count' \in 0 .. COUNT
        BY <2>1, BmeAssumption
      <3>2. Bme!TypeOK'
        BY <1>0, <1>4, <2>2, <3>1 DEF Bme!Judge, Bme!TypeOK, Bme!Locations
      <3>3. CountInv' /\ AsleepInv'
        BY <1>4, <2>2 DEF Bme!Judge, CountInv, AsleepInv, Bme!ConfAsleep, Bme!Configuring, SetsMode
      <3>4. QED
        BY <3>2, <3>3 DEF BmeInv
    <2>3. CASE ~(Bme!Accepted \/ count + 1 = COUNT)
      <3>1. count' \in 0 .. COUNT - 1
        BY <2>1, <2>3, BmeAssumption
      <3>2. Bme!SetOpMode("forced", "delay")
        BY <1>4, <2>3 DEF Bme!Judge
      <3>3. QED
        BY <1>0, <1>4, <3>1, <3>2, SetOpModeTyped
        DEF Bme!Judge, Bme!TypeOK, Bme!Modes
    <2>4. QED
      BY <2>2, <2>3
  <1>5. QED
    BY <1>1, <1>2, <1>3, <1>4, <1>7 DEF Bme!Sample

\* The driver hangs in a read; the count of faults is all that changes.
LEMMA HangStep == BmeInv /\ Bme!Hang => BmeInv'
  <1> SUFFICES ASSUME BmeInv, Bme!Hang PROVE BmeInv'
    OBVIOUS
  <1>1. faults \in 0 .. MaxFaults /\ faults < MaxFaults /\ faults' = faults + 1
    BY DEF Bme!Hang, BmeInv, Bme!TypeOK
  <1>2. faults' \in 0 .. MaxFaults
    BY <1>1, FaultAssumption
  <1>3. Bme!TypeOK'
    BY <1>2 DEF Bme!Hang, Bme!driverVars, BmeInv, Bme!TypeOK, Bme!Locations
  <1>4. CountInv' /\ AsleepInv'
    BY DEF Bme!Hang, Bme!driverVars, BmeInv, CountInv, AsleepInv, Bme!ConfAsleep,
           Bme!Configuring, SetsMode, Bme!Reads
  <1>5. QED
    BY <1>3, <1>4 DEF BmeInv

LEMMA StepStep == BmeInv /\ Bme!Step => BmeInv'
  BY InitializeStep, SetsModeStep, SampleStep, HangStep DEF Bme!Step

LEMMA MeasureStep == BmeInv /\ Bme!Measure => BmeInv'
  <1> SUFFICES ASSUME BmeInv, Bme!Measure PROVE BmeInv'
    OBVIOUS
  <1>1. 0 \in 0 .. COUNT - 1 /\ 0 \in 0 .. TRIES /\ 0 \in 0 .. COUNT
    BY ZeroInRange
  <1>2. chip' \in Bme!Chips
    BY <1>1 DEF Bme!Measure, BmeInv, Bme!TypeOK, Bme!Chips
  <1>3. data' \in Bme!Data
    BY <1>1 DEF Bme!Measure, Bme!NoData, Bme!Data
  <1>4. Bme!SetOpMode("forced", "delay")
    BY DEF Bme!Measure
  <1>5. QED
    BY <1>1, <1>2, <1>3, <1>4, SetOpModeTyped
    DEF Bme!Measure, BmeInv, Bme!TypeOK, Bme!Modes

LEMMA FinishStep == BmeInv /\ Bme!Finish => BmeInv'
  <1> SUFFICES ASSUME BmeInv, Bme!Finish PROVE BmeInv'
    OBVIOUS
  <1>1. chip' \in Bme!Chips /\ chip.mode # "sleep"
    <2>1. PICK g \in BOOLEAN :
            chip' = [chip EXCEPT !.mode = Bme!ModeAfter, !.new = TRUE, !.good = g,
                                 !.of = chip.running]
      BY Zenon DEF Bme!Finish
    <2>2. Bme!ModeAfter \in Bme!Modes
      BY DEF BmeInv, Bme!TypeOK, Bme!Chips, Bme!Modes, Bme!ModeAfter
    <2>3. QED
      BY <2>1, <2>2 DEF Bme!Finish, BmeInv, Bme!TypeOK, Bme!Chips
  <1>2. Bme!TypeOK'
    BY <1>1 DEF Bme!Finish, Bme!driverVars, BmeInv, Bme!TypeOK
  <1>3. CountInv' /\ AsleepInv'
    BY <1>1 DEF Bme!Finish, Bme!driverVars, BmeInv, CountInv, AsleepInv, Bme!ConfAsleep,
                SetsMode
  <1>4. QED
    BY <1>2, <1>3 DEF BmeInv

LEMMA RestartStep == BmeInv /\ Bme!Restart => BmeInv'
  <1> SUFFICES ASSUME BmeInv, Bme!Restart PROVE BmeInv'
    OBVIOUS
  <1>1. 0 \in 0 .. COUNT /\ 0 \in 0 .. TRIES /\ 0 < COUNT
    BY ZeroInRange
  <1>2. data' \in Bme!Data
    BY <1>1 DEF Bme!Restart, Bme!NoData, Bme!Data
  <1>3. Bme!TypeOK'
    BY <1>1, <1>2 DEF Bme!Restart, BmeInv, Bme!TypeOK, Bme!Locations, Bme!Writes,
                      Bme!Modes
  <1>4. CountInv' /\ AsleepInv'
    BY <1>1 DEF Bme!Restart, CountInv, AsleepInv, Bme!ConfAsleep, Bme!Configuring, SetsMode
  <1>5. QED
    BY <1>3, <1>4 DEF BmeInv

\* The GPS module's steps only share the time and the count of faults.
LEMMA OthersStep ==
    ASSUME BmeInv, UNCHANGED bmeVars, time' \in Nat, faults' \in 0 .. MaxFaults
    PROVE  BmeInv'
  <1>1. Bme!TypeOK'
    BY DEF bmeVars, BmeInv, Bme!TypeOK
  <1>2. CountInv' /\ AsleepInv'
    BY DEF bmeVars, BmeInv, CountInv, AsleepInv, Bme!ConfAsleep
  <1>3. QED
    BY <1>1, <1>2 DEF BmeInv

----------------------------------------------------------------------------
(* The GPS driver: types *)

\* While it reads a line is missing, while it parses one is there, and the
\* module sends the ack before anything else.
LinesInv ==
    /\ gps = "reading" => Len(lines) < num
    /\ gps = "parsing" => lines # <<>>
    /\ sec = 0 => tok \in 1 .. 3

PasInv == Pas!TypeOK /\ LinesInv

LEMMA NoneTyped == Pas!None \in Pas!Bodies
  BY DEF Pas!None, Pas!Bodies, Pas!Kinds

LEMMA AdvanceTyped ==
    ASSUME PasInv, Pas!Advance
    PROVE  /\ time' \in Nat /\ sec' \in Nat /\ tok' \in 1 .. 6
           /\ sec' = 0 => tok' \in 1 .. 3
  <1>1. /\ time \in Nat /\ sec \in Nat /\ tok \in 1 .. 6
        /\ sec = 0 => tok \in 1 .. 3
    BY DEF PasInv, Pas!TypeOK, LinesInv
  <1>2. Pas!Duration \in Nat
    BY PasAssumption DEF Pas!Duration
  <1>3. time' = time + Pas!Duration
    BY DEF Pas!Advance
  <1>4. time' \in Nat
    BY <1>1, <1>2, <1>3
  <1>5. sec' \in Nat /\ tok' \in 1 .. 6 /\ (sec' = 0 => tok' \in 1 .. 3)
    <2>1. CASE tok = Pas!Last
      BY <1>1, <2>1 DEF Pas!Advance
    <2>2. CASE tok # Pas!Last
      <3>1. sec' = sec /\ tok' = tok + 1
        BY <2>2 DEF Pas!Advance
      <3>2. CASE sec = 0
        <4>1. tok # 3
          BY <2>2, <3>2 DEF Pas!Last
        <4>2. QED
          BY <1>1, <3>1, <3>2, <4>1
      <3>3. CASE sec # 0
        <4>1. tok # 6
          BY <2>2, <3>3 DEF Pas!Last
        <4>2. QED
          BY <1>1, <3>1, <3>3, <4>1
      <3>4. QED
        BY <3>2, <3>3
    <2>3. QED
      BY <2>1, <2>2
  <1>6. QED
    BY <1>4, <1>5

LEMMA BodyTyped ==
    ASSUME Pas!TypeOK
    PROVE  /\ Pas!Body \in Pas!Bodies
           /\ Pas!Garbled \in Pas!Bodies
           /\ [Pas!Body EXCEPT !.kind = "other"] \in Pas!Bodies
  BY DEF Pas!TypeOK, Pas!Body, Pas!Garbled, Pas!Bodies, Pas!Kinds

LEMMA StoreTyped ==
    ASSUME Pas!TypeOK, NEW STATE b, b \in Pas!Bodies, Pas!Store(b)
    PROVE  line' \in Seq(Pas!Bodies)
  BY DEF Pas!TypeOK, Pas!Store

LEMMA EndLineTyped ==
    ASSUME PasInv, gps = "reading", NEW STATE l, l \in Seq(Pas!Bodies),
           Pas!EndLine(l)
    PROVE  /\ lines' \in Seq(Seq(Pas!Bodies)) /\ Len(lines') <= num
           /\ line' \in Seq(Pas!Bodies)
           /\ msg' \in BOOLEAN
           /\ gps' \in {"parsing", "reading"}
           /\ gps' = "reading" => Len(lines') < num
           /\ gps' = "parsing" => lines' # <<>>
  <1>1. lines \in Seq(Seq(Pas!Bodies)) /\ Len(lines) < num /\ num \in 0 .. 2
    BY DEF PasInv, Pas!TypeOK, LinesInv, Pas!PAS_NMEA_CNT
  <1>2. lines' = Append(lines, l)
    BY DEF Pas!EndLine
  <1>3. lines' \in Seq(Seq(Pas!Bodies)) /\ Len(lines') = Len(lines) + 1
    BY <1>1, <1>2
  <1>4. lines' # <<>>
    BY <1>1, <1>3
  <1>5. Len(lines) \in Nat
    BY <1>1
  <1>6. /\ line' \in Seq(Pas!Bodies) /\ msg' \in BOOLEAN
        /\ gps' = IF Len(lines) + 1 = num THEN "parsing" ELSE "reading"
    <2>1. /\ line' = <<>> /\ msg' = FALSE
          /\ gps' = IF Len(lines) + 1 = num THEN "parsing" ELSE "reading"
      BY Zenon DEF Pas!EndLine
    <2>2. <<>> \in Seq(Pas!Bodies)
      OBVIOUS
    <2>3. QED
      BY <2>1, <2>2
  <1>7. Len(lines') <= num /\ (Len(lines) + 1 # num => Len(lines') < num)
    BY <1>1, <1>3, <1>5
  <1>8. QED
    BY <1>3, <1>4, <1>6, <1>7

\* What is left when a step of readOut has its parts typed.
LEMMA ReadingTyped ==
    ASSUME PasInv, gps = "reading", Pas!Advance, UNCHANGED <<num, nmea>>,
           \/ UNCHANGED <<gps, lines>> /\ line' \in Seq(Pas!Bodies) /\ msg' \in BOOLEAN
           \/ \E l \in Seq(Pas!Bodies) : Pas!EndLine(l),
           faults' \in 0 .. MaxFaults, clean' \in BOOLEAN, whole' \in BOOLEAN
    PROVE  PasInv'
  <1>1. /\ lines' \in Seq(Seq(Pas!Bodies)) /\ Len(lines') <= num
        /\ line' \in Seq(Pas!Bodies)
        /\ msg' \in BOOLEAN
        /\ gps' \in {"parsing", "reading"}
        /\ gps' = "reading" => Len(lines') < num
        /\ gps' = "parsing" => lines' # <<>>
    <2>1. CASE UNCHANGED <<gps, lines>> /\ line' \in Seq(Pas!Bodies) /\ msg' \in BOOLEAN
      BY <2>1 DEF PasInv, Pas!TypeOK, LinesInv
    <2>2. CASE \E l \in Seq(Pas!Bodies) : Pas!EndLine(l)
      BY <2>2, EndLineTyped
    <2>3. QED
      BY <2>1, <2>2
  <1>2. /\ time' \in Nat /\ sec' \in Nat /\ tok' \in 1 .. 6
        /\ sec' = 0 => tok' \in 1 .. 3
    BY AdvanceTyped
  <1>3. Pas!TypeOK'
    BY <1>1, <1>2 DEF PasInv, Pas!TypeOK
  <1>4. LinesInv'
    BY <1>1, <1>2 DEF PasInv, LinesInv
  <1>5. QED
    BY <1>3, <1>4 DEF PasInv

LEMMA FaultTyped ==
    ASSUME PasInv, NEW STATE kept, kept \in BOOLEAN, Pas!Fault(kept)
    PROVE  /\ gps = "reading" /\ faults' \in 0 .. MaxFaults
           /\ clean' = FALSE /\ whole' \in BOOLEAN
  <1>1. faults \in 0 .. MaxFaults /\ faults < MaxFaults /\ faults' = faults + 1
    BY DEF PasInv, Pas!TypeOK, Pas!Fault
  <1>2. faults' \in 0 .. MaxFaults
    BY <1>1, FaultAssumption
  <1>3. whole' \in BOOLEAN
    BY DEF PasInv, Pas!TypeOK, Pas!Fault
  <1>4. QED
    BY <1>2, <1>3 DEF Pas!Fault, Pas!Reading

LEMMA ReadingStep ==
    ASSUME PasInv,
           \/ Pas!ReadDollar \/ Pas!ReadBody \/ Pas!ReadNewline
           \/ Pas!Drop \/ Pas!Garble \/ Pas!Unexpected
    PROVE  PasInv'
  <1>0. /\ Pas!TypeOK /\ line \in Seq(Pas!Bodies) /\ msg \in BOOLEAN
        /\ faults \in 0 .. MaxFaults /\ clean \in BOOLEAN /\ whole \in BOOLEAN
    BY DEF PasInv, Pas!TypeOK
  <1>1. CASE Pas!ReadDollar
    BY <1>0, <1>1, ReadingTyped DEF Pas!ReadDollar, Pas!Reading
  <1>2. CASE Pas!ReadBody
    <2>1. line' \in Seq(Pas!Bodies)
      BY <1>0, <1>2, BodyTyped, StoreTyped DEF Pas!ReadBody
    <2>2. QED
      BY <1>0, <1>2, <2>1, ReadingTyped DEF Pas!ReadBody, Pas!Reading
  <1>3. CASE Pas!ReadNewline
    <2>1. CASE msg
      BY <1>0, <1>3, <2>1, ReadingTyped DEF Pas!ReadNewline, Pas!Reading
    <2>2. CASE ~msg
      BY <1>0, <1>3, <2>2, ReadingTyped DEF Pas!ReadNewline, Pas!Reading
    <2>3. QED
      BY <2>1, <2>2
  <1>4. CASE Pas!Drop
    <2>1. (tok \in {3, 6}) \in BOOLEAN /\ Pas!Fault(tok \in {3, 6})
      BY <1>4 DEF Pas!Drop
    <2>2. /\ gps = "reading" /\ faults' \in 0 .. MaxFaults
          /\ clean' = FALSE /\ whole' \in BOOLEAN
      BY <2>1, FaultTyped
    <2>3. QED
      BY <1>0, <1>4, <2>2, ReadingTyped DEF Pas!Drop
  <1>5. CASE Pas!Garble
    <2>5. FALSE \in BOOLEAN /\ Pas!Fault(FALSE)
      BY <1>5 DEF Pas!Garble
    <2>0. /\ gps = "reading" /\ faults' \in 0 .. MaxFaults
          /\ clean' = FALSE /\ whole' \in BOOLEAN
          /\ Pas!Advance /\ UNCHANGED <<num, nmea>>
          /\ Pas!Garbled \in Pas!Bodies
      BY <1>0, <1>5, <2>5, BodyTyped, FaultTyped DEF Pas!Garble
    <2>1. CASE Pas!Store(Pas!Garbled) /\ UNCHANGED <<gps, msg, lines>>
      <3>1. line' \in Seq(Pas!Bodies)
        BY <1>0, <2>0, <2>1, StoreTyped
      <3>2. QED
        BY <1>0, <2>0, <2>1, <3>1, ReadingTyped
    <2>2. CASE ~msg /\ msg' = TRUE /\ line' = <<Pas!Garbled>> /\ UNCHANGED <<gps, lines>>
      <3>1. line' \in Seq(Pas!Bodies)
        BY <2>0, <2>2
      <3>2. QED
        BY <2>0, <2>2, <3>1, ReadingTyped
    <2>3. CASE msg /\ Pas!EndLine(Append(line, Pas!Garbled))
      <3>1. Append(line, Pas!Garbled) \in Seq(Pas!Bodies)
        BY <1>0, <2>0
      <3>2. QED
        BY <2>0, <2>3, <3>1, ReadingTyped
    <2>4. QED
      BY <1>5, <2>1, <2>2, <2>3 DEF Pas!Garble
  <1>6. CASE Pas!Unexpected
    <2>1. line' \in Seq(Pas!Bodies)
      BY <1>0, <1>6, BodyTyped, StoreTyped DEF Pas!Unexpected
    <2>2. FALSE \in BOOLEAN /\ Pas!Fault(FALSE)
      BY <1>6 DEF Pas!Unexpected
    <2>3. /\ gps = "reading" /\ faults' \in 0 .. MaxFaults
          /\ clean' = FALSE /\ whole' \in BOOLEAN
      BY <2>2, FaultTyped
    <2>4. QED
      BY <1>0, <1>6, <2>1, <2>3, ReadingTyped DEF Pas!Unexpected
  <1>7. QED
    BY <1>1, <1>2, <1>3, <1>4, <1>5, <1>6

LEMMA SilenceStep == ASSUME PasInv, Pas!Silence PROVE PasInv'
  <1>1. faults' \in 0 .. MaxFaults /\ clean' = FALSE /\ whole' \in BOOLEAN
    <2>1. FALSE \in BOOLEAN /\ Pas!Fault(FALSE)
      BY Zenon DEF Pas!Silence
    <2>2. QED
      BY <2>1, FaultTyped
  <1>2. Pas!TypeOK'
    BY <1>1 DEF Pas!Silence, Pas!stream, PasInv, Pas!TypeOK
  <1>3. LinesInv'
    BY DEF Pas!Silence, Pas!stream, PasInv, LinesInv
  <1>4. QED
    BY <1>2, <1>3 DEF PasInv

\* A line's values come from its first sentence.
LEMMA ParseStep == ASSUME PasInv, Pas!CheckAck \/ Pas!ParseLine PROVE PasInv'
  <1>1. CASE Pas!CheckAck
    <2>1. lines' \in Seq(Seq(Pas!Bodies)) /\ Len(lines') = 0
      BY <1>1 DEF Pas!CheckAck
    <2>2. gps' \in {"ready", "failed"}
      BY <1>1 DEF Pas!CheckAck
    <2>3. num \in 0 .. 2
      BY DEF PasInv, Pas!TypeOK, Pas!PAS_NMEA_CNT
    <2>4. Len(lines') <= num
      BY <2>1, <2>3
    <2>5. Pas!TypeOK'
      BY <1>1, <2>1, <2>2, <2>4 DEF Pas!CheckAck, PasInv, Pas!TypeOK
    <2>6. LinesInv'
      BY <1>1, <2>2 DEF Pas!CheckAck, PasInv, LinesInv
    <2>7. QED
      BY <2>5, <2>6 DEF PasInv
  <1>2. CASE Pas!ParseLine
    <2> DEFINE l == Head(lines)
               kind == Pas!First(l).kind
    <2>1. lines \in Seq(Seq(Pas!Bodies)) /\ lines # <<>> /\ Len(lines) <= 2 /\ num = 2
      BY <1>2 DEF Pas!ParseLine, PasInv, Pas!TypeOK, LinesInv, Pas!PAS_NMEA_CNT
    <2>2. /\ l \in Seq(Pas!Bodies)
          /\ lines' \in Seq(Seq(Pas!Bodies)) /\ Len(lines') = Len(lines) - 1
          /\ Len(lines) \in Nat
      BY <1>2, <2>1 DEF Pas!ParseLine
    <2>3. Len(lines') <= num /\ (Len(lines) # 1 => lines' # <<>>)
      BY <2>1, <2>2
    <2>4. Pas!First(l) \in Pas!Bodies
      BY <2>2, NoneTyped DEF Pas!First
    <2>5. /\ gps' \in {"ok", "parsing", "failed"}
          /\ gps' = "parsing" => Len(lines) # 1
          /\ nmea' \in [pos : Pas!Bodies, speed : Pas!Bodies]
      <3>0. nmea \in [pos : Pas!Bodies, speed : Pas!Bodies]
        BY DEF PasInv, Pas!TypeOK
      <3>1. CASE ~Pas!CheckSum(l) /\ gps' = "failed" /\ UNCHANGED nmea
        BY <3>0, <3>1
      <3>2. CASE Pas!CheckSum(l) /\ kind = "GPGGA" /\ Pas!SetFields("pos", l)
        BY <2>4, <3>0, <3>2 DEF Pas!SetFields
      <3>3. CASE Pas!CheckSum(l) /\ kind = "GPRMC" /\ Pas!SetFields("speed", l)
        BY <2>4, <3>0, <3>3 DEF Pas!SetFields
      <3>4. CASE /\ Pas!CheckSum(l) /\ kind \notin {"GPGGA", "GPRMC"}
                 /\ gps' = IF Len(lines) = 1 THEN "ok" ELSE "parsing"
                 /\ UNCHANGED nmea
        BY <3>0, <3>4
      <3>5. QED
        BY <1>2, <3>1, <3>2, <3>3, <3>4 DEF Pas!ParseLine
    <2>6. Pas!TypeOK'
      BY <1>2, <2>2, <2>3, <2>5 DEF Pas!ParseLine, PasInv, Pas!TypeOK
    <2>7. LinesInv'
      BY <1>2, <2>3, <2>5 DEF Pas!ParseLine, PasInv, LinesInv
    <2>8. QED
      BY <2>5, <2>6, <2>7 DEF PasInv
  <1>3. QED
    BY <1>1, <1>2

LEMMA PasStepStep == PasInv /\ Pas!Step => PasInv'
  BY ReadingStep, SilenceStep, ParseStep DEF Pas!Step

LEMMA ReadOutStep ==
    ASSUME PasInv, NEW CONSTANT n \in 1 .. 2, NEW CONSTANT s \in {0, 1},
           NEW CONSTANT t \in 1 .. 6, s = 0 => t = 1, Pas!ReadOut(n, s, t)
    PROVE  PasInv'
  <1>1. lines' \in Seq(Seq(Pas!Bodies)) /\ Len(lines') = 0
    BY DEF Pas!ReadOut
  <1>2. num' = n /\ Len(lines') < n /\ Len(lines') <= n
    BY <1>1 DEF Pas!ReadOut
  <1>3. nmea' \in [pos : Pas!Bodies, speed : Pas!Bodies]
    BY NoneTyped DEF Pas!ReadOut
  <1>4. line' \in Seq(Pas!Bodies)
    BY DEF Pas!ReadOut
  <1>5. Pas!TypeOK'
    <2>1. num' \in 0 .. Pas!PAS_NMEA_CNT
      BY <1>2 DEF Pas!PAS_NMEA_CNT
    <2>2. /\ gps' = "reading" /\ msg' = FALSE /\ sec' = s /\ tok' = t
          /\ clean' = TRUE /\ whole' = TRUE /\ time' = time /\ faults' = faults
      BY Zenon DEF Pas!ReadOut
    <2>3. sec' \in Nat /\ tok' \in 1 .. 6 /\ time' \in Nat /\ faults' \in 0 .. MaxFaults
      BY <2>2 DEF PasInv, Pas!TypeOK
    <2>4. Len(lines') <= num'
      BY <1>2
    <2>5. QED
      BY <1>1, <1>3, <1>4, <2>1, <2>2, <2>3, <2>4 DEF Pas!TypeOK
  <1>6. LinesInv'
    BY <1>2 DEF Pas!ReadOut, LinesInv
  <1>7. QED
    BY <1>5, <1>6 DEF PasInv

----------------------------------------------------------------------------
(* Both sensors *)

SlotTypes ==
    /\ phase \in {"bmeInit", "pasInit", "loop", "bmeMeasure", "pasRead", "send"}
    /\ pas \in BOOLEAN
    /\ pason \in BOOLEAN

Inv == BmeInv /\ PasInv /\ SlotTypes

LEMMA InitInv == Init => Inv
  <1> SUFFICES ASSUME Init PROVE Inv
    OBVIOUS
  <1>1. BmeInv
    BY BmeInit DEF Init
  <1>2. line \in Seq(Pas!Bodies) /\ lines \in Seq(Seq(Pas!Bodies)) /\ Len(lines) = 0
    BY DEF Init, Pas!Init
  <1>3. nmea \in [pos : Pas!Bodies, speed : Pas!Bodies]
    BY NoneTyped DEF Init, Pas!Init
  <1>4. faults \in 0 .. MaxFaults /\ num \in 0 .. Pas!PAS_NMEA_CNT /\ Len(lines) <= num
    BY <1>2, FaultAssumption DEF Init, Pas!Init, Pas!PAS_NMEA_CNT
  <1>5. Pas!TypeOK
    <2>1. gps = "off" /\ sec = 0 /\ tok = 1 /\ time = 0
      BY Zenon DEF Init, Pas!Init
    <2>2. msg \in BOOLEAN /\ clean \in BOOLEAN /\ whole \in BOOLEAN
      BY Zenon DEF Init, Pas!Init
    <2>3. QED
      BY <1>2, <1>3, <1>4, <2>1, <2>2 DEF Pas!TypeOK
  <1>6. LinesInv
    BY DEF Init, Pas!Init, LinesInv
  <1>7. SlotTypes
    BY DEF Init, SlotTypes
  <1>8. QED
    BY <1>1, <1>5, <1>6, <1>7 DEF Inv, PasInv

\* The air sensor's steps only share the time and the count of faults.
LEMMA PasOthersStep ==
    ASSUME PasInv, UNCHANGED pasVars, time' \in Nat, faults' \in 0 .. MaxFaults
    PROVE  PasInv'
  <1>1. Pas!TypeOK'
    BY DEF pasVars, PasInv, Pas!TypeOK
  <1>2. LinesInv'
    BY DEF pasVars, PasInv, LinesInv
  <1>3. QED
    BY <1>1, <1>2 DEF PasInv

LEMMA NextInv == Inv /\ [Next]_vars => Inv'
  <1> SUFFICES ASSUME Inv, [Next]_vars PROVE Inv'
    OBVIOUS
  <1>0. BmeInv /\ PasInv /\ SlotTypes /\ time \in Nat /\ faults \in 0 .. MaxFaults
    BY DEF Inv, BmeInv, Bme!TypeOK
  <1>a. ASSUME BmeInv' PROVE time' \in Nat /\ faults' \in 0 .. MaxFaults
    BY <1>a DEF BmeInv, Bme!TypeOK
  <1>b. ASSUME PasInv' PROVE time' \in Nat /\ faults' \in 0 .. MaxFaults
    BY <1>b DEF PasInv, Pas!TypeOK
  <1>1. CASE CallBme
    <2>1. BmeInv'
      BY <1>0, <1>1, StepStep DEF CallBme
    <2>2. PasInv'
      BY <1>0, <1>1, <1>a, <2>1, PasOthersStep DEF CallBme
    <2>3. SlotTypes'
      BY <1>0, <1>1 DEF CallBme, slotVars, SlotTypes
    <2>4. QED
      BY <2>1, <2>2, <2>3 DEF Inv
  <1>2. CASE CallPas
    <2>1. PasInv'
      BY <1>0, <1>2, PasStepStep DEF CallPas
    <2>2. BmeInv'
      BY <1>0, <1>2, <1>b, <2>1, OthersStep DEF CallPas
    <2>3. SlotTypes'
      BY <1>0, <1>2 DEF CallPas, slotVars, SlotTypes
    <2>4. QED
      BY <2>1, <2>2, <2>3 DEF Inv
  <1>3. CASE Finish
    <2>1. BmeInv'
      BY <1>0, <1>3, FinishStep DEF Finish
    <2>2. PasInv'
      BY <1>0, <1>3, <1>a, <2>1, PasOthersStep DEF Finish
    <2>3. SlotTypes'
      BY <1>0, <1>3 DEF Finish, slotVars, SlotTypes
    <2>4. QED
      BY <2>1, <2>2, <2>3 DEF Inv
  <1>4. CASE Reset
    <2>1. BmeInv'
      BY <1>0, <1>4, RestartStep DEF Reset
    <2>2. time' \in Nat /\ faults' \in 0 .. MaxFaults
      BY <1>a, <2>1
    <2>3. line' \in Seq(Pas!Bodies) /\ lines' \in Seq(Seq(Pas!Bodies)) /\ Len(lines') = 0
      BY <1>4 DEF Reset
    <2>4. nmea' \in [pos : Pas!Bodies, speed : Pas!Bodies]
      BY <1>4, NoneTyped DEF Reset
    <2>5. num' \in 0 .. Pas!PAS_NMEA_CNT /\ Len(lines') <= num'
      BY <1>4, <2>3 DEF Reset, Pas!PAS_NMEA_CNT
    <2>6. /\ gps' = "off" /\ sec' = 0 /\ tok' = 1
          /\ phase' = "bmeInit"
          /\ nmea' = [pos |-> Pas!None, speed |-> Pas!None]
          /\ msg' \in BOOLEAN /\ clean' \in BOOLEAN /\ whole' \in BOOLEAN
          /\ pas' \in BOOLEAN /\ pason' \in BOOLEAN
      BY <1>4, Zenon DEF Reset
    <2>7. Pas!TypeOK'
      BY <2>2, <2>3, <2>4, <2>5, <2>6 DEF Pas!TypeOK
    <2>8. LinesInv' /\ SlotTypes'
      BY <2>6 DEF LinesInv, SlotTypes
    <2>9. QED
      BY <2>1, <2>7, <2>8 DEF Inv, PasInv
  <1>5. CASE InitPas
    <2>1. PasInv'
      BY <1>0, <1>5, ReadOutStep DEF InitPas, Pas!PasInit
    <2>2. BmeInv'
      BY <1>0, <1>5, <1>b, <2>1, OthersStep DEF InitPas
    <2>3. SlotTypes'
      BY <1>0, <1>5 DEF InitPas, SlotTypes
    <2>4. QED
      BY <2>1, <2>2, <2>3 DEF Inv
  <1>6. CASE EnterLoop \/ EndRead \/ Send
    <2>1. UNCHANGED <<bmeVars, pasVars, time, faults>>
      BY <1>6 DEF EnterLoop, EndRead, Send
    <2>2. BmeInv' /\ PasInv'
      BY <1>0, <2>1, OthersStep, PasOthersStep
    <2>3. SlotTypes'
      BY <1>0, <1>6 DEF EnterLoop, EndRead, Send, SlotTypes
    <2>4. QED
      BY <2>2, <2>3 DEF Inv
  <1>7. CASE DoMeas
    <2>1. BmeInv'
      BY <1>0, <1>7, MeasureStep DEF DoMeas
    <2>2. PasInv'
      BY <1>0, <1>7, <1>a, <2>1, PasOthersStep DEF DoMeas
    <2>3. SlotTypes'
      BY <1>0, <1>7 DEF DoMeas, SlotTypes
    <2>4. QED
      BY <2>1, <2>2, <2>3 DEF Inv
  <1>8. CASE ReadPas
    <2>1. PasInv'
      <3>1. CASE pason'
        BY <1>0, <1>8, <3>1, ReadOutStep DEF ReadPas, Pas!PasRead, Pas!PAS_NMEA_CNT
      <3>2. CASE ~pason'
        BY <1>0, <1>8, <3>2, PasOthersStep DEF ReadPas
      <3>3. QED
        BY <3>1, <3>2
    <2>2. BmeInv'
      BY <1>0, <1>8, <1>b, <2>1, OthersStep DEF ReadPas
    <2>3. SlotTypes'
      BY <1>0, <1>8 DEF ReadPas, SlotTypes
    <2>4. QED
      BY <2>1, <2>2, <2>3 DEF Inv
  <1>9. CASE UNCHANGED vars
    <2>1. BmeInv' /\ PasInv'
      BY <1>0, <1>9, OthersStep, PasOthersStep DEF vars
    <2>2. SlotTypes'
      BY <1>0, <1>9 DEF vars, slotVars, SlotTypes
    <2>3. QED
      BY <2>1, <2>2 DEF Inv
  <1>10. QED
    BY <1>1, <1>2, <1>3, <1>4, <1>5, <1>6, <1>7, <1>8, <1>9 DEF Next

\* Types of both sensors' state, whatever is lost on the bus or the line.
THEOREM TypeCorrect == Spec => []TypeOK
  <1>1. Inv => TypeOK
    BY DEF Inv, BmeInv, PasInv, SlotTypes, TypeOK
  <1>2. QED
    BY <1>1, InitInv, NextInv, PTL DEF Spec

\* bme68x_set_op_mode always leaves the sensor asleep before it is configured
\* or started, whatever mode a restart of the controller found it in and
\* whichever values were lost - only not when the mode itself was read from
\* another register.
THEOREM ConfAsleepHolds == Spec => []ConfAsleep
  <1>1. Inv => ConfAsleep
    BY DEF Inv, BmeInv, AsleepInv, ConfAsleep
  <1>2. QED
    BY <1>1, InitInv, NextInv, PTL DEF Spec

----------------------------------------------------------------------------
(* How long the air sensor takes *)

\* One try: to put the sensor to sleep, to wait for it and to poll it.
Per == 1 + Bme!Wait + TRIES

\* Each lost write may cost a poll; which is all the faults once one was lost.
Extra == IF "bmeMeasure" \in lost THEN faults ELSE 0

Base == count * Per + Extra

\* The time that a call of bmeMeasure may have taken, by where it is.
BudgetInv ==
    phase = "bmeMeasure" =>
        /\ bme = "ok"
        /\ at \in SetsMode \cup {"delay", "field", "judge", "idle", "hung"}
        /\ at \in SetsMode => back = "delay" /\ goal = "forced"
        /\ at \in SetsMode \cup {"delay"} => time <= Base + 1
        /\ at = "getMode" /\ chip.mode # "sleep" => time <= Base
        /\ at = "putToSleep" => time <= Base
        /\ at = "field" => time + tries <= Base + Per
        /\ at = "judge" => time <= Base + Per
        /\ at = "idle" => time <= Base

LEMMA PerRange == Per \in Nat /\ Per = 1 + Bme!Wait + TRIES /\ TRIES < Per
  BY WaitRange, BmeAssumption DEF Per

LEMMA Tries ==
    ASSUME NEW c \in Nat
    PROVE  /\ c * Per \in Nat
           /\ (c + 1) * Per = c * Per + Per
           /\ \A d \in Nat : c <= d => c * Per <= d * Per
  <1> DEFINE p == Per
  <1>1. p \in Nat
    BY PerRange
  <1> HIDE DEF p
  <1>2. /\ c * p \in Nat
        /\ (c + 1) * p = c * p + p
        /\ \A d \in Nat : c <= d => c * p <= d * p
    BY <1>1, SMTT(30)
  <1>3. QED
    BY <1>2 DEF p

LEMMA BaseRange ==
    ASSUME Inv
    PROVE  Base \in Nat /\ Extra \in Nat /\ Extra <= faults /\ time \in Nat
           /\ count \in Nat
  <1>1. count \in Nat /\ faults \in Nat /\ time \in Nat
    BY FaultAssumption DEF Inv, BmeInv, Bme!TypeOK
  <1>2. Extra \in Nat /\ Extra <= faults
    BY <1>1 DEF Extra
  <1>3. QED
    BY <1>1, <1>2, Tries DEF Base

\* What is lost adds a unit, any other step leaves the base alone.
LEMMA AcknowledgedExtra ==
    ASSUME Inv, bme = "ok", NEW CONSTANT ok \in BOOLEAN,
           NEW STATE calls, Bme!Call \in calls,
           Bme!Acknowledged(ok, calls), UNCHANGED count
    PROVE  /\ ok => Base' = Base
           /\ ~ok => Base' >= Base + 1 /\ Base' \in Nat
  <1>1. CASE ok
    <2>1. UNCHANGED <<faults, lost>>
      BY <1>1 DEF Bme!Acknowledged
    <2>2. QED
      BY <1>1, <2>1 DEF Base, Extra, Per, Bme!Wait, Bme!GetMeasDur
  <1>2. CASE ~ok
    <2>0. faults' = faults + 1 /\ lost' = lost \cup calls
      BY <1>2 DEF Bme!Acknowledged
    <2>1. faults \in Nat /\ count * Per \in Nat /\ Extra \in Nat /\ Extra <= faults
      <3>1. faults \in Nat
        BY FaultAssumption DEF Inv, BmeInv, Bme!TypeOK
      <3>2. QED
        BY <3>1, BaseRange, Tries
    <2>2. "bmeMeasure" \in lost'
      BY <2>0 DEF Bme!Call
    <2>3. Extra' = faults + 1
      BY <2>0, <2>2 DEF Extra
    <2>4. Base' = count * Per + Extra'
      BY DEF Base, Per, Bme!Wait, Bme!GetMeasDur
    <2>5. QED
      BY <1>2, <2>1, <2>3, <2>4 DEF Base
  <1>3. QED
    BY <1>1, <1>2

LEMMA WriteExtra ==
    ASSUME Inv, bme = "ok", NEW STATE c, Bme!Write(c), UNCHANGED count
    PROVE  \/ chip' = c /\ Base' = Base
           \/ chip' = chip /\ Base' >= Base + 1 /\ Base' \in Nat
  <1>1. PICK ok \in BOOLEAN :
           Bme!Acknowledged(ok, {Bme!Call}) /\ chip' = IF ok THEN c ELSE chip
    BY DEF Bme!Write
  <1>2. Bme!Call \in {Bme!Call}
    OBVIOUS
  <1>3. (ok => Base' = Base) /\ (~ok => Base' >= Base + 1 /\ Base' \in Nat)
    BY <1>1, <1>2, AcknowledgedExtra
  <1>4. QED
    BY <1>1, <1>3

LEMMA BudgetStep == Inv /\ BudgetInv /\ [Next]_vars => BudgetInv'
  <1> SUFFICES ASSUME Inv, BudgetInv, [Next]_vars, phase' = "bmeMeasure"
               PROVE  BudgetInv'
    BY DEF BudgetInv
  <1>1. CASE DoMeas
    <2>1. /\ bme' = "ok" /\ at' = "getMode" /\ back' = "delay" /\ goal' = "forced"
          /\ time' = 0 /\ count' = 0
      BY <1>1 DEF DoMeas, Bme!Measure, Bme!SetOpMode
    <2>2. Base' = 0
      <3>1. Extra' = 0
        BY <1>1 DEF DoMeas, Bme!Measure, Extra
      <3>2. Base' = count' * Per + Extra'
        BY DEF Base, Per, Bme!Wait, Bme!GetMeasDur
      <3>3. 0 * Per = 0 /\ Per \in Nat
        BY PerRange
      <3>4. QED
        BY <2>1, <3>1, <3>2, <3>3
    <2>3. time' <= Base' /\ time' <= Base' + 1
      BY <2>1, <2>2
    <2>4. QED
      BY <2>1, <2>3 DEF BudgetInv, SetsMode
  <1>2. CASE phase = "bmeMeasure" /\ CallBme
    <2>0. /\ bme = "ok"
          /\ at \in SetsMode \cup {"delay", "field", "judge", "idle", "hung"}
          /\ Bme!Step
      BY <1>2 DEF BudgetInv, CallBme
    <2>1. Base \in Nat /\ time \in Nat /\ count \in Nat /\ Per \in Nat
      BY BaseRange, PerRange
    <2>2. CASE Bme!GetMode
      <3>0. PICK mode \in Bme!Modes :
              /\ Bme!ReadMode(mode, {Bme!Call, "bmeInit"})
              /\ at' = IF mode # "sleep" THEN "putToSleep"
                       ELSE IF goal = "sleep" THEN back ELSE "setMode"
        BY <2>2 DEF Bme!GetMode
      <3>1. PICK ok \in BOOLEAN :
              /\ Bme!Acknowledged(ok, {Bme!Call, "bmeInit"})
              /\ ok => mode = chip.mode
        BY <3>0 DEF Bme!ReadMode
      <3>2. /\ at = "getMode" /\ UNCHANGED <<back, goal, time, bme, count, chip>>
            /\ goal = "forced" /\ back = "delay"
            /\ at' = IF mode # "sleep" THEN "putToSleep" ELSE "setMode"
        BY <1>2, <2>2, <3>0 DEF Bme!GetMode, BudgetInv, SetsMode
      <3>3. time <= Base + 1 /\ (chip.mode # "sleep" => time <= Base)
        BY <1>2, <3>2 DEF BudgetInv, SetsMode
      <3>4. (ok => Base' = Base) /\ (~ok => Base' >= Base + 1 /\ Base' \in Nat)
        <4>1. Bme!Call \in {Bme!Call, "bmeInit"}
          OBVIOUS
        <4>2. QED
          BY <2>0, <3>1, <3>2, <4>1, AcknowledgedExtra
      <3>5. time' <= Base' + 1 /\ (mode # "sleep" => time' <= Base')
        <4>1. CASE ok
          BY <2>1, <3>1, <3>2, <3>3, <3>4, <4>1
        <4>2. CASE ~ok
          BY <2>1, <3>2, <3>3, <3>4, <4>2
        <4>3. QED
          BY <4>1, <4>2
      <3>6. QED
        BY <2>0, <3>2, <3>5 DEF BudgetInv, SetsMode
    <2>3. CASE Bme!PutToSleep
      <3>1. /\ at = "putToSleep" /\ at' = "getMode" /\ time' = time + 1
            /\ UNCHANGED <<back, goal, bme, count>>
        BY <2>3 DEF Bme!PutToSleep
      <3>2. time <= Base
        BY <1>2, <3>1 DEF BudgetInv
      <3>3. \/ chip'.mode = "sleep" /\ Base' = Base
            \/ Base' >= Base + 1 /\ Base' \in Nat
        <4>1. [chip EXCEPT !.mode = "sleep", !.regs = Bme!Kept].mode = "sleep"
          BY DEF Inv, BmeInv, Bme!TypeOK, Bme!Chips
        <4>2. QED
          BY <1>2, <2>0, <2>3, <3>1, <4>1, WriteExtra DEF Bme!PutToSleep
      <3>4. time' <= Base' + 1 /\ (chip'.mode # "sleep" => time' <= Base')
        BY <2>1, <3>1, <3>2, <3>3
      <3>5. QED
        BY <1>2, <2>0, <3>1, <3>4 DEF BudgetInv, SetsMode
    <2>4. CASE Bme!SetMode
      <3>1. at = "setMode" /\ at' = back /\ UNCHANGED <<bme, time, count>>
        BY <2>4 DEF Bme!SetMode
      <3>2. time <= Base + 1 /\ back = "delay"
        BY <1>2, <3>1 DEF BudgetInv, SetsMode
      <3>3. Base' = Base \/ (Base' >= Base + 1 /\ Base' \in Nat)
        BY <1>2, <2>0, <2>4, <3>1, WriteExtra DEF Bme!SetMode
      <3>4. time' <= Base' + 1
        BY <2>1, <3>1, <3>2, <3>3
      <3>5. QED
        BY <2>0, <3>1, <3>2, <3>4 DEF BudgetInv, SetsMode
    <2>5. CASE Bme!Delay
      <3>1. /\ at = "delay" /\ at' = "field" /\ time' = time + Bme!Wait
            /\ tries' = TRIES /\ bme' = bme
        BY <2>5 DEF Bme!Delay
      <3>2. Base' = Base /\ Per' = Per
        BY <2>5 DEF Bme!Delay, Base, Extra, Per, Bme!Wait, Bme!GetMeasDur
      <3>3. time <= Base + 1
        BY <1>2, <3>1 DEF BudgetInv
      <3>4. time' + tries' <= Base' + Per'
        BY <2>1, <3>1, <3>2, <3>3, PerRange, WaitRange, BmeAssumption
      <3>5. QED
        BY <2>0, <3>1, <3>4 DEF BudgetInv, SetsMode
    <2>6. CASE Bme!ReadNewData \/ Bme!PollAgain \/ Bme!ReadStray
      <3>0. /\ at = "field"
            /\ \E g : (\E d : Bme!TakeNew(d)) \/ Bme!Poll(g)
        BY <2>6, Zenon DEF Bme!ReadNewData, Bme!PollAgain, Bme!ReadStray
      <3>1. bme' = bme /\ count' = count /\ Per' = Per /\ at = "field"
        BY <3>0 DEF Bme!TakeNew, Bme!Poll, Per, Bme!Wait, Bme!GetMeasDur
      <3>2. Base' = Base \/ (Base' >= Base + 1 /\ Base' \in Nat)
        <4>1. CASE Bme!ReadNewData \/ Bme!PollAgain
          BY <3>1, <4>1 DEF Bme!ReadNewData, Bme!PollAgain, Base, Extra
        <4>2. CASE Bme!ReadStray
          <5>1. Bme!Acknowledged(FALSE, {Bme!Call}) /\ Bme!Call \in {Bme!Call}
            BY <4>2 DEF Bme!ReadStray
          <5>2. QED
            BY <2>0, <3>1, <5>1, AcknowledgedExtra
        <4>3. QED
          BY <2>6, <4>1, <4>2
      <3>3. time + tries <= Base + Per /\ tries \in Nat
        BY <1>2, <3>1 DEF BudgetInv, Inv, BmeInv, Bme!TypeOK
      <3>4. \/ at' = "judge" /\ time' = time
            \/ /\ at' = IF tries = 1 THEN "judge" ELSE "field"
               /\ time' = time + 1 /\ tries' = tries - 1
        BY <3>0 DEF Bme!TakeNew, Bme!Poll
      <3>5. CASE at' = "judge" /\ time' = time
        <4>1. time' <= Base' + Per'
          BY <2>1, <3>1, <3>2, <3>3, <3>5
        <4>2. QED
          BY <2>0, <3>1, <3>5, <4>1 DEF BudgetInv, SetsMode
      <3>6. CASE /\ at' = IF tries = 1 THEN "judge" ELSE "field"
                 /\ time' = time + 1 /\ tries' = tries - 1
        <4>1. time' + tries' <= Base' + Per' /\ (tries = 1 => time' <= Base' + Per')
          BY <2>1, <3>1, <3>2, <3>3, <3>6
        <4>2. QED
          BY <2>0, <3>1, <3>6, <4>1 DEF BudgetInv, SetsMode
      <3>7. QED
        BY <3>4, <3>5, <3>6
    <2>7. CASE Bme!Judge
      <3>1. /\ at = "judge" /\ at' \in {"idle", "getMode"} /\ count' = count + 1
            /\ time' = time /\ bme' = bme
            /\ at' = "getMode" => back' = "delay" /\ goal' = "forced"
        BY <2>7 DEF Bme!Judge, Bme!SetOpMode
      <3>2. time <= Base + Per
        BY <1>2, <3>1 DEF BudgetInv
      <3>3. Base' = (count + 1) * Per + Extra
        BY <2>7 DEF Bme!Judge, Base, Extra, Per, Bme!Wait, Bme!GetMeasDur
      <3>4. Base' = Base + Per
        <4>1. (count + 1) * Per = count * Per + Per /\ count * Per \in Nat
          BY <2>1, Tries
        <4>2. Extra \in Nat
          BY BaseRange
        <4>3. QED
          BY <2>1, <3>3, <4>1, <4>2 DEF Base
      <3>5. time' <= Base' /\ time' <= Base' + 1
        BY <2>1, <3>1, <3>2, <3>4
      <3>6. QED
        BY <2>0, <3>1, <3>5 DEF BudgetInv, SetsMode
    <2>8. CASE Bme!Hang
      BY <1>2, <2>8 DEF Bme!Hang, Bme!driverVars, BudgetInv, SetsMode
    <2>9. ~Bme!Initialize
      BY <2>0 DEF Bme!Initialize, Bme!SoftReset, Bme!ReadId, Bme!WrongId, Bme!ReadCalib,
         Bme!GetOpMode, Bme!ReadConf, Bme!WriteConf, Bme!SetHeatrConf, Bme!ResHeat,
         Bme!GasWait, Bme!ReadGas, Bme!CtrlGas, Bme!Read, Bme!Configure, SetsMode
    <2>10. QED
      BY <2>0, <2>2, <2>3, <2>4, <2>5, <2>6, <2>7, <2>8, <2>9
      DEF Bme!Step, Bme!Sample
  <1>3. CASE phase = "bmeMeasure" /\ Finish
    <2>1. /\ UNCHANGED <<at, goal, back, bme, tries, time>> /\ Base' = Base /\ Per' = Per
          /\ chip.mode # "sleep"
      BY <1>3 DEF Finish, Bme!Finish, Bme!driverVars, Base, Extra, Per, Bme!Wait,
                  Bme!GetMeasDur
    <2>3. QED
      BY <1>3, <2>1 DEF BudgetInv, SetsMode
  <1>4. CASE UNCHANGED vars
    BY <1>4 DEF vars, bmeVars, slotVars, BudgetInv, Base, Extra, Per, Bme!Wait,
                Bme!GetMeasDur
  <1>5. QED
    BY <1>1, <1>2, <1>3, <1>4
    DEF Next, CallBme, CallPas, Finish, Reset, InitPas, EnterLoop, ReadPas, EndRead,
        Send, slotVars

\* The whole call: no more than all tries, and a unit for every fault.
LEMMA WithinBudget ==
    ASSUME Inv, BudgetInv, phase = "bmeMeasure", at # "hung"
    PROVE  time <= COUNT * Per + Extra
  <1>1. /\ Extra \in Nat /\ time \in Nat /\ Per \in Nat /\ 1 <= Per
        /\ Base = count * Per + Extra
    BY BaseRange, PerRange, BmeAssumption, WaitRange DEF Base
  <1>2. CASE at = "idle"
    <2>1. count \in Nat /\ COUNT \in Nat /\ count <= COUNT
      BY BmeAssumption DEF Inv, BmeInv, Bme!TypeOK
    <2>2. count * Per <= COUNT * Per /\ count * Per \in Nat /\ COUNT * Per \in Nat
      BY <2>1, Tries
    <2>3. time <= Base
      BY <1>2 DEF BudgetInv
    <2>4. QED
      BY <1>1, <2>2, <2>3
  <1>3. CASE at # "idle"
    <2>1. count \in Nat /\ COUNT \in Nat /\ count + 1 <= COUNT
      <3>1. count \in 0 .. COUNT - 1
        BY <1>3, Counting DEF Inv
      <3>2. QED
        BY <3>1, BmeAssumption
    <2>2. /\ count * Per \in Nat /\ COUNT * Per \in Nat
          /\ (count + 1) * Per = count * Per + Per
          /\ (count + 1) * Per <= COUNT * Per
      BY <2>1, Tries
    <2>3. time <= Base + 1 \/ time <= Base + Per
          \/ (time + tries <= Base + Per /\ tries \in Nat)
      <3>1. tries \in Nat
        BY DEF Inv, BmeInv, Bme!TypeOK
      <3>2. at \in SetsMode \cup {"delay", "field", "judge"}
        BY <1>3 DEF BudgetInv
      <3>3. QED
        BY <3>1, <3>2 DEF BudgetInv
    <2>4. QED
      BY <1>1, <2>2, <2>3
  <1>4. QED
    BY <1>2, <1>3

\* bmeMeasure takes at most all its tries and a poll for every fault, for every
\* number of tries and polls and every heater duration.
THEOREM InTimeHolds == Spec => []InTime
  <1>1. Init => BudgetInv
    BY DEF Init, BudgetInv
  <1>2. Inv /\ BudgetInv => InTime
    <2> SUFFICES ASSUME Inv, BudgetInv, phase = "bmeMeasure", at # "hung"
                 PROVE  time <= Bme!Longest + faults
      BY DEF InTime, Bme!InTime
    <2>1. time <= COUNT * Per + Extra /\ COUNT * Per \in Nat
      BY WithinBudget, Tries, BmeAssumption
    <2>2. Extra \in Nat /\ Extra <= faults /\ faults \in Nat /\ time \in Nat
      BY BaseRange, FaultAssumption DEF Inv, BmeInv, Bme!TypeOK
    <2>3. Bme!Longest = COUNT * Per
      BY DEF Bme!Longest, Per
    <2>4. QED
      BY <2>1, <2>2, <2>3
  <1>3. QED
    BY <1>1, <1>2, InitInv, NextInv, BudgetStep, PTL DEF Spec

----------------------------------------------------------------------------
(* What bmeMeasure returns *)

\* A measurement is only made, and set_op_mode only returns to it, after bmeInit.
PlaceInv ==
    /\ at \in {"delay", "field", "judge"} => bme = "ok"
    /\ at \in SetsMode => (bme = "ok" <=> back = "delay")
    /\ at \in SetsMode /\ back = "delay" => goal = "forced"
    /\ bme = "ok" => at \in SetsMode \cup {"delay", "field", "judge", "idle", "hung"}
    /\ bme # "ok" => count = 0

\* The registers configured when the driver is at p.
Configured(p) ==
    IF p \in {"heatrConf", "resHeat"} THEN {"conf"}
    ELSE IF p = "gasWait" THEN {"conf", "res_heat"}
    ELSE IF p \in {"readGas", "ctrlGas"} THEN {"conf", "res_heat", "gas_wait"}
    ELSE IF bme = "ok" /\ p \in {"delay", "field", "judge", "idle"} THEN Bme!Registers
    ELSE {}

ConfInv ==
    "bmeInit" \notin lost =>
        Configured(IF at \in SetsMode THEN back ELSE at) \subseteq chip.regs

\* New values are those of this try, unless the write that started it was lost.
FreshInv ==
    "bmeMeasure" \notin lost =>
        /\ at \in {"delay", "field"} =>
              /\ chip.running = count + 1
              /\ chip.new => chip.of = count + 1
        /\ at = "judge" /\ data.new => data.of = count + 1
        /\ at = "idle" /\ count \in 1 .. COUNT - 1 =>
              data = [new |-> TRUE, good |-> TRUE, of |-> count]

\* A mode read from another register is remembered, and with it the loss of what
\* was configured.
StrayInv == stray => "bmeInit" \in lost

MeasInv == PlaceInv /\ ConfInv /\ FreshInv /\ StrayInv

\* Nothing that was lost is forgotten.
LEMMA LostStays ==
    ASSUME NEW CONSTANT ok \in BOOLEAN, NEW STATE calls, Bme!Acknowledged(ok, calls)
    PROVE  /\ lost \subseteq lost'
           /\ ok => lost' = lost
           /\ ~ok => calls \subseteq lost'
  BY DEF Bme!Acknowledged

\* In bmeInit a write either arrives or is remembered as lost.
LEMMA InitWrites ==
    ASSUME bme # "ok", NEW STATE c, Bme!Write(c), "bmeInit" \notin lost'
    PROVE  chip' = c /\ lost' = lost
  <1>1. PICK ok \in BOOLEAN :
           Bme!Acknowledged(ok, {Bme!Call}) /\ chip' = IF ok THEN c ELSE chip
    BY DEF Bme!Write
  <1>2. "bmeInit" \in {Bme!Call}
    BY DEF Bme!Call
  <1>3. QED
    BY <1>1, <1>2, LostStays

LEMMA MeasureWrites ==
    ASSUME bme = "ok", NEW STATE c, Bme!Write(c)
    PROVE  \/ chip' = c /\ lost' = lost
           \/ chip' = chip /\ "bmeMeasure" \in lost' /\ lost \subseteq lost'
  <1>1. PICK ok \in BOOLEAN :
           Bme!Acknowledged(ok, {Bme!Call}) /\ chip' = IF ok THEN c ELSE chip
    BY DEF Bme!Write
  <1>2. "bmeMeasure" \in {Bme!Call}
    BY DEF Bme!Call
  <1>3. QED
    BY <1>1, <1>2, LostStays

\* Whatever happens to a write, nothing that was lost is forgotten, and the sensor
\* is what it was or what it is to be.
LEMMA AnyWrite ==
    ASSUME NEW STATE c, Bme!Write(c)
    PROVE  (chip' = c \/ chip' = chip) /\ lost \subseteq lost'
  <1>1. PICK ok \in BOOLEAN :
           Bme!Acknowledged(ok, {Bme!Call}) /\ chip' = IF ok THEN c ELSE chip
    BY DEF Bme!Write
  <1>2. QED
    BY <1>1, LostStays

\* A mode is read, or remembered as read from another register.
LEMMA ReadsMode ==
    ASSUME NEW CONSTANT mode \in Bme!Modes, NEW STATE calls,
           Bme!ReadMode(mode, calls)
    PROVE  /\ lost \subseteq lost'
           /\ stray' => calls \subseteq lost'
           /\ ~stray' => mode = chip.mode /\ lost' = lost
  <1>1. PICK ok \in BOOLEAN : /\ Bme!Acknowledged(ok, calls)
                              /\ ok => mode = chip.mode
                              /\ stray' = ~ok
    BY DEF Bme!ReadMode
  <1>2. QED
    BY <1>1, LostStays

\* bmeInit measures nothing.
LEMMA InitializePlace == Inv /\ MeasInv /\ Bme!Initialize => PlaceInv' /\ FreshInv'
  <1> SUFFICES ASSUME Inv, MeasInv, Bme!Initialize PROVE PlaceInv' /\ FreshInv'
    OBVIOUS
  <1>1. /\ at \in {"softReset", "chipId", "calib", "opMode", "readConf", "writeConf",
                   "heatrConf", "resHeat", "gasWait", "readGas", "ctrlGas"}
        /\ count' = count
        /\ \/ at' \in {"chipId", "calib", "opMode", "writeConf", "heatrConf", "gasWait",
                       "readGas", "ctrlGas"} /\ bme' = bme
           \/ /\ at' = "getMode" /\ bme' = bme
              /\ back' \in {"readConf", "heatrConf", "resHeat"}
           \/ at' = "idle" /\ bme' \in {"ok", "fail"}
    BY DEF Bme!Initialize, Bme!SoftReset, Bme!ReadId, Bme!WrongId, Bme!ReadCalib,
       Bme!GetOpMode, Bme!ReadConf, Bme!WriteConf, Bme!SetHeatrConf, Bme!ResHeat,
       Bme!GasWait, Bme!ReadGas, Bme!CtrlGas, Bme!Read, Bme!Configure, Bme!SetOpMode,
       Bme!driverVars
  <1>2. bme # "ok" /\ count = 0
    BY <1>1 DEF MeasInv, PlaceInv, SetsMode
  <1>3. QED
    BY <1>1, <1>2 DEF PlaceInv, FreshInv, SetsMode

LEMMA InitializeStray == Inv /\ MeasInv /\ Bme!Initialize => StrayInv'
  <1> SUFFICES ASSUME Inv, MeasInv, Bme!Initialize, stray' PROVE "bmeInit" \in lost'
    BY DEF StrayInv
  <1>0. bme # "ok"
    BY DEF MeasInv, PlaceInv, Bme!Initialize, Bme!SoftReset, Bme!ReadId, Bme!WrongId,
       Bme!ReadCalib, Bme!GetOpMode, Bme!ReadConf, Bme!WriteConf, Bme!SetHeatrConf,
       Bme!ResHeat, Bme!GasWait, Bme!ReadGas, Bme!CtrlGas, Bme!Read, Bme!Configure,
       SetsMode
  <1>1. Bme!Call = "bmeInit" /\ (stray => "bmeInit" \in lost)
    BY <1>0 DEF Bme!Call, MeasInv, StrayInv
  <1>2. CASE Bme!ReadId \/ Bme!ReadCalib \/ Bme!ReadGas
    <2>1. PICK ok \in BOOLEAN : Bme!Acknowledged(ok, {Bme!Call})
      BY <1>2 DEF Bme!ReadId, Bme!ReadCalib, Bme!ReadGas, Bme!Read
    <2>2. stray' = stray
      BY <1>2 DEF Bme!ReadId, Bme!ReadCalib, Bme!ReadGas, Bme!Read, Bme!driverVars
    <2>3. QED
      BY <1>1, <2>1, <2>2, LostStays
  <1>3. CASE Bme!ReadConf
    <2>1. PICK ok \in BOOLEAN :
            Bme!Acknowledged(ok, {Bme!Call}) /\ stray' = (stray \/ ~ok)
      BY <1>3 DEF Bme!ReadConf
    <2>2. QED
      BY <1>1, <2>1, LostStays
  <1>4. CASE Bme!GetOpMode
    <2>1. PICK mode \in Bme!Modes : Bme!ReadMode(mode, {Bme!Call})
      BY <1>4 DEF Bme!GetOpMode
    <2>2. QED
      BY <1>1, <2>1, ReadsMode
  <1>5. CASE Bme!WrongId \/ Bme!SetHeatrConf
    BY <1>1, <1>5 DEF Bme!WrongId, Bme!SetHeatrConf
  <1>6. CASE Bme!SoftReset \/ Bme!WriteConf \/ Bme!ResHeat \/ Bme!GasWait
    <2>1. stray' = stray /\ \E c : Bme!Write(c)
      BY <1>6, Zenon DEF Bme!SoftReset, Bme!WriteConf, Bme!ResHeat, Bme!GasWait,
                         Bme!Configure, Bme!driverVars
    <2>2. PICK ok \in BOOLEAN : Bme!Acknowledged(ok, {Bme!Call})
      BY <2>1 DEF Bme!Write
    <2>3. QED
      BY <1>1, <2>1, <2>2, LostStays
  <1>7. CASE Bme!CtrlGas
    BY <1>7 DEF Bme!CtrlGas
  <1>8. QED
    BY <1>2, <1>3, <1>4, <1>5, <1>6, <1>7 DEF Bme!Initialize

LEMMA InitializeMeas == Inv /\ MeasInv /\ Bme!Initialize => MeasInv'
  <1> SUFFICES ASSUME Inv, MeasInv, Bme!Initialize PROVE MeasInv'
    OBVIOUS
  <1>0. bme # "ok"
    BY DEF MeasInv, PlaceInv, Bme!Initialize, Bme!SoftReset, Bme!ReadId, Bme!WrongId,
       Bme!ReadCalib, Bme!GetOpMode, Bme!ReadConf, Bme!WriteConf, Bme!SetHeatrConf,
       Bme!ResHeat, Bme!GasWait, Bme!ReadGas, Bme!CtrlGas, Bme!Read, Bme!Configure,
       SetsMode
  <1>1. PlaceInv' /\ FreshInv' /\ StrayInv'
    BY InitializePlace, InitializeStray
  <1>2. ConfInv'
    <2> SUFFICES ASSUME "bmeInit" \notin lost'
                 PROVE  (Configured(IF at \in SetsMode THEN back ELSE at)
                           \subseteq chip.regs)'
      BY DEF ConfInv
    <2>1. CASE Bme!SoftReset
      BY <2>1 DEF Bme!SoftReset, Configured, SetsMode
    <2>2. CASE Bme!ReadId \/ Bme!WrongId \/ Bme!ReadCalib \/ Bme!ReadConf
      <3>1. at' \in {"calib", "opMode", "idle", "writeConf"} /\ (at' = "idle" => bme' = "fail")
        BY <2>2 DEF Bme!ReadId, Bme!WrongId, Bme!ReadCalib, Bme!ReadConf, Bme!Read
      <3>2. QED
        BY <3>1 DEF Configured, SetsMode
    <2>3. CASE Bme!GetOpMode
      <3>1. at' = "getMode" /\ back' = "readConf"
        BY <2>3 DEF Bme!GetOpMode, Bme!SetOpMode
      <3>2. QED
        BY <3>1 DEF Configured, SetsMode
    <2>4. ASSUME NEW r, Bme!Write([chip EXCEPT !.regs = @ \cup {r}])
          PROVE  /\ chip'.regs = chip.regs \cup {r}
                 /\ "bmeInit" \notin lost
      <3>1. chip' = [chip EXCEPT !.regs = @ \cup {r}] /\ lost' = lost
        BY <1>0, <2>4, InitWrites
      <3>2. QED
        BY <3>1 DEF Inv, BmeInv, Bme!TypeOK, Bme!Chips
    <2>5. CASE Bme!WriteConf
      <3> DEFINE c == [chip EXCEPT !.regs = @ \cup {"conf"}]
      <3>0. chip' = Bme!Started(c, held)
        <4>1. Bme!Write(Bme!Started(c, held))
          BY <2>5 DEF Bme!WriteConf
        <4>2. QED
          BY <1>0, <4>1, InitWrites
      <3>1. "conf" \in chip'.regs
        <4>1. "conf" \in c.regs /\ Bme!Started(c, held).regs = c.regs
          BY DEF Bme!Started, Inv, BmeInv, Bme!TypeOK, Bme!Chips
        <4>2. QED
          BY <3>0, <4>1
      <3>2. \/ at' = "heatrConf"
            \/ at' = "getMode" /\ back' = "heatrConf"
        BY <2>5 DEF Bme!WriteConf, Bme!SetOpMode
      <3>3. QED
        BY <3>1, <3>2 DEF Configured, SetsMode
    <2>6. CASE Bme!SetHeatrConf
      BY <2>6 DEF Bme!SetHeatrConf, Bme!SetOpMode, MeasInv, ConfInv, Configured, SetsMode
    <2>7. CASE Bme!ResHeat
      BY <2>4, <2>7 DEF Bme!ResHeat, Bme!Configure, MeasInv, ConfInv, Configured, SetsMode
    <2>8. CASE Bme!GasWait
      BY <2>4, <2>8 DEF Bme!GasWait, Bme!Configure, MeasInv, ConfInv, Configured, SetsMode
    <2>9. CASE Bme!ReadGas
      <3>1. PICK ok \in BOOLEAN : Bme!Acknowledged(ok, {Bme!Call})
        BY <2>9 DEF Bme!ReadGas, Bme!Read
      <3>2. "bmeInit" \notin lost
        BY <3>1, LostStays
      <3>3. at = "readGas" /\ at' = "ctrlGas" /\ chip' = chip
        BY <2>9 DEF Bme!ReadGas, Bme!Read
      <3>4. QED
        BY <3>2, <3>3 DEF MeasInv, ConfInv, Configured, SetsMode
    <2>10. CASE Bme!CtrlGas
      BY <2>4, <2>10 DEF Bme!CtrlGas, MeasInv, ConfInv, Configured, SetsMode,
                         Bme!Registers
    <2>11. QED
      BY <2>1, <2>2, <2>3, <2>5, <2>6, <2>7, <2>8, <2>9, <2>10 DEF Bme!Initialize
  <1>3. QED
    BY <1>1, <1>2 DEF MeasInv

LEMMA SetsModeMeas ==
    Inv /\ MeasInv /\ (Bme!GetMode \/ Bme!PutToSleep \/ Bme!SetMode) => MeasInv'
  <1> SUFFICES ASSUME Inv, MeasInv, Bme!GetMode \/ Bme!PutToSleep \/ Bme!SetMode
               PROVE  MeasInv'
    OBVIOUS
  <1>0. /\ at \in SetsMode /\ UNCHANGED <<goal, back, bme, count, data>>
        /\ back \in {"idle", "readConf", "heatrConf", "resHeat", "delay"}
        /\ chip \in Bme!Chips
    BY DEF Bme!GetMode, Bme!PutToSleep, Bme!SetMode, SetsMode, Inv, BmeInv, Bme!TypeOK
  <1>1. CASE Bme!GetMode
    <2>0. PICK mode \in Bme!Modes :
            /\ Bme!ReadMode(mode, {Bme!Call, "bmeInit"})
            /\ at' = IF mode # "sleep" THEN "putToSleep"
                     ELSE IF goal = "sleep" THEN back ELSE "setMode"
      BY <1>1 DEF Bme!GetMode
    <2>1. /\ chip' = chip
          /\ \/ at' \in {"putToSleep", "setMode"}
             \/ at' = back /\ goal = "sleep"
      BY <1>1, <2>0 DEF Bme!GetMode
    <2>2. lost \subseteq lost' /\ (stray' => "bmeInit" \in lost')
      BY <2>0, ReadsMode
    <2>3. back = "delay" => at' # back
      BY <1>0, <2>1 DEF MeasInv, PlaceInv
    <2>4. PlaceInv'
      BY <1>0, <2>1, <2>3 DEF MeasInv, PlaceInv, SetsMode
    <2>5. ConfInv'
      BY <1>0, <2>1, <2>2 DEF MeasInv, ConfInv, Configured, SetsMode
    <2>6. FreshInv'
      <3>1. at' \notin {"delay", "field", "judge"} /\ (at' = "idle" => bme # "ok")
        BY <1>0, <2>1, <2>3 DEF MeasInv, PlaceInv, SetsMode
      <3>2. at' = "idle" => count = 0
        BY <3>1 DEF MeasInv, PlaceInv
      <3>3. QED
        BY <1>0, <3>1, <3>2 DEF FreshInv
    <2>7. QED
      BY <2>2, <2>4, <2>5, <2>6 DEF MeasInv, StrayInv
  <1>2. CASE Bme!PutToSleep
    <2> DEFINE c == [chip EXCEPT !.mode = "sleep", !.regs = Bme!Kept]
    <2>1. at' = "getMode" /\ Bme!Write(c) /\ c.regs = Bme!Kept /\ stray' = stray
      BY <1>0, <1>2 DEF Bme!PutToSleep, Bme!Chips
    <2>2. (chip' = c \/ chip' = chip) /\ lost \subseteq lost'
      BY <2>1, AnyWrite
    <2>3. "bmeInit" \notin lost => Bme!Kept = chip.regs
      BY DEF MeasInv, StrayInv, Bme!Kept
    <2>4. "bmeInit" \notin lost' => chip'.regs = chip.regs /\ "bmeInit" \notin lost
      BY <2>1, <2>2, <2>3
    <2>5. PlaceInv' /\ FreshInv' /\ StrayInv'
      BY <1>0, <2>1, <2>2 DEF MeasInv, PlaceInv, FreshInv, StrayInv, SetsMode
    <2>6. ConfInv'
      BY <1>0, <2>1, <2>4 DEF MeasInv, ConfInv, Configured, SetsMode
    <2>7. QED
      BY <2>5, <2>6 DEF MeasInv
  <1>3. CASE Bme!SetMode
    <2> DEFINE d == [chip EXCEPT !.regs = Bme!Kept]
               c == Bme!Started(d, goal)
    <2>1. at' = back /\ Bme!Write(c) /\ at = "setMode" /\ stray' = stray
      BY <1>3 DEF Bme!SetMode
    <2>2. /\ c.regs = Bme!Kept
          /\ goal # "sleep" => c.new = FALSE
          /\ goal # "sleep" /\ bme = "ok" => c.running = count + 1
      BY <1>0 DEF Bme!Started, Bme!Chips, Bme!Call
    <2>3. (chip' = c \/ chip' = chip) /\ lost \subseteq lost'
      BY <2>1, AnyWrite
    <2>4. "bmeInit" \notin lost => Bme!Kept = chip.regs
      BY DEF MeasInv, StrayInv, Bme!Kept
    <2>5. "bmeInit" \notin lost' => chip'.regs = chip.regs /\ "bmeInit" \notin lost
      BY <2>2, <2>3, <2>4
    <2>6. back \in {"heatrConf", "delay"}
      BY <2>1 DEF Inv, BmeInv, AsleepInv, SetsMode
    <2> HIDE DEF c
    <2>7. PlaceInv' /\ StrayInv'
      BY <1>0, <2>1, <2>3, <2>6 DEF MeasInv, PlaceInv, StrayInv, SetsMode
    <2>8. ConfInv'
      BY <1>0, <2>1, <2>5, <2>6 DEF MeasInv, ConfInv, PlaceInv, Configured, SetsMode
    <2>9. FreshInv'
      <3>1. CASE back = "delay"
        <4>1. bme = "ok" /\ goal = "forced"
          BY <1>0, <3>1 DEF MeasInv, PlaceInv
        <4>2. "bmeMeasure" \notin lost' => chip' = c
          BY <2>1, <4>1, MeasureWrites
        <4>3. QED
          BY <1>0, <2>1, <2>2, <3>1, <4>1, <4>2 DEF FreshInv
      <3>2. CASE back = "heatrConf"
        BY <2>1, <3>2 DEF FreshInv
      <3>3. QED
        BY <2>6, <3>1, <3>2
    <2>10. QED
      BY <2>7, <2>8, <2>9 DEF MeasInv
  <1>4. QED
    BY <1>1, <1>2, <1>3

\* A poll, and a read of other registers, take or keep nothing of an earlier try.
LEMMA FieldMeas ==
    ASSUME Inv, MeasInv, at = "field", UNCHANGED <<bme, back, goal, count>>,
           lost \subseteq lost', stray' = stray, chip'.regs = chip.regs,
           "bmeMeasure" \notin lost' =>
               /\ at' = "field" => /\ chip'.running = chip.running
                                   /\ chip'.new => chip.new /\ chip'.of = chip.of
               /\ at' = "judge" /\ data'.new => data'.of = count + 1,
           at' \in {"field", "judge"}
    PROVE  MeasInv'
  <1>1. PlaceInv' /\ StrayInv'
    BY DEF MeasInv, PlaceInv, StrayInv, SetsMode
  <1>2. ConfInv'
    BY DEF MeasInv, ConfInv, PlaceInv, Configured, SetsMode
  <1>3. FreshInv'
    BY DEF MeasInv, FreshInv
  <1>4. QED
    BY <1>1, <1>2, <1>3 DEF MeasInv

LEMMA SampleMeas == Inv /\ MeasInv /\ (Bme!Sample \/ Bme!Hang) => MeasInv'
  <1> SUFFICES ASSUME Inv, MeasInv, Bme!Sample \/ Bme!Hang PROVE MeasInv'
    OBVIOUS
  <1>0. /\ chip \in Bme!Chips /\ data \in Bme!Data /\ count \in Nat
    BY DEF Inv, BmeInv, Bme!TypeOK
  <1>1. CASE Bme!Delay
    <2>1. /\ at = "delay" /\ at' = "field" /\ stray' = FALSE
          /\ UNCHANGED <<goal, back, count, bme, chip, lost>>
      BY <1>1 DEF Bme!Delay
    <2>2. QED
      BY <2>1 DEF MeasInv, PlaceInv, ConfInv, FreshInv, StrayInv, Configured, SetsMode
  <1>2. CASE Bme!ReadNewData
    <2>0. Bme!TakeNew([new |-> TRUE, good |-> chip.good, of |-> chip.of])
      BY <1>2 DEF Bme!ReadNewData
    <2>1. /\ at = "field" /\ at' = "judge" /\ chip.new /\ data'.of = chip.of
          /\ UNCHANGED <<back, goal, count, bme, stray, lost>>
      BY <1>2, <2>0 DEF Bme!ReadNewData, Bme!TakeNew
    <2>2. PICK n \in BOOLEAN : chip' = [chip EXCEPT !.new = n]
      BY <1>2 DEF Bme!ReadNewData
    <2>3. chip'.regs = chip.regs
      BY <1>0, <2>2 DEF Bme!Chips
    <2>4. "bmeMeasure" \notin lost' => data'.of = count + 1
      BY <2>1 DEF MeasInv, FreshInv
    <2>5. QED
      BY <2>1, <2>3, <2>4, FieldMeas
  <1>3. CASE Bme!PollAgain
    <2>0. Bme!Poll(chip.good) /\ UNCHANGED <<chip, lost>> /\ at = "field"
      BY <1>3 DEF Bme!PollAgain
    <2>1. /\ at' \in {"field", "judge"} /\ data'.new = FALSE
          /\ UNCHANGED <<back, goal, count, bme, stray>>
      BY <1>0, <2>0 DEF Bme!Poll, Bme!Data
    <2>2. QED
      BY <2>0, <2>1, FieldMeas
  <1>4. CASE Bme!Judge
    <2>1. /\ at = "judge" /\ count' = count + 1
          /\ UNCHANGED <<chip, data, bme, lost, stray>>
          /\ \/ at' = "idle" /\ (Bme!Accepted \/ count' = COUNT)
             \/ at' = "getMode" /\ back' = "delay" /\ goal' = "forced"
      BY <1>4 DEF Bme!Judge, Bme!SetOpMode
    <2>2. PlaceInv' /\ ConfInv' /\ StrayInv'
      BY <1>0, <2>1 DEF MeasInv, PlaceInv, ConfInv, StrayInv, Configured, SetsMode
    <2>3. FreshInv'
      <3> SUFFICES ASSUME "bmeMeasure" \notin lost, at' = "idle",
                          count' \in 1 .. COUNT - 1
                   PROVE  data = [new |-> TRUE, good |-> TRUE, of |-> count']
        BY <1>0, <2>1 DEF FreshInv
      <3>1. count' # COUNT
        BY BmeAssumption
      <3>2. data.new = TRUE /\ data.good = TRUE /\ data.of = count'
        BY <1>0, <2>1, <3>1 DEF MeasInv, FreshInv, Bme!Accepted, Bme!Data
      <3>3. QED
        BY <1>0, <3>2 DEF Bme!Data
    <2>4. QED
      BY <2>2, <2>3 DEF MeasInv
  <1>5. CASE Bme!Hang
    <2>1. at' = "hung" /\ UNCHANGED <<chip, count, goal, back, bme, stray, lost>>
      BY <1>5 DEF Bme!Hang, Bme!driverVars
    <2>2. QED
      BY <1>0, <2>1
      DEF MeasInv, PlaceInv, ConfInv, FreshInv, StrayInv, Configured, SetsMode
  <1>6. CASE Bme!ReadStray
    <2>0. /\ at = "field" /\ chip' = chip
          /\ Bme!Acknowledged(FALSE, {Bme!Call})
          /\ \E g : (\E d : Bme!TakeNew(d)) \/ Bme!Poll(g)
      BY <1>6, Zenon DEF Bme!ReadStray
    <2>1. /\ at' \in {"field", "judge"}
          /\ UNCHANGED <<back, goal, count, bme, stray>>
      BY <2>0 DEF Bme!TakeNew, Bme!Poll
    <2>2. lost \subseteq lost' /\ "bmeMeasure" \in lost'
      <3>1. bme = "ok"
        BY <2>0 DEF MeasInv, PlaceInv
      <3>2. "bmeMeasure" \in {Bme!Call}
        BY <3>1 DEF Bme!Call
      <3>3. QED
        BY <2>0, <3>2, LostStays
    <2>3. QED
      BY <2>0, <2>1, <2>2, FieldMeas
  <1>7. QED
    BY <1>1, <1>2, <1>3, <1>4, <1>5, <1>6 DEF Bme!Sample

LEMMA MeasStep == Inv /\ MeasInv /\ [Next]_vars => MeasInv'
  <1> SUFFICES ASSUME Inv, MeasInv, [Next]_vars PROVE MeasInv'
    OBVIOUS
  <1>1. CASE CallBme
    BY <1>1, InitializeMeas, SetsModeMeas, SampleMeas DEF CallBme, Bme!Step
  <1>2. CASE DoMeas
    <2>1. /\ at = "idle" /\ bme = "ok" /\ at' = "getMode" /\ back' = "delay"
          /\ goal' = "forced" /\ bme' = "ok" /\ chip'.regs = chip.regs
          /\ stray' = stray /\ ("bmeInit" \notin lost' <=> "bmeInit" \notin lost)
      BY <1>2 DEF DoMeas, Bme!Measure, Bme!SetOpMode, Inv, BmeInv, Bme!TypeOK, Bme!Chips
    <2>2. QED
      BY <2>1 DEF MeasInv, PlaceInv, ConfInv, FreshInv, StrayInv, Configured, SetsMode
  <1>3. CASE Finish
    <2>0. UNCHANGED <<at, goal, back, bme, count, data, lost, stray>>
      BY <1>3 DEF Finish, Bme!Finish, Bme!driverVars
    <2>1. PICK g \in BOOLEAN :
            chip' = [chip EXCEPT !.mode = Bme!ModeAfter, !.new = TRUE, !.good = g,
                                 !.of = chip.running]
      BY <1>3, Zenon DEF Finish, Bme!Finish
    <2>2. /\ chip'.regs = chip.regs /\ chip'.running = chip.running
          /\ chip'.of = chip.running
      BY <2>1 DEF Inv, BmeInv, Bme!TypeOK, Bme!Chips
    <2>3. QED
      BY <2>0, <2>2 DEF MeasInv, PlaceInv, ConfInv, FreshInv, StrayInv, Configured
  <1>4. CASE Reset
    BY <1>4 DEF Reset, Bme!Restart, MeasInv, PlaceInv, ConfInv, FreshInv, StrayInv,
                Configured, SetsMode
  <1>5. CASE UNCHANGED bmeVars
    BY <1>5 DEF bmeVars, MeasInv, PlaceInv, ConfInv, FreshInv, StrayInv, Configured,
                SetsMode
  <1>6. CASE CallPas \/ InitPas \/ EnterLoop \/ ReadPas \/ EndRead \/ Send
    BY <1>5, <1>6, Zenon
    DEF CallPas, InitPas, EnterLoop, ReadPas, EndRead, Send, bmeVars
  <1>7. QED
    BY <1>1, <1>2, <1>3, <1>4, <1>5, <1>6 DEF Next, vars

\* A call of bmeMeasure that ends before its last try returns one whole, good
\* measurement, made by this very try of a sensor that has all its registers,
\* unless a write was lost: for every number of tries and polls and whenever
\* the controller was reset.
THEOREM MeasuredHereHolds == Spec => []MeasuredHere
  <1>1. Init => MeasInv
    BY DEF Init, Bme!Init, MeasInv, PlaceInv, ConfInv, FreshInv, StrayInv, Configured,
           SetsMode
  <1>2. Inv /\ MeasInv => MeasuredHere
    <2> SUFFICES ASSUME Inv, MeasInv, at = "idle", count \in 1 .. COUNT - 1, lost = {}
                 PROVE  /\ data = [new |-> TRUE, good |-> TRUE, of |-> count]
                        /\ chip.regs = Bme!Registers
      BY DEF MeasuredHere, Bme!MeasuredHere
    <2>1. bme = "ok"
      BY BmeAssumption DEF MeasInv, PlaceInv
    <2>2. Bme!Registers \subseteq chip.regs /\ chip.regs \subseteq Bme!Registers
      BY <2>1 DEF MeasInv, ConfInv, Configured, SetsMode, Inv, BmeInv, Bme!TypeOK,
                  Bme!Chips
    <2>3. QED
      BY <2>2 DEF MeasInv, FreshInv
  <1>3. QED
    BY <1>1, <1>2, InitInv, NextInv, MeasStep, PTL DEF Spec

----------------------------------------------------------------------------
(* Which sentences pasRead gets *)

G(s) == [kind |-> "GPGGA", sec |-> s, intact |-> TRUE]
R(s) == [kind |-> "GPRMC", sec |-> s, intact |-> TRUE]

\* Without a fault the line holds what was sent since its '$', ...
LineInv ==
    IF msg THEN \/ tok \in {2, 5} /\ line = <<>>
                \/ tok = 3 /\ line = <<G(sec)>>
                \/ tok = 6 /\ line = <<R(sec)>>
           ELSE line = <<>>

\* ... the sentence before it has been read, ...
ReadingInv ==
    \/ lines = <<>>
    \/ lines = <<<<G(sec)>>>> /\ tok = (IF msg THEN tok ELSE 4) /\ tok \in {4, 5, 6}
    \/ sec > 1 /\ lines = <<<<R(sec - 1)>>>> /\ tok = (IF msg THEN tok ELSE 1)
               /\ tok \in {1, 2, 3}

\* ... the two are of one second or of one and the next, ...
ParsingInv ==
    \E s \in Nat \ {0} :
        \/ lines = <<<<G(s)>>, <<R(s)>>>>
        \/ lines = <<<<R(s)>>, <<G(s + 1)>>>>
        \/ nmea.pos = G(s) /\ lines = <<<<R(s)>>>>
        \/ nmea.speed = R(s) /\ lines = <<<<G(s + 1)>>>>

\* ... and so are position and speed.
DoneInv ==
    \E s \in Nat \ {0} : nmea.speed = R(s) /\ nmea.pos \in {G(s), G(s + 1)}

StreamInv ==
    num = 2 /\ clean =>
        /\ sec > 0
        /\ gps # "failed"
        /\ gps = "reading" => LineInv /\ ReadingInv
        /\ gps = "parsing" => ParsingInv
        /\ gps = "ok" => DoneInv

LEMMA AppendTwo ==
    ASSUME NEW a, NEW b
    PROVE  Append(<<a>>, b) = <<a, b>> /\ Len(<<a>>) + 1 = 2
  <1>1. <<a>> \in Seq({a, b}) /\ b \in {a, b} /\ Len(<<a>>) = 1
    OBVIOUS
  <1>2. /\ Append(<<a>>, b) \in Seq({a, b}) /\ Len(Append(<<a>>, b)) = 2
        /\ Append(<<a>>, b)[1] = a /\ Append(<<a>>, b)[2] = b
    BY <1>1
  <1>3. /\ <<a, b>> \in Seq({a, b}) /\ Len(<<a, b>>) = 2
        /\ <<a, b>>[1] = a /\ <<a, b>>[2] = b
    OBVIOUS
  <1>4. \A i \in 1 .. 2 : Append(<<a>>, b)[i] = <<a, b>>[i]
    BY <1>2, <1>3
  <1>5. Append(<<a>>, b) = <<a, b>>
    BY <1>2, <1>3, <1>4, SeqEqual
  <1>6. QED
    BY <1>1, <1>5

\* After the ack the module sends a GGA and an RMC sentence every second.
LEMMA BodyIs ==
    ASSUME sec > 0, sec \in Nat, tok \in {2, 5}
    PROVE  Pas!Body = IF tok = 2 THEN G(sec) ELSE R(sec)
  <1>1. CASE tok = 2
    <2>1. (IF sec = 0 THEN "ack" ELSE IF tok = 2 THEN "GPGGA" ELSE "GPRMC") = "GPGGA"
      BY <1>1
    <2>2. QED
      BY <1>1, <2>1, Zenon DEF Pas!Body, G
  <1>2. CASE tok = 5
    <2>1. (IF sec = 0 THEN "ack" ELSE IF tok = 2 THEN "GPGGA" ELSE "GPRMC") = "GPRMC"
      BY <1>2
    <2>2. tok # 2
      BY <1>2
    <2>3. QED
      BY <2>1, <2>2, Zenon DEF Pas!Body, R
  <1>3. QED
    BY <1>1, <1>2

\* The second of two lines, as it is appended and as it is left.
LEMMA SecondLine ==
    ASSUME NEW S, NEW k \in Seq(S), NEW l \in S
    PROVE  /\ Len(k) = 1 => /\ Len(Append(k, l)) = 2
                            /\ Append(k, l)[1] = k[1] /\ Append(k, l)[2] = l
           /\ Len(k) = 2 => Len(Tail(k)) = 1 /\ Tail(k)[1] = k[2]
  <1>1. /\ Len(Append(k, l)) = Len(k) + 1
        /\ \A i \in 1 .. Len(k) : Append(k, l)[i] = k[i]
        /\ Append(k, l)[Len(k) + 1] = l
    OBVIOUS
  <1>2. Len(k) = 2 => Len(Tail(k)) = 1 /\ Tail(k)[1] = k[2]
    <2> SUFFICES ASSUME Len(k) = 2 PROVE Len(Tail(k)) = 1 /\ Tail(k)[1] = k[2]
      OBVIOUS
    <2>1. k # <<>>
      <3> SUFFICES ASSUME k = <<>> PROVE FALSE
        OBVIOUS
      <3>1. Len(<<>>) = 2
        BY Zenon
      <3>2. QED
        BY <3>1
    <2>2. Len(Tail(k)) = 1
      BY <2>1
    <2>3. Tail(k)[1] = k[2]
      BY <2>1, <2>2
    <2>4. QED
      BY <2>2, <2>3
  <1>3. QED
    BY <1>1, <1>2

LEMMA ReadingStream ==
    ASSUME PasInv, StreamInv, num = 2, clean,
           Pas!ReadDollar \/ Pas!ReadBody \/ Pas!ReadNewline
    PROVE  StreamInv'
  <1>0. /\ sec \in Nat /\ sec > 0 /\ tok \in 1 .. 6 /\ msg \in BOOLEAN
        /\ gps = "reading" /\ LineInv /\ ReadingInv /\ num' = 2 /\ Pas!Advance
    BY DEF PasInv, Pas!TypeOK, StreamInv, Pas!ReadDollar, Pas!ReadBody,
           Pas!ReadNewline, Pas!Reading
  <1>1. /\ tok = 6 => tok' = 1 /\ sec' = sec + 1
        /\ tok # 6 => tok' = tok + 1 /\ sec' = sec
    BY <1>0 DEF Pas!Advance, Pas!Last
  <1>2. sec' > 0
    BY <1>0, <1>1
  <1>3. CASE Pas!ReadDollar
    <2>1. /\ tok \in {1, 4} /\ msg' = TRUE /\ gps' = "reading"
          /\ UNCHANGED <<line, lines>>
      BY <1>0, <1>3 DEF Pas!ReadDollar
    <2>2. msg = FALSE /\ line = <<>>
      BY <1>0, <2>1 DEF LineInv
    <2>3. LineInv'
      BY <1>0, <1>1, <2>1, <2>2 DEF LineInv
    <2>4. ReadingInv'
      BY <1>0, <1>1, <2>1, <2>2 DEF ReadingInv, G, R
    <2>5. QED
      BY <1>2, <2>1, <2>3, <2>4 DEF StreamInv
  <1>4. CASE Pas!ReadBody
    <2>1. /\ tok \in {2, 5} /\ gps' = "reading" /\ UNCHANGED <<msg, lines>>
          /\ line' = IF msg THEN Append(line, Pas!Body) ELSE line
      BY <1>0, <1>4 DEF Pas!ReadBody, Pas!IsBody, Pas!Store
    <2>2. Pas!Body = IF tok = 2 THEN G(sec) ELSE R(sec)
      BY <1>0, <2>1, BodyIs
    <2>3. sec' = sec /\ tok' = tok + 1
      BY <1>1, <2>1
    <2>4. LineInv'
      <3>1. CASE msg
        <4>1. line = <<>>
          BY <1>0, <2>1, <3>1 DEF LineInv
        <4>2. line' = <<Pas!Body>>
          BY <2>1, <3>1, <4>1
        <4>3. CASE tok = 2
          <5>1. tok' = 3 /\ line' = <<G(sec')>>
            BY <2>2, <2>3, <4>2, <4>3
          <5>2. QED
            BY <2>1, <3>1, <5>1 DEF LineInv
        <4>4. CASE tok = 5
          <5>1. tok' = 6 /\ line' = <<R(sec')>>
            BY <2>2, <2>3, <4>2, <4>4
          <5>2. QED
            BY <2>1, <3>1, <5>1 DEF LineInv
        <4>5. QED
          BY <2>1, <4>3, <4>4
      <3>2. CASE ~msg
        BY <1>0, <2>1, <3>2 DEF LineInv
      <3>3. QED
        BY <3>1, <3>2
    <2>5. ReadingInv'
      BY <1>0, <2>1, <2>3 DEF ReadingInv, G, R
    <2>6. QED
      BY <1>2, <2>1, <2>4, <2>5 DEF StreamInv
  <1>5. CASE Pas!ReadNewline /\ ~msg
    <2>1. tok \in {3, 6} /\ gps' = "reading" /\ UNCHANGED <<msg, line, lines>>
      BY <1>0, <1>5 DEF Pas!ReadNewline
    <2>2. lines = <<>> /\ line = <<>>
      BY <1>0, <1>5, <2>1 DEF ReadingInv, LineInv
    <2>3. QED
      BY <1>2, <1>5, <2>1, <2>2 DEF StreamInv, LineInv, ReadingInv
  <1>6. CASE Pas!ReadNewline /\ msg
    <2>1. /\ tok \in {3, 6} /\ msg' = FALSE /\ line' = <<>>
          /\ lines' = Append(lines, line)
          /\ gps' = IF Len(lines) + 1 = 2 THEN "parsing" ELSE "reading"
      BY <1>6 DEF Pas!ReadNewline, Pas!EndLine
    <2>2. line = IF tok = 3 THEN <<G(sec)>> ELSE <<R(sec)>>
      BY <1>0, <1>6, <2>1 DEF LineInv
    <2>3. CASE lines = <<>>
      <3>1. lines' = <<line>> /\ gps' = "reading"
        BY <2>1, <2>3
      <3>2. LineInv'
        BY <2>1 DEF LineInv
      <3>3. ReadingInv'
        <4>1. CASE tok = 3
          <5>1. tok' = 4 /\ lines' = <<<<G(sec')>>>>
            BY <1>1, <2>2, <3>1, <4>1
          <5>2. QED
            BY <2>1, <5>1 DEF ReadingInv
        <4>2. CASE tok = 6
          <5>1. sec' > 1 /\ sec' - 1 = sec
            BY <1>0, <1>1, <4>2
          <5>2. lines' = <<<<R(sec' - 1)>>>>
            BY <2>2, <3>1, <4>2, <5>1
          <5>3. QED
            BY <1>1, <2>1, <4>2, <5>1, <5>2 DEF ReadingInv
        <4>3. QED
          BY <2>1, <4>1, <4>2
      <3>4. QED
        BY <1>2, <3>1, <3>2, <3>3 DEF StreamInv
    <2>4. CASE lines = <<<<G(sec)>>>> /\ tok = 6
      <3>1. lines' = <<<<G(sec)>>, <<R(sec)>>>> /\ gps' = "parsing"
        BY <2>1, <2>2, <2>4, AppendTwo
      <3>2. ParsingInv'
        <4>1. sec \in Nat \ {0}
          BY <1>0
        <4>2. QED
          BY <3>1, <4>1 DEF ParsingInv
      <3>3. QED
        BY <1>2, <3>1, <3>2 DEF StreamInv
    <2>5. CASE sec > 1 /\ lines = <<<<R(sec - 1)>>>> /\ tok = 3
      <3>1. lines' = <<<<R(sec - 1)>>, <<G(sec)>>>> /\ gps' = "parsing"
        BY <2>1, <2>2, <2>5, AppendTwo
      <3>2. sec - 1 \in Nat \ {0} /\ (sec - 1) + 1 = sec
        BY <1>0, <2>5
      <3>3. ParsingInv'
        BY <3>1, <3>2 DEF ParsingInv
      <3>4. QED
        BY <1>2, <3>1, <3>3 DEF StreamInv
    <2>6. QED
      BY <1>0, <2>1, <2>3, <2>4, <2>5 DEF ReadingInv
  <1>7. QED
    BY <1>3, <1>4, <1>5, <1>6

\* Two sentences that follow each other are both parsed.
LEMMA ParsingPair ==
    ASSUME PasInv, num = 2, ParsingInv, Pas!ParseLine
    PROVE  \/ gps' = "parsing" /\ ParsingInv'
           \/ gps' = "ok" /\ DoneInv'
  <1>0. nmea \in [pos : Pas!Bodies, speed : Pas!Bodies] /\ gps = "parsing"
    BY DEF PasInv, Pas!TypeOK, Pas!ParseLine
  <1>1. PICK s \in Nat \ {0} :
        \/ lines = <<<<G(s)>>, <<R(s)>>>>
        \/ lines = <<<<R(s)>>, <<G(s + 1)>>>>
        \/ nmea.pos = G(s) /\ lines = <<<<R(s)>>>>
        \/ nmea.speed = R(s) /\ lines = <<<<G(s + 1)>>>>
    BY DEF ParsingInv
  <1> DEFINE after == IF Len(lines) = 1 THEN "ok" ELSE "parsing"
  <1>2. ASSUME NEW t \in Nat, Head(lines) = <<G(t)>>
        PROVE  nmea' = [nmea EXCEPT !.pos = G(t)] /\ gps' = after
    <2>1. Pas!First(<<G(t)>>) = G(t) /\ <<G(t)>> # <<>> /\ Len(<<G(t)>>) = 1
      BY DEF Pas!First
    <2>2. /\ Pas!First(Head(lines)).kind = "GPGGA" /\ Pas!First(Head(lines)).intact
          /\ Pas!MustFit(Head(lines))
      <3>1. G(t).kind = "GPGGA" /\ G(t).intact
        BY DEF G
      <3>2. QED
        BY <1>2, <2>1, <3>1 DEF Pas!MustFit
    <2>3. Pas!SetFields("pos", Head(lines))
      BY <2>2 DEF Pas!ParseLine, Pas!CheckSum
    <2>4. QED
      BY <1>2, <2>1, <2>2, <2>3 DEF Pas!SetFields
  <1>3. ASSUME NEW t \in Nat, Head(lines) = <<R(t)>>
        PROVE  nmea' = [nmea EXCEPT !.speed = R(t)] /\ gps' = after
    <2>1. Pas!First(<<R(t)>>) = R(t) /\ <<R(t)>> # <<>> /\ Len(<<R(t)>>) = 1
      BY DEF Pas!First
    <2>2. /\ Pas!First(Head(lines)).kind = "GPRMC" /\ Pas!First(Head(lines)).intact
          /\ Pas!MustFit(Head(lines))
      <3>1. R(t).kind = "GPRMC" /\ R(t).intact
        BY DEF R
      <3>2. QED
        BY <1>3, <2>1, <3>1 DEF Pas!MustFit
    <2>3. Pas!SetFields("speed", Head(lines))
      BY <2>2 DEF Pas!ParseLine, Pas!CheckSum
    <2>4. QED
      BY <1>3, <2>1, <2>2, <2>3 DEF Pas!SetFields
  <1>4. lines' = Tail(lines)
    BY DEF Pas!ParseLine
  <1>5. CASE lines = <<<<G(s)>>, <<R(s)>>>>
    <2>1. nmea'.pos = G(s) /\ gps' = "parsing" /\ lines' = <<<<R(s)>>>>
      BY <1>0, <1>2, <1>4, <1>5
    <2>2. QED
      BY <2>1 DEF ParsingInv
  <1>6. CASE lines = <<<<R(s)>>, <<G(s + 1)>>>>
    <2>1. nmea'.speed = R(s) /\ gps' = "parsing" /\ lines' = <<<<G(s + 1)>>>>
      BY <1>0, <1>3, <1>4, <1>6
    <2>2. QED
      BY <2>1 DEF ParsingInv
  <1>7. CASE nmea.pos = G(s) /\ lines = <<<<R(s)>>>>
    <2>1. nmea'.pos = G(s) /\ nmea'.speed = R(s) /\ gps' = "ok"
      BY <1>0, <1>3, <1>7
    <2>2. QED
      BY <2>1 DEF DoneInv
  <1>8. CASE nmea.speed = R(s) /\ lines = <<<<G(s + 1)>>>>
    <2>1. nmea'.pos = G(s + 1) /\ nmea'.speed = R(s) /\ gps' = "ok"
      BY <1>0, <1>2, <1>8
    <2>2. QED
      BY <2>1 DEF DoneInv
  <1>9. QED
    BY <1>1, <1>5, <1>6, <1>7, <1>8

LEMMA ParsingStream ==
    ASSUME PasInv, StreamInv, num = 2, clean, Pas!ParseLine
    PROVE  StreamInv'
  <1>1. ParsingInv /\ sec > 0 /\ UNCHANGED <<num, clean, sec>>
    BY DEF StreamInv, Pas!ParseLine
  <1>2. QED
    BY <1>1, ParsingPair DEF StreamInv

LEMMA StreamStep == Inv /\ StreamInv /\ [Next]_vars => StreamInv'
  <1> SUFFICES ASSUME Inv, StreamInv, [Next]_vars PROVE StreamInv'
    OBVIOUS
  <1>1. CASE CallPas
    <2>1. CASE ~clean' \/ num' # 2
      BY <2>1 DEF StreamInv
    <2>2. CASE clean' /\ num' = 2
      <3>1. num = 2 /\ clean
        BY <1>1, <2>2 DEF CallPas, Pas!Step, Pas!ReadDollar, Pas!ReadBody, Pas!ReadNewline,
           Pas!Drop, Pas!Garble, Pas!Unexpected, Pas!Silence, Pas!CheckAck, Pas!ParseLine,
           Pas!Fault
      <3>2. \/ Pas!ReadDollar \/ Pas!ReadBody \/ Pas!ReadNewline
            \/ Pas!ParseLine
        BY <1>1, <2>2, <3>1 DEF CallPas, Pas!Step, Pas!Drop, Pas!Garble, Pas!Unexpected,
           Pas!Silence, Pas!CheckAck, Pas!Fault
      <3>3. QED
        BY <3>1, <3>2, ReadingStream, ParsingStream DEF Inv
    <2>3. QED
      BY <2>1, <2>2
  <1>2. CASE \E t \in 1 .. 6 : Pas!ReadOut(2, 1, t)
    BY <1>2 DEF Pas!ReadOut, StreamInv, LineInv, ReadingInv
  <1>3. CASE num' # 2
    BY <1>3 DEF StreamInv
  <1>4. CASE UNCHANGED pasVars
    BY <1>4 DEF pasVars, StreamInv, LineInv, ReadingInv, ParsingInv, DoneInv, G, R
  <1>5. CASE InitPas \/ Reset
    BY <1>3, <1>5 DEF InitPas, Reset, Pas!PasInit, Pas!ReadOut
  <1>6. CASE ReadPas
    BY <1>2, <1>4, <1>6 DEF ReadPas, Pas!PasRead, Pas!PAS_NMEA_CNT
  <1>7. CASE CallBme \/ Finish \/ EnterLoop \/ DoMeas \/ EndRead \/ Send
    BY <1>4, <1>7, Zenon DEF CallBme, Finish, EnterLoop, DoMeas, EndRead, Send
  <1>8. QED
    BY <1>1, <1>4, <1>5, <1>6, <1>7 DEF Next, vars

\* Wherever in the stream pasRead begins, without a fault it succeeds, with the
\* two sentences of one second, or the position of the second after the speed's:
\* for every number of seconds and however long sentences take.
THEOREM ReadsAnywhereHolds == Spec => []ReadsAnywhere
  <1>1. Init => StreamInv
    BY DEF Init, Pas!Init, StreamInv
  <1>2. StreamInv => ReadsAnywhere
    <2> SUFFICES ASSUME StreamInv, gps \in {"ok", "failed"}, num = 2, clean
                 PROVE  /\ gps = "ok"
                        /\ nmea.pos.sec > 0
                        /\ nmea.speed.sec > 0
                        /\ nmea.pos.sec - nmea.speed.sec \in {0, 1}
      BY DEF ReadsAnywhere, Pas!ReadsAnywhere, Pas!PAS_NMEA_CNT
    <2>1. gps = "ok" /\ DoneInv
      BY DEF StreamInv
    <2>2. PICK s \in Nat \ {0} : nmea.speed = R(s) /\ nmea.pos \in {G(s), G(s + 1)}
      BY <2>1 DEF DoneInv
    <2>3. QED
      BY <2>1, <2>2 DEF G, R
  <1>3. QED
    BY <1>1, <1>2, InitInv, NextInv, StreamStep, PTL DEF Spec

----------------------------------------------------------------------------
(* Lines that run together *)

\* The sentence that the module sent last, and the one before.
LastSent == IF tok \in {3, 4, 5} THEN G(sec)
            ELSE IF tok = 6 THEN R(sec) ELSE R(sec - 1)

Previous == IF tok \in {3, 4, 5} THEN R(sec - 1)
            ELSE IF tok = 6 THEN G(sec) ELSE G(sec - 1)

\* A line that a second sentence ran into: it is refused.
Joined(l) == Len(l) >= 2 /\ l[1].kind \in {"GPGGA", "GPRMC"} /\ l[2].intact

\* When nothing but newlines was lost the open line holds the last sentence, or
\* more than one, ...
OpenInv ==
    \/ ~msg /\ line = <<>>
    \/ msg /\ line = <<>> /\ tok \in {2, 5}
    \/ msg /\ line = <<LastSent>> /\ LastSent.sec > 0
    \/ msg /\ Joined(line)

\* ... the line before it the sentence before, unless one of them holds more.
ReadInv ==
    \/ lines = <<>>
    \/ Len(lines) = 1 /\ Joined(lines[1])
    \/ Len(lines) = 1 /\ msg /\ Joined(line)
    \/ /\ lines = <<<<LastSent>>>> /\ LastSent.sec > 0
       /\ line = <<>> /\ (~msg => tok \in {1, 4})
    \/ /\ lines = <<<<Previous>>>> /\ Previous.sec > 0
       /\ msg /\ line = <<LastSent>>

JoinedInv == \E i \in 1 .. Len(lines) : Joined(lines[i])

WholeInv ==
    num = 2 /\ whole =>
        /\ sec > 0
        /\ gps = "reading" => OpenInv /\ ReadInv
        /\ gps = "parsing" => ParsingInv \/ JoinedInv
        /\ gps = "ok" => DoneInv

\* Only a body changes which sentence was sent last.
LEMMA SentAdvance ==
    ASSUME sec \in Nat, sec > 0, tok \in 1 .. 6, Pas!Advance
    PROVE  /\ sec' > 0
           /\ tok' = IF tok = 6 THEN 1 ELSE tok + 1
           /\ tok \notin {2, 5} => LastSent' = LastSent /\ Previous' = Previous
           /\ tok \in {2, 5} => LastSent' = Pas!Body /\ Previous' = LastSent
  <1>1. /\ tok = 6 => tok' = 1 /\ sec' = sec + 1
        /\ tok # 6 => tok' = tok + 1 /\ sec' = sec
    BY DEF Pas!Advance, Pas!Last
  <1>2. CASE tok = 6
    <2>1. sec' - 1 = sec /\ tok' = 1
      BY <1>1, <1>2
    <2>2. LastSent' = R(sec' - 1) /\ Previous' = G(sec' - 1)
      BY <2>1 DEF LastSent, Previous, G, R
    <2>3. QED
      BY <1>1, <1>2, <2>1, <2>2 DEF LastSent, Previous
  <1>3. CASE tok \in {1, 3, 4}
    <2>1. tok' = tok + 1 /\ sec' = sec
      BY <1>1, <1>3
    <2>2. QED
      BY <1>3, <2>1 DEF LastSent, Previous, G, R
  <1>4. CASE tok \in {2, 5}
    <2>1. tok' = tok + 1 /\ sec' = sec
      BY <1>1, <1>4
    <2>2. Pas!Body = IF tok = 2 THEN G(sec) ELSE R(sec)
      BY <1>4, BodyIs
    <2>3. QED
      BY <1>4, <2>1, <2>2 DEF LastSent, Previous, G, R
  <1>5. QED
    BY <1>1, <1>2, <1>3, <1>4

\* Both are sentences that are measured.
LEMMA SentTyped ==
    ASSUME sec \in Nat
    PROVE  LastSent.kind \in {"GPGGA", "GPRMC"} /\ Previous.kind \in {"GPGGA", "GPRMC"}
  BY DEF LastSent, Previous, G, R

\* The newline ends a line with the last sentence, or a joined one.
LEMMA NewlineWhole ==
    ASSUME PasInv, num = 2, sec > 0, gps = "reading", OpenInv, ReadInv, msg,
           tok \in {3, 6}, Pas!EndLine(line), Pas!Advance, num' = 2, nmea' = nmea
    PROVE  WholeInv'
  <1>0. sec \in Nat /\ tok \in 1 .. 6 /\ lines \in Seq(Seq(Pas!Bodies))
        /\ line \in Seq(Pas!Bodies)
    BY DEF PasInv, Pas!TypeOK
  <1>1. /\ sec' > 0 /\ tok' \in {1, 4}
        /\ LastSent' = LastSent /\ Previous' = Previous
    BY <1>0, SentAdvance
  <1>2. /\ lines' = Append(lines, line) /\ line' = <<>> /\ msg' = FALSE
        /\ gps' = IF Len(lines) + 1 = 2 THEN "parsing" ELSE "reading"
    BY DEF Pas!EndLine
  <1>3. (line = <<LastSent>> /\ LastSent.sec > 0) \/ Joined(line)
    BY DEF OpenInv
  <1>4. OpenInv'
    BY <1>2 DEF OpenInv
  <1>5. CASE lines = <<>>
    <2>1. lines' = <<line>> /\ gps' = "reading" /\ Len(lines') = 1 /\ lines'[1] = line
      BY <1>2, <1>5
    <2>2. ReadInv'
      <3>1. CASE Joined(line)
        <4>1. Joined(lines'[1])
          BY <2>1, <3>1
        <4>2. QED
          BY <2>1, <4>1 DEF ReadInv, Joined
      <3>2. CASE line = <<LastSent>> /\ LastSent.sec > 0
        <4>1. lines' = <<<<LastSent'>>>> /\ LastSent'.sec > 0
          BY <1>1, <2>1, <3>2
        <4>2. QED
          BY <1>1, <1>2, <4>1 DEF ReadInv
      <3>3. QED
        BY <1>3, <3>1, <3>2
    <2>3. QED
      BY <1>1, <1>4, <2>1, <2>2 DEF WholeInv
  <1>6. CASE Len(lines) = 1
    <2>0. gps' = "parsing" /\ lines' = Append(lines, line)
      BY <1>2, <1>6
    <2>1. /\ gps' = "parsing" /\ Len(lines') = 2
          /\ lines'[1] = lines[1] /\ lines'[2] = line
      <3> DEFINE k == lines
                 l == line
      <3>1. k \in Seq(Seq(Pas!Bodies)) /\ l \in Seq(Pas!Bodies) /\ Len(k) = 1
        BY <1>0, <1>6
      <3> HIDE DEF k, l
      <3>2. Len(Append(k, l)) = 2 /\ Append(k, l)[1] = k[1] /\ Append(k, l)[2] = l
        BY <3>1, SecondLine
      <3>3. QED
        BY <2>0, <3>2 DEF k, l
    <2>2. CASE Joined(lines[1]) \/ Joined(line)
      <3>1. 1 \in 1 .. Len(lines') /\ 2 \in 1 .. Len(lines')
        BY <2>1
      <3>2. Joined(lines'[1]) \/ Joined(lines'[2])
        BY <2>1, <2>2
      <3>3. JoinedInv'
        BY <3>1, <3>2 DEF JoinedInv, Joined
      <3>4. QED
        BY <1>1, <2>1, <3>3 DEF WholeInv
    <2>3. CASE lines = <<<<Previous>>>> /\ Previous.sec > 0 /\ line = <<LastSent>>
      <3>1. lines' = <<<<Previous>>, <<LastSent>>>>
        BY <1>2, <2>3, AppendTwo
      <3>2. CASE tok = 3
        <4>1. Previous = R(sec - 1) /\ LastSent = G(sec)
          BY <3>2 DEF Previous, LastSent
        <4>2. sec - 1 > 0
          BY <2>3, <4>1 DEF R
        <4>3. sec - 1 \in Nat \ {0} /\ (sec - 1) + 1 = sec
          BY <1>0, <4>2
        <4>4. ParsingInv'
          BY <3>1, <4>1, <4>3 DEF ParsingInv
        <4>5. QED
          BY <1>1, <2>1, <4>4 DEF WholeInv
      <3>3. CASE tok = 6
        <4>1. Previous = G(sec) /\ LastSent = R(sec) /\ sec \in Nat \ {0}
          BY <1>0, <3>3 DEF Previous, LastSent
        <4>2. ParsingInv'
          BY <3>1, <4>1 DEF ParsingInv
        <4>3. QED
          BY <1>1, <2>1, <4>2 DEF WholeInv
      <3>4. QED
        BY <3>2, <3>3
    <2>4. QED
      <3>1. lines # <<>> /\ ~Joined(<<>>)
        BY <1>6 DEF Joined
      <3>2. line # <<>>
        <4>1. <<LastSent>> # <<>>
          OBVIOUS
        <4>2. QED
          BY <1>3, <3>1, <4>1
      <3>3. QED
        BY <1>6, <2>2, <2>3, <3>1, <3>2 DEF ReadInv
  <1>7. Len(lines) \in {0, 1}
    <2> DEFINE k == Len(lines)
    <2>1. k < 2 /\ k \in Nat
      BY <1>0 DEF PasInv, LinesInv
    <2> HIDE DEF k
    <2>2. k \in {0, 1}
      BY <2>1
    <2>3. QED
      BY <2>2 DEF k
  <1>8. QED
    BY <1>0, <1>5, <1>6, <1>7

\* A sentence goes into an empty line or joins those that are there.
LEMMA BodyWhole ==
    ASSUME PasInv, num = 2, sec > 0, gps = "reading", OpenInv, ReadInv,
           tok \in {2, 5}, Pas!Store(Pas!Body), Pas!Advance,
           UNCHANGED <<gps, num, msg, lines, nmea>>
    PROVE  WholeInv'
  <1>0. sec \in Nat /\ tok \in 1 .. 6 /\ line \in Seq(Pas!Bodies)
    BY DEF PasInv, Pas!TypeOK
  <1>1. /\ sec' > 0 /\ tok' \in {3, 6}
        /\ LastSent' = Pas!Body /\ Previous' = LastSent
    BY <1>0, SentAdvance
  <1>2. /\ Pas!Body.intact /\ Pas!Body \in Pas!Bodies
        /\ Pas!Body.sec = sec /\ Pas!Body.kind \in {"GPGGA", "GPRMC"}
    <2>1. Pas!Body = IF tok = 2 THEN G(sec) ELSE R(sec)
      BY <1>0, BodyIs
    <2>2. QED
      BY <1>0, <2>1 DEF G, R, Pas!Bodies, Pas!Kinds
  <1>3. LastSent.kind \in {"GPGGA", "GPRMC"}
    BY <1>0, SentTyped
  <1>4. CASE ~msg
    <2>1. line' = <<>> /\ line = <<>> /\ ~msg'
      BY <1>4 DEF OpenInv, Pas!Store
    <2>2. lines = <<>> \/ (Len(lines) = 1 /\ Joined(lines[1]))
      BY <1>4 DEF ReadInv
    <2>3. OpenInv' /\ ReadInv'
      BY <2>1, <2>2 DEF OpenInv, ReadInv, Joined
    <2>4. QED
      BY <1>1, <2>3 DEF WholeInv
  <1>5. CASE msg
    <2>1. line' = Append(line, Pas!Body) /\ msg'
      BY <1>5 DEF Pas!Store
    <2>2. CASE line = <<>>
      <3>1. line' = <<LastSent'>> /\ LastSent'.sec > 0
        BY <1>1, <1>2, <2>1, <2>2
      <3>2. OpenInv'
        BY <2>1, <3>1 DEF OpenInv
      <3>3. ~Joined(line)
        BY <2>2 DEF Joined
      <3>4. line # <<LastSent>>
        BY <2>2
      <3>5. \/ lines = <<>>
            \/ Len(lines) = 1 /\ Joined(lines[1])
            \/ lines = <<<<LastSent>>>> /\ LastSent.sec > 0
        BY <3>3, <3>4 DEF ReadInv
      <3>6. ReadInv'
        BY <1>1, <2>1, <3>1, <3>5 DEF ReadInv, Joined
      <3>7. QED
        BY <1>1, <3>2, <3>6 DEF WholeInv
    <2>3. CASE line # <<>>
      <3>1. Joined(line')
        <4>1. CASE line = <<LastSent>>
          <5>1. line' = <<LastSent, Pas!Body>>
            BY <2>1, <4>1, AppendTwo
          <5>2. QED
            BY <1>2, <1>3, <5>1 DEF Joined
        <4>2. CASE Joined(line)
          <5>1. /\ Len(line') = Len(line) + 1 /\ Len(line) >= 2 /\ Len(line) \in Nat
                /\ line'[1] = line[1] /\ line'[2] = line[2]
            BY <1>0, <1>2, <2>1, <4>2 DEF Joined
          <5>2. QED
            BY <4>2, <5>1 DEF Joined
        <4>3. QED
          BY <1>5, <2>3, <4>1, <4>2 DEF OpenInv
      <3>2. OpenInv'
        BY <2>1, <3>1 DEF OpenInv, Joined
      <3>3. lines = <<>> \/ Len(lines) = 1
        BY <2>3 DEF ReadInv
      <3>4. ReadInv'
        BY <2>1, <3>1, <3>3 DEF ReadInv, Joined
      <3>5. QED
        BY <1>1, <3>2, <3>4 DEF WholeInv
    <2>4. QED
      BY <2>2, <2>3
  <1>6. QED
    BY <1>4, <1>5

\* What changes neither line nor sentence: a '$', or a newline that is lost or
\* comes before the first '$'.
LEMMA OtherWhole ==
    ASSUME PasInv, num = 2, sec > 0, gps = "reading", OpenInv, ReadInv, Pas!Advance,
           UNCHANGED <<gps, num, line, lines, nmea>>,
           \/ tok \in {1, 4} /\ msg' = TRUE
           \/ tok \in {3, 6} /\ msg' = msg
    PROVE  WholeInv'
  <1>0. sec \in Nat /\ tok \in 1 .. 6
    BY DEF PasInv, Pas!TypeOK
  <1>1. /\ sec' > 0
        /\ tok \in {1, 4} => tok' \in {2, 5}
        /\ LastSent' = LastSent /\ Previous' = Previous
    BY <1>0, SentAdvance
  <1>2. OpenInv'
    BY <1>1 DEF OpenInv, Joined
  <1>3. ReadInv'
    BY <1>1 DEF ReadInv, OpenInv, Joined
  <1>4. QED
    BY <1>1, <1>2, <1>3 DEF WholeInv

\* A joined line is refused: its fields are too many.
LEMMA JoinedFails ==
    ASSUME PasInv, num = 2, Joined(Head(lines)), Pas!ParseLine
    PROVE  gps' = "failed"
  <1> DEFINE l == Head(lines)
  <1>1. lines \in Seq(Seq(Pas!Bodies)) /\ lines # <<>>
    BY DEF PasInv, Pas!TypeOK, LinesInv, Pas!ParseLine
  <1>2. l \in Seq(Pas!Bodies)
    BY <1>1
  <1>3. /\ Len(l) >= 2 /\ Len(l) \in Nat /\ l # <<>> /\ l[2].intact
        /\ l[1].kind \in {"GPGGA", "GPRMC"}
    BY <1>2 DEF Joined
  <1>4. Pas!First(l) = l[1]
    BY <1>3 DEF Pas!First
  <1>5. ~Pas!MayFit(l)
    <2>1. 2 \in 2 .. Len(l)
      BY <1>3
    <2>2. QED
      BY <1>3, <2>1 DEF Pas!MayFit
  <1>6. Pas!First(l).kind \in {"GPGGA", "GPRMC"}
    BY <1>3, <1>4
  <1> HIDE DEF l
  <1>7. \/ ~Pas!CheckSum(l) /\ gps' = "failed"
        \/ Pas!SetFields("pos", l)
        \/ Pas!SetFields("speed", l)
    BY <1>6 DEF Pas!ParseLine, l
  <1>8. QED
    BY <1>5, <1>7 DEF Pas!SetFields

LEMMA ParsingWhole ==
    ASSUME PasInv, num = 2, whole, WholeInv, Pas!ParseLine
    PROVE  WholeInv'
  <1>1. /\ gps = "parsing" /\ sec > 0 /\ (ParsingInv \/ JoinedInv)
        /\ UNCHANGED <<num, whole, sec>>
    BY DEF WholeInv, Pas!ParseLine
  <1>2. CASE ParsingInv
    BY <1>1, <1>2, ParsingPair DEF WholeInv
  <1>3. CASE JoinedInv
    <2>0. lines \in Seq(Seq(Pas!Bodies)) /\ Len(lines) <= 2
      BY DEF PasInv, Pas!TypeOK
    <2>1. PICK i \in 1 .. Len(lines) : Joined(lines[i])
      BY <1>3 DEF JoinedInv
    <2>2. CASE i = 1
      <3>1. Head(lines) = lines[1]
        BY <2>0, <2>1
      <3>2. gps' = "failed"
        BY <2>1, <2>2, <3>1, JoinedFails
      <3>3. QED
        BY <1>1, <3>2 DEF WholeInv
    <2>3. CASE i = 2
      <3>0. lines' = Tail(lines)
        BY DEF Pas!ParseLine
      <3> DEFINE k == lines
      <3>1. k \in Seq(Seq(Pas!Bodies)) /\ Len(k) <= 2 /\ 2 \in 1 .. Len(k)
        BY <2>0, <2>1, <2>3
      <3> HIDE DEF k
      <3>2. Len(k) = 2
        <4> DEFINE n == Len(k)
        <4>1. n \in Nat /\ n <= 2 /\ 2 \in 1 .. n
          BY <3>1
        <4> HIDE DEF n
        <4>2. n = 2
          BY <4>1
        <4>3. QED
          BY <4>2 DEF n
      <3>3. <<>> \in Seq(Pas!Bodies)
        OBVIOUS
      <3>4. Len(Tail(k)) = 1 /\ Tail(k)[1] = k[2]
        BY <3>1, <3>2, <3>3, SecondLine
      <3>6. Len(lines) = 2 /\ Len(lines') = 1 /\ lines'[1] = lines[2]
        BY <3>0, <3>2, <3>4 DEF k
      <3>7. JoinedInv'
        <4>1. 1 \in 1 .. Len(lines') /\ Joined(lines'[1])
          BY <2>1, <2>3, <3>6
        <4>2. QED
          BY <4>1 DEF JoinedInv, Joined
      <3>8. gps' # "ok" /\ gps' # "reading"
        BY <3>6 DEF Pas!ParseLine, Pas!SetFields
      <3>9. QED
        BY <1>1, <3>7, <3>8 DEF WholeInv
    <2>4. QED
      BY <2>0, <2>1, <2>2, <2>3
  <1>4. QED
    BY <1>1, <1>2, <1>3

LEMMA PasWhole ==
    ASSUME PasInv, WholeInv, Pas!Step, whole', num' = 2
    PROVE  WholeInv'
  <1>1. num = 2 /\ whole
    BY DEF Pas!Step, Pas!ReadDollar, Pas!ReadBody, Pas!ReadNewline, Pas!Drop, Pas!Garble,
           Pas!Unexpected, Pas!Silence, Pas!CheckAck, Pas!ParseLine, Pas!Fault
  <1>2. ~Pas!Garble /\ ~Pas!Unexpected /\ ~Pas!Silence
    BY DEF Pas!Garble, Pas!Unexpected, Pas!Silence, Pas!Fault
  <1>3. CASE Pas!ReadDollar \/ Pas!ReadBody \/ Pas!ReadNewline \/ Pas!Drop
    <2>1. /\ gps = "reading" /\ sec > 0 /\ OpenInv /\ ReadInv /\ Pas!Advance
          /\ UNCHANGED <<num, nmea>>
      BY <1>1, <1>3 DEF WholeInv, Pas!ReadDollar, Pas!ReadBody, Pas!ReadNewline,
         Pas!Drop, Pas!Fault, Pas!Reading
    <2>2. CASE Pas!ReadDollar
      <3>1. tok \in {1, 4} /\ msg' = TRUE /\ UNCHANGED <<gps, line, lines>>
        BY <2>2 DEF Pas!ReadDollar
      <3>2. QED
        BY <1>1, <2>1, <3>1, OtherWhole
    <2>3. CASE Pas!ReadBody
      <3>1. tok \in {2, 5} /\ Pas!Store(Pas!Body) /\ UNCHANGED <<gps, msg, lines>>
        BY <2>3 DEF Pas!ReadBody, Pas!IsBody
      <3>2. QED
        BY <1>1, <2>1, <3>1, BodyWhole
    <2>4. CASE Pas!ReadNewline
      <3>1. tok \in {3, 6} /\ IF msg THEN Pas!EndLine(line)
                                       ELSE UNCHANGED <<gps, msg, line, lines>>
        BY <2>4 DEF Pas!ReadNewline
      <3>2. CASE msg
        BY <1>1, <2>1, <3>1, <3>2, NewlineWhole
      <3>3. CASE ~msg
        BY <1>1, <2>1, <3>1, <3>3, OtherWhole
      <3>4. QED
        BY <3>2, <3>3
    <2>5. CASE Pas!Drop
      <3>1. tok \in {3, 6} /\ UNCHANGED <<gps, msg, line, lines>>
        BY <2>5 DEF Pas!Drop, Pas!Fault
      <3>2. QED
        BY <1>1, <2>1, <3>1, OtherWhole
    <2>6. QED
      BY <1>3, <2>2, <2>3, <2>4, <2>5
  <1>4. CASE Pas!ParseLine
    BY <1>1, <1>4, ParsingWhole
  <1>5. ~Pas!CheckAck
    BY <1>1 DEF Pas!CheckAck
  <1>6. QED
    BY <1>2, <1>3, <1>4, <1>5 DEF Pas!Step

LEMMA WholeStep == Inv /\ WholeInv /\ [Next]_vars => WholeInv'
  <1> SUFFICES ASSUME Inv, WholeInv, [Next]_vars PROVE WholeInv'
    OBVIOUS
  <1>1. CASE CallPas
    <2>1. CASE ~whole' \/ num' # 2
      BY <2>1 DEF WholeInv
    <2>2. CASE whole' /\ num' = 2
      BY <1>1, <2>2, PasWhole DEF Inv, CallPas
    <2>3. QED
      BY <2>1, <2>2
  <1>2. CASE \E t \in 1 .. 6 : Pas!ReadOut(2, 1, t)
    BY <1>2 DEF Pas!ReadOut, WholeInv, OpenInv, ReadInv
  <1>3. CASE num' # 2
    BY <1>3 DEF WholeInv
  <1>4. CASE UNCHANGED pasVars
    BY <1>4 DEF pasVars, WholeInv, OpenInv, ReadInv, ParsingInv, JoinedInv, Joined,
                DoneInv, LastSent, Previous, G, R
  <1>5. CASE InitPas \/ Reset
    BY <1>3, <1>5 DEF InitPas, Reset, Pas!PasInit, Pas!ReadOut
  <1>6. CASE ReadPas
    BY <1>2, <1>4, <1>6 DEF ReadPas, Pas!PasRead, Pas!PAS_NMEA_CNT
  <1>7. CASE CallBme \/ Finish \/ EnterLoop \/ DoMeas \/ EndRead \/ Send
    BY <1>4, <1>7, Zenon DEF CallBme, Finish, EnterLoop, DoMeas, EndRead, Send
  <1>8. QED
    BY <1>1, <1>4, <1>5, <1>6, <1>7 DEF Next, vars

\* Sentences that run into one line because newlines were lost never pass for a
\* fix: pasRead fails, or it takes position and speed from one sentence and the
\* next, wherever in the stream it began.
THEOREM JoinedRefusedHolds == Spec => []JoinedRefused
  <1>1. Init => WholeInv
    BY DEF Init, Pas!Init, WholeInv
  <1>2. WholeInv => JoinedRefused
    <2> SUFFICES ASSUME WholeInv, gps = "ok", num = 2, whole
                 PROVE  /\ nmea.pos.sec > 0
                        /\ nmea.speed.sec > 0
                        /\ nmea.pos.sec - nmea.speed.sec \in {0, 1}
      BY DEF JoinedRefused, Pas!JoinedRefused, Pas!PAS_NMEA_CNT
    <2>1. DoneInv
      BY DEF WholeInv
    <2>2. PICK s \in Nat \ {0} : nmea.speed = R(s) /\ nmea.pos \in {G(s), G(s + 1)}
      BY <2>1 DEF DoneInv
    <2>3. QED
      BY <2>2 DEF G, R
  <1>3. QED
    BY <1>1, <1>2, InitInv, NextInv, WholeStep, PTL DEF Spec

----------------------------------------------------------------------------
(* How long the slot takes *)

\* Units until k lines are read when token t comes next, outside a line or in
\* one: the module's stream counted down to the newline that is waited for.
Outside(k, t) ==
    IF k = 1
    THEN <<Second - Sentence, 2 * Sentence, Sentence, Sentence, Second,
           Second - Sentence>>[t]
    ELSE <<Second, Second + Sentence, Second, Second, Second + Sentence,
           Second>>[t]

Inside(k, t) ==
    IF k = 1
    THEN <<Second - Sentence, Sentence, 0, Sentence, Sentence, 0>>[t]
    ELSE <<Second, 2 * Sentence, Sentence, Second, Second, Second - Sentence>>[t]

Undisturbed == clean /\ "bmeMeasure" \notin lost

\* Without faults no line is open when a '$' comes, and the time taken and the
\* time left stay within a slot.
SlotBudget ==
    /\ phase = "pasRead" /\ Undisturbed =>
         /\ num = 2 /\ sec > 0
         /\ gps \in {"reading", "parsing", "ok", "failed"}
         /\ gps = "reading" =>
              /\ Len(lines) \in {0, 1}
              /\ tok \in {1, 4} => ~msg
              /\ msg => time + Inside(2 - Len(lines), tok) <= LongestSlot
              /\ ~msg => time + Outside(2 - Len(lines), tok) <= LongestSlot
         /\ gps # "reading" => time <= LongestSlot
    /\ phase = "send" /\ Undisturbed => time <= LongestSlot

LEMMA LongestRange ==
    /\ Bme!Longest \in Nat /\ LongestSlot \in Nat
    /\ LongestSlot = Bme!Longest + Second + Sentence
    /\ Bme!Longest = COUNT * Per
  <1>1. Bme!Longest = COUNT * Per
    BY DEF Bme!Longest, Per
  <1>2. COUNT * Per \in Nat
    BY Tries, BmeAssumption
  <1>3. QED
    BY <1>1, <1>2, PasAssumption DEF LongestSlot

\* From wherever reading starts, two lines take a second and a sentence at most.
LEMMA OutsideStart ==
    \A t \in 1 .. 6 : Outside(2, t) \in 0 .. Second + Sentence
  BY PasAssumption DEF Outside

LEMMA LeftTyped ==
    \A k \in {1, 2}, t \in 1 .. 6 : Inside(k, t) \in Nat /\ Outside(k, t) \in Nat
  BY PasAssumption DEF Inside, Outside

\* The '$' of a line opens it, a body takes its time, a newline ends the line.
LEMMA LeftSteps ==
    ASSUME NEW k \in {1, 2}
    PROVE  /\ \A t \in {2, 5} : /\ Inside(k, t) = Sentence + Inside(k, t + 1)
                                /\ Outside(k, t) = Sentence + Outside(k, t + 1)
           /\ Outside(k, 1) = Second - 2 * Sentence + Inside(k, 2)
           /\ Outside(k, 4) = Inside(k, 5)
           /\ Outside(k, 3) = Outside(k, 4) /\ Outside(k, 6) = Outside(k, 1)
           /\ Inside(2, 3) = Outside(1, 4) /\ Inside(2, 6) = Outside(1, 1)
           /\ Inside(1, 3) = 0 /\ Inside(1, 6) = 0
  <1>1. CASE k = 1
    BY <1>1, PasAssumption DEF Inside, Outside
  <1>2. CASE k = 2
    BY <1>2, PasAssumption DEF Inside, Outside
  <1>3. QED
    BY <1>1, <1>2

\* Every step of an undisturbed readOut takes from the time left what it adds
\* to the time taken.
LEMMA ReadingBudget ==
    ASSUME Inv, SlotBudget, phase = "pasRead", Undisturbed,
           Pas!ReadDollar \/ Pas!ReadBody \/ Pas!ReadNewline
    PROVE  /\ num' = 2 /\ sec' > 0
           /\ gps' = "reading" =>
                /\ Len(lines') \in {0, 1}
                /\ tok' \in {1, 4} => ~msg'
                /\ msg' => time' + Inside(2 - Len(lines'), tok') <= LongestSlot
                /\ ~msg' => time' + Outside(2 - Len(lines'), tok') <= LongestSlot
           /\ gps' # "reading" => gps' = "parsing" /\ time' <= LongestSlot
  <1>1. gps = "reading" /\ Pas!Advance /\ num' = num
    BY DEF Pas!ReadDollar, Pas!ReadBody, Pas!ReadNewline, Pas!Reading
  <1>2. num = 2 /\ sec > 0 /\ Len(lines) \in {0, 1} /\ (tok \in {1, 4} => ~msg)
    BY <1>1 DEF SlotBudget
  <1>3. time \in Nat /\ sec \in Nat /\ tok \in 1 .. 6 /\ msg \in BOOLEAN
    BY DEF Inv, PasInv, Pas!TypeOK
  <1>4. /\ tok' = IF tok = 6 THEN 1 ELSE tok + 1
        /\ sec' > 0
        /\ time' = time + Pas!Duration
    BY <1>1, <1>2, <1>3 DEF Pas!Advance, Pas!Last
  <1> DEFINE k == 2 - Len(lines)
  <1>5. k \in {1, 2}
    <2>1. CASE Len(lines) = 0
      BY <2>1
    <2>2. CASE Len(lines) = 1
      BY <2>2
    <2>3. QED
      BY <1>2, <2>1, <2>2
  <1>6. /\ msg => time + Inside(k, tok) <= LongestSlot
        /\ ~msg => time + Outside(k, tok) <= LongestSlot
    BY <1>1 DEF SlotBudget
  <1>7. LongestSlot \in Nat
    BY LongestRange
  <1>8. k = 2 - Len(lines)
    OBVIOUS
  <1> HIDE DEF k
  <1>9. CASE Pas!ReadDollar
    <2>1. tok \in {1, 4} /\ msg' = TRUE /\ lines' = lines /\ gps' = "reading"
      BY <1>1, <1>9 DEF Pas!ReadDollar
    <2>2. time + Outside(k, tok) <= LongestSlot
      BY <1>2, <1>6, <2>1
    <2>3. time' + Inside(k, tok') <= LongestSlot /\ tok' \notin {1, 4}
      <3>1. CASE tok = 1
        <4>1. Pas!Duration = Second - 2 * Sentence /\ tok' = 2
          BY <1>4, <3>1 DEF Pas!Duration
        <4>2. /\ Outside(k, 1) = Second - 2 * Sentence + Inside(k, 2)
              /\ Inside(k, 2) \in Nat
          BY <1>5, LeftSteps, LeftTyped
        <4>3. QED
          BY <1>3, <1>4, <1>7, <2>2, <3>1, <4>1, <4>2, PasAssumption
      <3>2. CASE tok = 4
        <4>1. Pas!Duration = 0 /\ tok' = 5
          BY <1>4, <3>2 DEF Pas!Duration, Pas!IsBody
        <4>2. Outside(k, 4) = Inside(k, 5) /\ Inside(k, 5) \in Nat
          BY <1>5, LeftSteps, LeftTyped
        <4>3. QED
          BY <1>3, <1>4, <1>7, <2>2, <3>2, <4>1, <4>2
      <3>3. QED
        BY <2>1, <3>1, <3>2
    <2>4. QED
      BY <1>1, <1>2, <1>4, <1>8, <2>1, <2>3
  <1>10. CASE Pas!ReadBody
    <2>1. tok \in {2, 5} /\ msg' = msg /\ lines' = lines /\ gps' = "reading"
      BY <1>1, <1>10 DEF Pas!ReadBody, Pas!IsBody
    <2>2. Pas!Duration = Sentence /\ tok' = tok + 1 /\ tok' \in 1 .. 6
      BY <1>4, <2>1 DEF Pas!Duration, Pas!IsBody
    <2>3. /\ Inside(k, tok) = Sentence + Inside(k, tok')
          /\ Outside(k, tok) = Sentence + Outside(k, tok')
          /\ Inside(k, tok') \in Nat /\ Outside(k, tok') \in Nat
      BY <1>5, <2>1, <2>2, LeftSteps, LeftTyped
    <2>4. /\ msg => time' + Inside(k, tok') <= LongestSlot
          /\ ~msg => time' + Outside(k, tok') <= LongestSlot
      BY <1>3, <1>4, <1>6, <1>7, <2>2, <2>3, PasAssumption
    <2>5. tok' \notin {1, 4}
      BY <2>1, <2>2
    <2>6. QED
      BY <1>1, <1>2, <1>4, <1>8, <2>1, <2>4, <2>5
  <1>11. CASE Pas!ReadNewline
    <2>1. tok \in {3, 6} /\ IF msg THEN Pas!EndLine(line)
                                     ELSE UNCHANGED <<gps, msg, line, lines>>
      BY <1>11 DEF Pas!ReadNewline
    <2>2. time' = time /\ tok' = IF tok = 3 THEN 4 ELSE 1
      BY <1>3, <1>4, <2>1 DEF Pas!Duration, Pas!IsBody
    <2>3. CASE ~msg
      <3>1. Outside(k, tok) = Outside(k, tok')
        BY <1>5, <2>1, <2>2, LeftSteps
      <3>2. ~msg' /\ lines' = lines /\ gps' = "reading"
        BY <1>1, <2>1, <2>3
      <3>3. time' + Outside(k, tok') <= LongestSlot
        BY <1>6, <2>2, <2>3, <3>1
      <3>4. QED
        BY <1>1, <1>2, <1>4, <1>8, <3>2, <3>3
    <2>4. CASE msg
      <3>1. /\ lines' = Append(lines, line) /\ ~msg'
            /\ gps' = IF Len(lines) + 1 = num THEN "parsing" ELSE "reading"
        BY <2>1, <2>4 DEF Pas!EndLine
      <3>2. Len(lines') = Len(lines) + 1
        BY <3>1 DEF Inv, PasInv, Pas!TypeOK
      <3>3. CASE k = 1
        <4>1. Inside(1, tok) = 0
          BY <1>5, <2>1, LeftSteps
        <4>2. time' <= LongestSlot
          BY <1>3, <1>6, <1>7, <2>2, <2>4, <3>3, <4>1
        <4>3. gps' = "parsing"
          BY <1>2, <1>8, <3>1, <3>3
        <4>4. QED
          BY <1>1, <1>2, <1>4, <4>2, <4>3
      <3>4. CASE k = 2
        <4>1. Inside(2, tok) = Outside(1, tok')
          BY <1>5, <2>1, <2>2, LeftSteps
        <4>2. time' + Outside(1, tok') <= LongestSlot
          BY <1>6, <2>2, <2>4, <3>4, <4>1
        <4>3. Len(lines') = 1 /\ 2 - Len(lines') = 1 /\ gps' = "reading"
          BY <1>2, <1>8, <3>1, <3>2, <3>4
        <4>4. QED
          BY <1>1, <1>2, <1>4, <3>1, <4>2, <4>3
      <3>5. QED
        BY <1>5, <3>3, <3>4
    <2>5. QED
      BY <2>3, <2>4
  <1>12. QED
    BY <1>9, <1>10, <1>11

LEMMA SlotBudgetStep ==
    Inv /\ BudgetInv /\ SlotBudget /\ [Next]_vars => SlotBudget'
  <1> SUFFICES ASSUME Inv, BudgetInv, SlotBudget, [Next]_vars, Undisturbed',
                      phase' \in {"pasRead", "send"}
               PROVE  SlotBudget'
    BY DEF SlotBudget
  <1>1. CASE phase = "pasRead" /\ CallPas
    <2>1. phase' = "pasRead" /\ "bmeMeasure" \notin lost /\ Pas!Step
      BY <1>1 DEF CallPas, slotVars, bmeVars, Undisturbed
    <2>2. ~Pas!Drop /\ ~Pas!Garble /\ ~Pas!Unexpected /\ ~Pas!Silence
      BY DEF Pas!Drop, Pas!Garble, Pas!Unexpected, Pas!Silence, Pas!Fault, Undisturbed
    <2>3. Undisturbed
      BY <2>1, <2>2
      DEF Undisturbed, Pas!Step, Pas!ReadDollar, Pas!ReadBody, Pas!ReadNewline,
          Pas!CheckAck, Pas!ParseLine
    <2>4. CASE Pas!ReadDollar \/ Pas!ReadBody \/ Pas!ReadNewline
      BY <1>1, <2>1, <2>3, <2>4, ReadingBudget DEF SlotBudget
    <2>5. CASE Pas!CheckAck
      BY <1>1, <2>3, <2>5 DEF Pas!CheckAck, SlotBudget
    <2>6. CASE Pas!ParseLine
      <3>1. /\ gps = "parsing" /\ gps' \in {"parsing", "ok", "failed"}
            /\ UNCHANGED <<num, sec, time>>
        BY <2>6 DEF Pas!ParseLine, Pas!SetFields
      <3>2. QED
        BY <1>1, <2>1, <2>3, <3>1 DEF SlotBudget
    <2>7. QED
      BY <2>1, <2>2, <2>4, <2>5, <2>6 DEF Pas!Step
  <1>2. CASE ReadPas
    <2>1. phase = "bmeMeasure" /\ at = "idle" /\ time' = time /\ lost' = lost
      BY <1>2 DEF ReadPas, bmeVars, Pas!PasRead, Pas!ReadOut
    <2>2. time <= Bme!Longest /\ time \in Nat
      <3>1. Extra = 0
        BY <2>1 DEF Undisturbed, Extra
      <3>2. time <= COUNT * Per + Extra
        BY <2>1, WithinBudget
      <3>3. QED
        BY <3>1, <3>2, LongestRange, BaseRange
    <2>3. CASE pason'
      <3>1. PICK t \in 1 .. 6 : Pas!ReadOut(2, 1, t)
        BY <1>2, <2>3 DEF ReadPas, Pas!PasRead, Pas!PAS_NMEA_CNT
      <3>2. /\ gps' = "reading" /\ num' = 2 /\ sec' = 1 /\ lines' = <<>> /\ tok' = t
            /\ msg' = FALSE
        BY <3>1 DEF Pas!ReadOut
      <3>3. Outside(2, t) \in 0 .. Second + Sentence
        BY OutsideStart
      <3>4. time' + Outside(2, t) <= LongestSlot
        <4> DEFINE left == Outside(2, t)
                   longest == Bme!Longest
        <4>1. left \in 0 .. Second + Sentence /\ longest \in Nat /\ time <= longest
          BY <2>2, <3>3, LongestRange
        <4>2. LongestSlot = longest + Second + Sentence /\ LongestSlot \in Nat
          BY LongestRange
        <4> HIDE DEF left, longest
        <4>3. time' + left <= LongestSlot
          BY <2>1, <2>2, <4>1, <4>2, PasAssumption
        <4>4. QED
          BY <4>3 DEF left
      <3>5. 2 - Len(lines') = 2 /\ Len(lines') = 0
        BY <3>2
      <3>6. phase' = "pasRead"
        BY <1>2, <2>3 DEF ReadPas
      <3>7. QED
        BY <3>2, <3>4, <3>5, <3>6 DEF SlotBudget
    <2>4. CASE ~pason'
      <3>1. phase' = "send"
        BY <1>2, <2>4 DEF ReadPas
      <3>2. time' <= LongestSlot
        BY <2>1, <2>2, LongestRange, PasAssumption
      <3>3. QED
        BY <3>1, <3>2 DEF SlotBudget
    <2>5. QED
      BY <2>3, <2>4
  <1>3. CASE EndRead
    BY <1>3 DEF EndRead, pasVars, bmeVars, Undisturbed, SlotBudget
  <1>4. CASE Finish \/ UNCHANGED vars
    <2>1. UNCHANGED <<gps, num, msg, lines, sec, tok, clean, lost, time, phase>>
      <3>1. CASE Finish
        BY <3>1, Zenon DEF Finish, Bme!Finish, Bme!driverVars, pasVars, slotVars
      <3>2. CASE UNCHANGED vars
        BY <3>2 DEF vars, pasVars, slotVars, bmeVars
      <3>3. QED
        BY <1>4, <3>1, <3>2
    <2>2. Undisturbed
      BY <2>1 DEF Undisturbed
    <2>3. QED
      BY <2>1, <2>2 DEF SlotBudget
  <1>5. QED
    BY <1>1, <1>2, <1>3, <1>4
    DEF Next, CallBme, CallPas, Reset, InitPas, EnterLoop, DoMeas, Send, slotVars

\* A slot without faults ends, with the data sent, before the next one is due:
\* for every number of tries, wherever in the GPS module's stream it begins.
THEOREM SlotInTimeHolds == Spec => []SlotInTime
  <1>1. Init => BudgetInv /\ SlotBudget
    BY DEF Init, BudgetInv, SlotBudget
  <1>2. Inv /\ SlotBudget => SlotInTime
    <2> SUFFICES ASSUME Inv, SlotBudget, phase \in {"pasRead", "send"}, Undisturbed
                 PROVE  time + SendTime < INTERVAL
      BY DEF SlotInTime, Undisturbed
    <2>1. LongestSlot \in Nat /\ time \in Nat
      BY LongestRange DEF Inv, PasInv, Pas!TypeOK
    <2>2. time <= LongestSlot
      <3>1. CASE phase = "pasRead" /\ gps = "reading"
        <4>1. /\ Len(lines) \in {0, 1}
              /\ msg => time + Inside(2 - Len(lines), tok) <= LongestSlot
              /\ ~msg => time + Outside(2 - Len(lines), tok) <= LongestSlot
          BY <3>1 DEF SlotBudget
        <4>2. tok \in 1 .. 6 /\ 2 - Len(lines) \in {1, 2}
          <5>1. tok \in 1 .. 6
            BY DEF Inv, PasInv, Pas!TypeOK
          <5>2. CASE Len(lines) = 0
            BY <5>1, <5>2
          <5>3. CASE Len(lines) = 1
            BY <5>1, <5>3
          <5>4. QED
            BY <4>1, <5>2, <5>3
        <4>3. /\ Inside(2 - Len(lines), tok) \in Nat
              /\ Outside(2 - Len(lines), tok) \in Nat
          BY <4>2, LeftTyped
        <4>4. QED
          BY <2>1, <4>1, <4>3
      <3>2. CASE ~(phase = "pasRead" /\ gps = "reading")
        BY <3>2 DEF SlotBudget
      <3>3. QED
        BY <3>1, <3>2
    <2>3. QED
      BY <2>1, <2>2, SlotAssumption
  <1>3. QED
    BY <1>1, <1>2, InitInv, NextInv, BudgetStep, SlotBudgetStep, PTL DEF Spec

----------------------------------------------------------------------------
(* The encoding of the heater's duration *)

LEMMA Powers ==
    /\ Bme!Power[0 + 1] = 1 /\ Bme!Power[1 + 1] = 4 /\ Bme!Power[2 + 1] = 16
    /\ Bme!Power[3 + 1] = 64 /\ Bme!Power[4 + 1] = 256 /\ Bme!Power[5 + 1] = 1024
  BY DEF Bme!Power

\* How often each duration is divided.
LEMMA FactorIs ==
    ASSUME NEW dur \in Nat, dur < 4032
    PROVE  Bme!Factor(dur) = IF dur < 64 THEN 0 ELSE IF dur < 256 THEN 1
                             ELSE IF dur < 1024 THEN 2 ELSE 3
  <1> DEFINE Fits(f) == dur \div Bme!Power[f + 1] <= 63
             Is(f) == Fits(f) /\ \A g \in 0 .. 5 : g < f => dur \div Bme!Power[g + 1] > 63
             factor == IF dur < 64 THEN 0 ELSE IF dur < 256 THEN 1
                       ELSE IF dur < 1024 THEN 2 ELSE 3
  <1>1. /\ dur \div Bme!Power[0 + 1] <= 63 <=> dur < 64
        /\ dur \div Bme!Power[1 + 1] <= 63 <=> dur < 256
        /\ dur \div Bme!Power[2 + 1] <= 63 <=> dur < 1024
        /\ dur \div Bme!Power[3 + 1] <= 63
        /\ \A g \in 0 .. 5 : dur \div Bme!Power[g + 1] \in Int
    BY Powers
  <1>2. factor \in {0, 1, 2, 3} /\ Is(factor)
    BY <1>1
  <1>3. ASSUME NEW h \in 0 .. 5, Is(h) PROVE h = factor
    <2>1. ~(h < factor) /\ ~(factor < h)
      BY <1>1, <1>2, <1>3
    <2>2. QED
      BY <1>2, <2>1
  <1>4. QED
    BY <1>2, <1>3 DEF Bme!Factor

\* Cutting off loses less than one of at least 16 parts.
LEMMA Quotients ==
    ASSUME NEW d \in Nat, NEW p \in {1, 4, 16, 64}, d < 64 * p,
           p = 1 \/ d >= 16 * p
    PROVE /\ d \div p \in 0 .. 63
          /\ p * (d \div p) <= d
          /\ 16 * (d - p * (d \div p)) <= d
  OBVIOUS

LEMMA Mantissa ==
    ASSUME NEW q \in 0 .. 63, NEW f \in {0, 1, 2, 3}
    PROVE  /\ (q + f * 64) % 256 = q + f * 64
           /\ (q + f * 64) % 64 = q
           /\ (q + f * 64) \div 64 = f
  OBVIOUS

LEMMA HeatsForShort ==
    ASSUME NEW dur \in Nat, dur < 4032,
           NEW f \in {0, 1, 2, 3}, NEW p \in {1, 4, 16, 64},
           f = Bme!Factor(dur), p = Bme!Power[f + 1],
           dur < 64 * p, p = 1 \/ dur >= 16 * p
    PROVE  Bme!HeatsFor(dur)
  <1> DEFINE q == dur \div p
  <1>1. q \in 0 .. 63
    BY Quotients
  <1>2. p * q <= dur /\ 16 * (dur - p * q) <= dur
    BY Quotients
  <1>3. Bme!CalcGasWait(dur) = (q + f * 64) % 256
    BY DEF Bme!CalcGasWait
  <1> HIDE DEF q
  <1>4. /\ (q + f * 64) % 256 = q + f * 64
        /\ (q + f * 64) % 64 = q
        /\ (q + f * 64) \div 64 = f
    BY <1>1, Mantissa
  <1>5. Bme!Heating(q + f * 64) = q * p
    <2>1. Bme!Heating(q + f * 64) =
             ((q + f * 64) % 64) * Bme!Power[(q + f * 64) \div 64 + 1]
      BY DEF Bme!Heating
    <2>2. QED
      BY <1>4, <2>1
  <1>6. Bme!CalcGasWait(dur) = q + f * 64
    BY <1>3, <1>4
  <1>7. q * p = p * q
    BY <1>1
  <1>8. QED
    BY <1>1, <1>2, <1>5, <1>6, <1>7 DEF Bme!HeatsFor

\* The heater burns as long as asked for, within a sixteenth, for every duration.
THEOREM HeatsForAll == \A dur \in Nat : Bme!HeatsFor(dur)
  <1> TAKE dur \in Nat
  <1>1. CASE dur >= 4032
    <2>1. Bme!CalcGasWait(dur) = 255
      BY <1>1 DEF Bme!CalcGasWait
    <2>2. Bme!Heating(255) = 4032
      BY DEF Bme!Heating, Bme!Power
    <2>3. QED
      BY <1>1, <2>1, <2>2 DEF Bme!HeatsFor
  <1>2. CASE dur < 64
    BY <1>2, FactorIs, HeatsForShort, Powers
  <1>3. CASE dur >= 64 /\ dur < 256
    BY <1>3, FactorIs, HeatsForShort, Powers
  <1>4. CASE dur >= 256 /\ dur < 1024
    BY <1>4, FactorIs, HeatsForShort, Powers
  <1>5. CASE dur >= 1024 /\ dur < 4032
    BY <1>5, FactorIs, HeatsForShort, Powers
  <1>6. QED
    BY <1>1, <1>2, <1>3, <1>4, <1>5

\* The same as the run states it.
THEOREM HeatsAsLongHolds == Spec => []HeatsAsLong
  <1>1. Bme!Boundaries \subseteq Nat
    BY DEF Bme!Boundaries
  <1>2. HeatsAsLong
    BY <1>1, HeatsForAll DEF HeatsAsLong, Bme!HeatsAsLong
  <1>3. QED
    BY <1>2, PTL

=============================================================================
