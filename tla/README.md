# avrenv in TLA+

avrenv measures the environment from a weather balloon: a transmitter logs the
measurements to an SD card and sends them by radio, a receiver turns them into
lines of text, a client on a PC POSTs the lines to a web application, and a web
page shows the last one. This directory holds TLA+ models of these programs,
the TLC configurations that check them, and proofs checked by TLAPS.

Every definition is translated from the code under `src/`; `PROJECT.json` lists
for each one the lines it stands for (`map`), what each run checks (`runs`), for
each property a plausible mistake in the code that breaks it (`mutants`), the
hazards the properties are aimed at (`hazards`), the disagreements between code
and documentation that were met (`findings`), and the theorems.

## The system

| Part | State | Operations | What it needs to get right |
|---|---|---|---|
| Transmitter main loop (`avrenv-tx/avrenv.c`) | `pitints`, `bavg`, `sdaddr` (survives resets), `radio`, `bme`, `pas`, `sdc`, watchdog, reset flags | initialization, a slot every 4 s, watchdog reset, other resets, power-on | no record overwritten, records in order, also when a reset hits the increment of the address; the watchdog resets it when it is stuck and only then |
| Measurement slot (`avrenv-tx/data.c`) | GPS enable pin, the payload | `doMeas`: sensor, GPS, radio, SD card | failures and low battery skip the right things; the payload means what the receiver reads |
| Air sensor (`bme688.c`, Bosch API in `bme68x/`, `i2c.c`) | the sensor's mode and registers, tries and polls | `bmeInit`, `bmeMeasure` | configured and started only asleep; values of this measurement, also when it answers from another register; in time; a heater duration the register can hold |
| GPS (`pa1616s.c`, USART) | the line being read, the fields read so far | `pasInit`, `pasRead` | sentences intact and of one second wherever reading begins; ends, or leaves it to the watchdog |
| Data on their way (`data.c` of three programs, `DataResource.java`) | payload, line, `env`, dataset | packing, printing, parsing, JSON, conversion | what is shown is what was measured, as far as the fields have room |
| PORTD interrupt (both boards) | `PORTD_INTFLAGS`, the flags of librfm95 | edges of DIO0 and DIO4/DIO1 | no edge lost |
| Receiver (`avrenv-rx`) | `pitints`, `rxtstart`, radio flags | `receiveData`, sleep, PIT and PORTD interrupts | every payload handled and the radio set to receive again; right duration |
| Client (`avrenv-client`) | line buffer, `env`, `token`, `tcode`, `sigint`, log file | read, parse, log, renew token, POST, stop | log complete, no mixed dataset, valid token, keeps going, stops |
| Web resource (`DataResource.java`) | atomics `current` and `lastUpdate` | `GET`, `POST /data` | an answer is the most recent dataset and says rightly whether it is fresh |
| Page (`script.js`) | what it shows | a poll every 3 s | ends up with the truth although answers are late or lost |
| Tools (`txt2gpx.c`, `cksumxor.c`) | none | file conversion | one point for each fix, at its place, on a card that is never erased |

Interactions: transmitter to receiver by radio (lossy, one way), receiver to
client by serial line (lossy when the terminal driver's buffer is full), client
to Keycloak and to the web resource by HTTPS with a timeout of 10 seconds, page
to web resource by polling. On a board, the main program and the interrupts
share volatile variables. What is hard to test: resets between any two steps of
the transmitter, between the stores of one variable included; device calls that never return; the timing of watchdog, slots
and battery; POST and GET handlers on different threads; answers and abandoned
requests that overtake each other; token life against request time; SIGINT;
sensors that measure and send on their own while transactions and characters get
lost; values at the edges of fields of one, two and four bytes.

## Modules

- `AvrenvTx` is the transmitter. `pc` is where `main` is; there is one action for
  each step between two calls that can fail or hang. `Tick` is a second: it
  advances the PIT count, the watchdog's and, while the program is busy, the
  time its slot takes. Resets run `Restart`, which is what startup code and
  `initPins` do. `sdaddr`, the reset flag and the card survive it. `sdaddr++` is
  four byte stores on this processor, so it takes two steps, and a reset between
  them finds an address of old and new bytes (`Storing`).
- `SdLog` is what the transmitter promises of the card: a log to which records are
  added, until a reset tears the address (`Tear`); from then on records may be
  written anywhere (`Misplace`). `AvrenvTx` maps its card to it: the written blocks in
  the order of their addresses (`WrittenLog`). `MCAvrenvTx` adds the batteries of the
  instance.
- `Selection` is what `WrittenLog` and the track need: the values of a function at some of
  its indices, in order, defined by the rank of an index instead of by recursion.
- `AvrenvClient` is the client with its surroundings: the receiver and the
  terminal driver's buffer (`Receive`), the signal handler (`Sigint`), Keycloak
  (`Issue`) and the web application (`PostReturns`). The token's times are kept
  as the time left, once for the client (`left`) and once for the servers (`srv`).
- `AvrenvWeb` is the web resource and the page: each handler takes the steps its
  accesses to the atomics allow, in any interleaving. POSTs come from one client,
  but one it gave up may still be carried out later.
- `AvrenvRx` is the receiver: `pc` is where the main program is, `isr` where the PORTD
  handler is. The radio (`Arrive`, `OtherEdge`), the handler's steps and the PIT
  (`Tick`) come between any two steps of the main program, and a PIT interrupt also
  in the middle of a read of `pitints`.
- `Bme688` is the air sensor with its driver, a step for each transaction on the I2C
  bus: a write may get lost unnoticed, a read may never return or, when the
  register to begin at was lost, bring the bytes of another one, and the sensor
  finishes its measurement whenever it likes. `Pa1616s` is the GPS module with its
  driver: the module sends two sentences a second, `readOut` takes them token by
  token, begun anywhere, and tokens get lost, garbled, replaced or end.
- `MeasSlot` composes the two in the order `main` and `doMeas` call them: one thread,
  one clock, one budget of faults. It supplies what `AvrenvTx` assumes of a slot:
  that it ends before the next one.
- `Codec` holds the conversions as operators: the values to the 24 bytes of the
  payload and to a record, the payload to a line, the line to `env` and JSON, JSON to
  the dataset, and a record to a point of the track. `Pipeline` composes them into
  the way of a measurement from `doMeas` to the page and to the GPX file, with losses
  and damage at every leg; `Telemetry` is what that way promises. The card of `Pipeline` is never
  erased: a power cut makes the transmitter start over among the records of earlier
  sessions (`StartOver`).
- `AvrenvTx_proofs`, `AvrenvClient_proofs`, `AvrenvWeb_proofs`, `AvrenvRx_proofs`,
  `MeasSlot_proofs` and `Pipeline_proofs` hold the theorems,
  `Selection_proofs` lemmas that two of them use.

### Correspondence

Transmitter: `InitReset` is `initReset`; `InitRadio` to `EnablePit` are `main` up
to the loop; `Due` is the condition of the loop with the battery sample and the
average; `LowBattery`, `NotReady` and `StartMeas` are the three ways through it. `sdaddr++` is
the pair `InitSdc`, `StoreReset` or `StartMeas`, `StoreMeas`: the old address goes to
`slot`, the argument of the call, and until the second step `sdaddr` holds what any
prefix of the stores, in either order of the bytes, may have made of it. `Splits` is
where its bytes begin, in values of the lowest bit. `SetBack` is the case in which that is
less than the old address, and `torn` remembers a reset in it until the next power-on.
`BmeMeasure` to `WriteMeas` are `doMeas`; `Feed` is `wdt_reset`. A device call has
three outcomes, `ok`, `fail` and `hang`: the I2C loops and `readOut` have no
timeout (`Bme688` and `Pa1616s` show how they come about). `pitints` is kept modulo 4, which divides 2^32. Addresses past the card's
end are one value, since they are refused alike. The contents of a record is not
told apart but for reset or measurement.

Client: the steps follow the loop of `main`. A line is the number the receiver
gave it and its number of fields. `env` only keeps the lines its first and last
field come from. `logged` and `taken` are compared when the client is back at
reading.

Receiver: `Test` and `Clear` are the two branches of the PORTD handler, with `|=` as what
it compiles to: a read of all flags (`loaded`) and a write of them that clears
each one that was set. `Check` to `PrintError` are `receiveData`, `Sleep` is
`sleep_mode`. `SetDur` and `SetStart` read `pitints` either whole or torn at one of the
byte boundaries `Splits`. The radio library is not part of the repository; assumed
is that `rfmIrq` takes note of a payload whichever pin called it, that
`rfmPayloadReady` reports it once, and that the radio receives no other one before
`rfmStartReceive`. The bytes of the payload are in `Codec`.
`since`, `exact` and `age` are history: the seconds since `rxtstart` was set, whether no
count has wrapped, been cut off or read torn since then, and how long the
payload has been waiting. The transmitter's PORTD handler is the same code.

Air sensor: `at` is the next transaction. `GetMode`, `PutToSleep` and `SetMode` are
`bme68x_set_op_mode`, `goal` its argument and `back` where it returns; `SoftReset` to
`CtrlGas` are `bmeInit` with `bme68x_init`, `bme68x_set_conf` and `bme68x_set_heatr_conf`;
`Delay` to `Judge` are the loop of `bmeMeasure` with `bme68x_get_data`. Reads whose
results are only used together are one transaction. `Acknowledged` is whether the
sensor took what was written, be it a value or the register to read (`i2cStartWrite`
and `i2cWrite` do not tell). `ReadMode`, `ReadConf` and `ReadStray` say what a read of
another register may look like; `held` is the mode within the configuration that is
read and written back, and `stray` that the mode at hand came from another register,
in which case writing it back spoils the configuration (`Kept`). `data` abstracts a measurement
to whether it is new and good and of which try (`of`). `GetMeasDur` and
`CalcGasWait` are the two computations whose numbers matter. `lost` and the sensor's
`of` and `running` are history.

GPS: `gps` is what the driver does. A second is six tokens, `$`, body and newline of
each sentence; `msg` and `line` are `readOut`'s variables, a line being the bodies in it,
more than one when a newline was lost. `CheckAck` ends `pasInit`, `ParseLine` is one
round of the loop of `pasRead` with `checkSum`, which is taken to recognize every
garbled body. `sec` and `tok` are the module's side; `clean` (no fault in this call) and
`whole` (nothing but newlines was lost in it) are history.

Slot: `phase` is which call `main` or `doMeas` is in. `DoMeas` needs what both
initializations returned, as `main` does; `ReadPas` skips the GPS when the battery is
too low; `Reset` is a reset at any time.

Codec: a value of w bytes is a number below `Values(w)`, a product of `BYTE`s, with the
truncation, sign and clamping of the C types. `Byte` is a shift and the cast to
`uint8_t`, `Word` the shifts and sums of `getData`; `Offsets` and `Fields` say where the
receiver and the client expect what. `Payload` is `transmitMeas`, `CardRecord` is `writeMeas`, `GetData` and
`Line` are `avrenv-rx/data.c`, `ReadData` and `ToJson` are `avrenv-client/data.c`, `Convert` is
`convert`, `Track` is `txt2gpx.c`. A number with a decimal point is the pair that is
printed. `sdaddr` counts the blocks behind the transmitter: `DoMeas` and `WriteReset`
write the next one or skip it; `before`, `written` and `stored` are history since it last
started over. `Pipeline` keeps one dataset at each place; `Damage` changes a byte and tells by
the crc flag.

Web: `Convert`, `SetLastUpdate` and `SetCurrent` are `post`; `ReadLastUpdate` and
`ReadCurrent` are `get`; `Ui` is `ui`. Times are ages up to `MAX_AGE`.

## Runs

| Run | Instance | Shows |
|---|---|---|
| `tx` | slots of 4 s, watchdog 8 s, device calls up to 3 s, 2 blocks, bytes of 2 values, one voltage per battery band | `TypeOK`, `LogOrder`, `Segmented`, `NoSpuriousReset`, `ImplementsSdLog`, `FedOnlyWhenWell`, `WedgedResets`, `Recovers` |
| `tx_torn` | the same with 3 blocks | `AddressMaintained` fails |
| `slot` | 3 tries of 2 polls, sentences and seconds of the real length, 2 faults, an interval one unit longer than the longest slot | `TypeOK`, `SlotInTime`, `ConfAsleep`, `MeasuredHere`, `InTime`, `HeatsAsLong`, `ReadsAnywhere`, `JoinedRefused` |
| `slot_sent` | 2 tries of 1 poll, 1 fault | `SentIsMeasured` fails |
| `web` | 2 POSTs, 2 concurrent GETs, `MAX_AGE` 2 | `TypeOK`, `RegularRead`, `OfflineSound`, `OnlineSound`, `PageGoesOffline` |
| `web_online` | 2 POSTs, 1 GET | `OnlineHasData` fails |
| `client` | timeout 1, margin 3, token life 4, a buffer of 1 line, lines too short, complete and too long | `TypeOK`, `TokenValid`, `NoMixedDataset`, `LogComplete`, `DataFlows`, `SigintStops` |
| `client_read` | the same without lines too long | `TerminatorInBuffer` fails |
| `rx` | counts modulo 8 and 4, reads torn at 2 and 4, durations up to 2, one PIT interrupt per awake phase, one edge of DIO4 per period | `TypeOK`, `NoEdgeLost`, `Prompt`, `DurationRight`, `BackToReceiving` |
| `rx_dur` | counts modulo 16 and 4, durations up to 3 | `DurationAlwaysRight` fails |
| `pipeline` | bytes of 8 values, degrees of 1000 parts, 5 measurements, 2 slots, a card of 2 blocks, damage to the low byte of the temperature or of the longitude | `TypeOK`, `TrackRight`, `ImplementsTelemetry` |
| `coord` | the same | `WebPositionRight` fails |

Why the bounds are enough: slot and watchdog periods are the real ones, and three
seconds is the longest slot the code's timing allows. Two blocks hold a
reset record and a measurement, or the reset records of two boots, and the address
still runs past the end; the theorems are for every size. Bytes of two values make
the address carry at every second block, so that it is torn back and torn ahead.
Battery behaviour only depends on the order of a voltage and the three
thresholds; the units of the instance stand for the bands, and averages between
them occur. Two POSTs are enough for one to be overtaken, and two polls for
answers to overtake each other. The client's times keep the code's relation, a
margin of 30 s against two timeouts of 10 s, in the smallest numbers that do: a
margin of 3 against twice 1. A buffer of one line is full whenever the client is
not reading. The receiver's counts keep the order of the code's, 2^32 above 2^16 above
255 with byte boundaries in between, so that each wraps, is cut off and torn.
A phase in which the main program is awake, one payload's output, is shorter
than a PIT period (`MaxAwake` is 1): at most one interrupt falls into it.

The unit of time of `slot` is 10 ms, the API's polling period. In the program a slot
takes at most 10 * (1 + 16 + 5) + 100 + 8 units for the sensors, and 40 are allowed for
sending and writing: 368 of 400. The instance keeps the durations and takes 3 tries
of 2 polls, enough for a first, a middle and a last one, and an interval that
leaves no unit to spare; the theorem is for all of them. Two faults put one lost
write on top of another, a read that hangs or strays after one, and make every
combination of two damaged tokens. With a fault a slot may miss the next one: a
lost `$` costs a second.

Bytes of 8 values keep the order of the code's: two bytes hold a sign, four hold
the coordinates, and humidity and altitude overflow theirs. The measurements are
one in the middle of all ranges, one below zero without a fix, one too large, and
two at the edges of rounding and sign. The pipeline stops after two slots
(`CHECK_DEADLOCK FALSE`), enough for the second to overtake or replace the first at
each place; resets and power cuts are not bounded, so that two blocks are written
over and over.

### Properties

- `LogOrder`, `Segmented`, `ImplementsSdLog`: the README's promise that "the SD card
  address is maintained so previously written records are not overwritten", for
  every failed or refused write and every reset, except one that finds the address
  half stored and set back (`torn`). One that finds it ahead only leaves a gap. That
  the exception is needed is `AddressMaintained` (`tx_torn`).
- `NoSpuriousReset`: after its first `wdt_reset` in a boot, a transmitter whose
  devices initialized and answer is not reset by the watchdog. Before that it may
  be, once: when the first PIT period ends before the loop looks at `pitints`,
  initialization plus the wait for the next slot can exceed 8 s.
- `FedOnlyWhenWell`, `WedgedResets`, `Recovers`: nothing but a slot of a transmitter that works,
  or a low battery, resets the watchdog; it is reset when stuck, and sends again when its devices
  answer and its battery holds. `Recovers` leaves out two cases in which the code does
  not promise it: boots in which the first PIT period ends early, and a battery at
  the threshold. Holding means above the threshold: the average
  is rounded down, so one just below it never gets back with samples at it.
- `ConfAsleep`, `MeasuredHere`: the sensor is only configured or started while it sleeps,
  also after a reset in the middle of a measurement and with lost writes, unless what
  was read of its mode came from another register: then a sensor that is
  measuring may look asleep and be configured; and a measurement that ends
  before the last try is whole, of that very try, and of a sensor with all its
  registers, unless a write was lost, also that of a register to read. After
  the last try anything may be returned (`SentIsMeasured`).
- `InTime`, `SlotInTime`: how long `bmeMeasure` and a slot take at most, whatever the sensors
  do: the assumption under which `NoSpuriousReset` holds.
- `HeatsAsLong`: the 6 bit mantissa and the power of 4 of the heater's register never
  heat longer than the driver waits, and at most a sixteenth shorter.
- `ReadsAnywhere`, `JoinedRefused`: reading may begin between the two sentences of a second; then
  the position is of the second after the speed's. When newlines are lost and sentences
  run together in a line, its checksum still fits, but its fields are too many: `pasRead`
  fails, or what it returns is the same as without the loss. `JoinedRefused` is about lost
  newlines only: behind a sentence of a kind `pasRead` does not look at, a line may hold
  anything (`SentIsMeasured`).
- `ImplementsTelemetry`, `TrackRight`: through six conversions by four programs the page shows
  a report of something that was measured and never a damaged payload, and the
  track has the fixes written since the transmitter last started over, in order and in
  place. On a new card that is all of it; on a used one, `txt2gpx` also converts the
  records of earlier sessions that were not overwritten, behind the last block and in
  blocks that were skipped or refused, and `TrackRight` says that nothing else is there. Nothing is said of an altitude of which
  the sign bit is set (it is sent as a 64 bit number and shown as a negative one)
  and of the fractions `WebPositionRight` is about.
- `RegularRead`, `OfflineSound`, `OnlineSound`, `PageGoesOffline`: what a GET
  may answer and the page may end up with. An answer that says online carries a
  dataset as young as it says, but for a POST that was handled during the poll and for
  two POSTs at the same time; each of these does make it carry an older one. Answers that overtake each other do take
  the page back for a moment.
- `TokenValid`: the token is good throughout a POST. The client counts the token's
  life from its arrival, up to a timeout late, and the POST may take another one.
- `NoMixedDataset`, `LogComplete`, `DataFlows`, `SigintStops`: what is sent, what is
  logged, that it goes on, and that SIGINT stops it as long as lines arrive. A
  line read after SIGINT is dropped. A dataset is not sent when the renewal of a
  token that is still valid fails.
- `NoEdgeLost`, `Prompt`, `BackToReceiving`: although the PORTD handler clears the flags of
  both pins, no payload is lost, because `rfmIrq` does not depend on the pin; one that
  arrives just before `sleep_mode` waits for the PIT, at most two periods; and
  whatever was received, the radio receives again.
- `DurationRight`: the duration is the time since the last payload, at most a PIT
  interrupt short of it, as long as `rxtstart` holds the whole count and no read was torn.

### Fairness

The transmitter's processor runs (`WF` of `Main`), time passes, and the watchdog is
hardware. `Recovers` starts from the moment the environment settles (`calm`).
The web server's threads run and the page polls; a poll may fail, but not every
one (`SF` of `Deliver`). The client's process runs and calls return within their
timeout; the receiver keeps sending complete lines, and not every one of them
finds the buffer full (`SF` of `Receive`). The receiver's processor runs, its handlers
leave the main program time (`MaxEdges` edges between two PIT interrupts), and the
PIT counts.

### Findings

- `sdaddr++` stores four bytes of memory that survives resets. A reset by the reset pin, the
  UPDI interface or the brown-out detector between two of them leaves an address such as
  0x0000 on the way from 0x00ff to 0x0100, and the card is overwritten from there. The
  window is a few cycles, once in 256 blocks.
- `convert` sets `lastUpdate` before `post` stores the dataset. A GET in between
  answers that the balloon is online with the dataset before, or with none.
- `serial_read` uses the result of `read` as an index: -1, which each SIGINT during
  a read causes, writes in front of the buffer.
- `receiveData` keeps the 32 bit `pitints` in the 16 bit `rxtstart`: from 65536 seconds on
  (18 hours) the duration stays at 255.
- After ten tries `bmeMeasure` returns success with whatever the last poll left, and
  `pasRead` does with two sentences of another kind: a slot transmits and writes
  values that no sensor measured in it.
- `toDecimalDegrees` prints the fraction of a degree without its leading zeros: with
  less than six minutes the position is up to 0.9 degrees off.

## Proofs

All theorems are about every value of the constants that the named assumptions
allow: slot time plus interval below the watchdog period, thresholds in order, a
margin and a token life of more than two timeouts, sensor and sending times that
fit the interval, at most two faults, any byte boundaries of the address, bytes of an
even number of values. Of the measurements `MeasurementAssumption` says what the drivers'
structures can hold (`int16_t`, `uint32_t`, `uint8_t`, `uint16_t`), and that a coordinate is
below half the range of its `uint32_t`, which 180 degrees are.

`AvrenvTx_proofs`: `TypeCorrect` needs bounds on the time a phase has taken
(`BusyInv`). `LogOrderHolds` and `NoOverwrite` rest on `LogInv`: unless the address was set
back, all blocks from `sdaddr` on are blank, and those from `slot` on while the address is
stored or a write is due; it holds at every step because the address is spent before
the write, and at a reset because a half stored address is either not below `slot` or sets
`torn`. `SegmentedHolds` adds
that `first` is below `sdaddr` once the SD card is initialized, and that the
first block is the reset record's. `NoSpuriousResetHolds` relates the watchdog's
count to `pitints`: in a boot that has reset the watchdog, the count exceeds the
seconds since the slot by no more than the slot took. `CardIsLog` is the refinement:
since all blocks from the running write's on are blank (`LogInv`), the block it writes
comes behind all others, so that `WrittenLog` grows at its end; a power-on begins a new
log, and no other step touches the card. Once the address was set back, every step is
`SdLog`'s `Misplace`, or none. `FedOnlyWhenWellHolds` needs that a slot is
only begun with all devices initialized (`ReadyInv`); with the bound of `TypeOK` on the
count it is the part of `WedgedResets` that is about the code, the rest is that time
passes.

`AvrenvClient_proofs`: `TokenValidHolds` rests on `TokenInv`: the client believes in
the token at most one timeout too long, a token on its way is no older than the
call, and when a POST begins more than a timeout is left. `LogCompleteHolds` and
`NoMixedDatasetHolds` rest on `LineDataInv`, which says for each place in the loop
which line the log and `env` hold.

`AvrenvRx_proofs`: `TypeCorrect` shows that the duration fits its 8 bits whatever a torn
read returns. `NoEdgeLostHolds` needs no strengthening: `NoEdgeLost` is inductive, given
the types. `PromptHolds` rests on `WaitInv`: a payload that is there has waited no
longer than the PIT interrupts of this awake phase, plus those of the one in
which it came while it has not been looked for again. All three hold for every width of
the counters, every split, and every `MaxAwake`. `DurationRightHolds` rests on `ElapsedInv`:
as long as nothing wrapped, was cut off or torn, `rxtstart` is the count at the last
payload, so that `since` is the difference; and on `DurationInv`: when the next start
is read, the duration is short by at most the awake phase.

`AvrenvWeb_proofs`: `RegularReadHolds` rests on `ReadInv`: the POSTs a POST comes
after are done, what `current` holds is outdated by none that is done, and what a GET and the page remember is done. `OfflineSoundHolds` rests on `StampInv`
and `OfflineInv`: of two POSTs in a row the later has the younger stamp, so
`lastUpdate` is no older than the stamp of any POST, unless two overlapped; and on
`Overlapped`, an overlap of POSTs that both arrived, which no later step undoes.
`OnlineSoundHolds` rests on `LatestInv`, that `lastUpdate` ages with the POST it came from, and
on `FreshInv`: a poll that read it knows with a POST also the later ones that were done
when it began; so the dataset it reads, which is not outdated (`ReadInv`), is among them. All
hold for every number of POSTs and GETs.

`MeasSlot_proofs`: `TypeCorrect` and `ConfAsleepHolds` rest on `AsleepInv`: where
`bme68x_set_op_mode` returns to tells whether the sensor may be awake there, and a mode
read from another register is remembered until it is no longer relied on.
`InTimeHolds` rests on `BudgetInv`, the time budget at each transaction, in which a
fault buys one poll; `SlotInTimeHolds` on `SlotBudget`, which adds what is left of
the stream at each token (`Outside` a line, `Inside` one). `MeasuredHereHolds` rests on
`MeasInv`: the registers written so far at each place of `bmeInit`, and from the start of
a try on, that what the sensor holds, if new, is of this try; and on `StrayInv`, that a
mode from another register counts as a write lost. `ReadsAnywhereHolds`
rests on `StreamInv`: the line is what was sent since its `$`, and the line before it
is the sentence before it. `JoinedRefusedHolds` rests on `WholeInv`: while nothing but
newlines is lost, each line is the sentence sent last or the one before it, or it is
joined, and of two lines of which one is joined, that one is refused; two that are not
follow each other. `HeatsForAll` is about the register value of every duration, `HeatsAsLongHolds` its
instance in the driver.

`Pipeline_proofs`: first the arithmetic. A number is put together from its bytes
(`DivideTwice`, `TwoDigits`, `WordOfBytes`), a signed one comes back from the unsigned number it
was cut to (`SignedOfUnsigned`), and the printed integer and fraction of a coordinate are its
position (`PositionOfDegrees`). Then the conversions, one lemma each: `GetDataOfPayload`,
`LineField`, `ReadDataOfLine`, `ConvertOfJson`, and `ReadingOfData` that all of them together
give `Report`, what was measured in its units but for rounding and clamping. Last the
system: `WayInv` says of each place between radio and page that data whose CRC flag is
set was made of a transmitted measurement, which carries `PageIsTelemetry`: the only step that
changes the page is `Ui`, and it shows such data. `TypeCorrect` follows from it, also for
damaged payloads. `TrackIsRight` rests on `TrackInv`: the records with a fix in the
blocks written since the transmitter last started over, selected in order, match the
measurements with a fix one by one, and a block with a fix that is not one of them is as
it was before. A record appends to both, because its block is behind all others
(`TrackedWithRecord`); resets leave no point (`ResetLeavesNone`), and starting over
empties both (`TrackedNothing`).

`Selection_proofs`: the i-th member of a finite set of integers exists and is unique
(`NthIn`, `RankUnique`), and an index above all others adds its value at the end
(`InOrderAppend`). Neither needs induction: the rank of a member is a cardinality.

Only model-checked: the liveness properties (`WedgedResets`, `Recovers`, `PageGoesOffline`,
`DataFlows`, `SigintStops`, `BackToReceiving`), which need fairness and `ENABLED`. Everything
else that a passing run checks is a theorem. The properties of the runs that expect
a violation are false of the code and can only be refuted, which TLC does.

## Not modelled

- librfm95, libsdc, libtft, libcurl, json-c, Quarkus and Keycloak are not part of
  the repository; they are present by what they may answer.
- Of the Bosch API: the ordering of the three fields, which only modes that the program
  never sets fill in turn, the compensation formulas, the SPI pages, the heater profiles
  and the self-test. The program calls none of them but the formulas, which keep no
  state. `bmeSetHeaterConf` is called by nothing.
- Register-level drivers (I2C, SPI, USART, timers) but for what gets lost in them.
- The ENS160 and the branch for `LORA`: both are compiled out.
- Displays, prints for debugging, page layout and the map marker; opening ports and
  files at the start; `cksumxor`; `MyEntity`, which is unused; builds and tests.
- `puts` in the client's signal handler, which may interrupt `printf` or `fprintf`: what stdio
  does inside of a call is outside of the model.
- The wake-ups of the transmitter by its PORTD interrupt: it is assumed that the radio has
  no edge left when `main` sleeps, since `transmitMeas` waits for the payload to be sent.
  (The loop would look at `pitints % INTERVAL` again, `avrenv.c:349`, and within the second
  of a slot run another one, which resets the watchdog like any.)
- A byte on the I2C bus that is lost by itself: of a write that is not acknowledged the
  sensor takes nothing, never its data for a register.
- A receiver whose radio failed to initialize only counts and sleeps until it is
  reset by hand; nothing in the code would change that.

## Plan

Done: all modules of the first plan (`AvrenvTx`, `SdLog`, `AvrenvClient`, `AvrenvWeb`, `AvrenvRx`;
`Bme688`, `Pa1616s` and `MeasSlot`; `Codec`, `Telemetry` and `Pipeline`), proofs of
all safety invariants, and of both refinements (`SdLog`, `Telemetry`).

Next: how far the duration is off, for every count, once `rxtstart` cannot hold it.
