------------------------------ MODULE Pipeline ------------------------------
(***************************************************************************)
(* The way of a measurement through the system: transmitter, radio,        *)
(* receiver, the terminal driver's buffer, client, web application and     *)
(* page, and beside it the SD card.  The conversions are those of Codec;   *)
(* each part keeps the last dataset it got.                                *)
(*                                                                         *)
(* Payloads get lost, and damaged with the receiver being told (its crc    *)
(* flag); lines, POSTs and polls get lost.  How the parts lose, wait for   *)
(* and overtake each other is in AvrenvTx, AvrenvRx, AvrenvClient and      *)
(* AvrenvWeb; here the subject is what they hand on.                       *)
(*                                                                         *)
(* Nothing ever erases the card.  A power-on, or a reset that hits the     *)
(* increment of sdaddr (see AvrenvTx), makes the transmitter start over at *)
(* another block, among records it wrote before, and a block that is not   *)
(* written for its measurement keeps what it held.                         *)
(***************************************************************************)
EXTENDS Codec

CONSTANTS
    Measurements,  \* what the sensors may return
    MaxTaken,      \* bound: slots that transmit
    CardSize,      \* blocks of the SD card
    QueueMax,      \* lines the terminal driver holds
    Damaged        \* bytes of the payload the noise hits

ASSUME PipelineAssumption ==
    /\ MaxTaken \in Nat /\ CardSize \in Nat /\ QueueMax \in Nat
    /\ Damaged \subseteq 1 .. 24

\* The types of the drivers' structures: int16_t, uint32_t, uint8_t, uint16_t.
\* A coordinate is at most 180 degrees, below half of what a uint32_t holds.
ASSUME MeasurementAssumption == \A m \in Measurements :
    /\ m.temperature \in Int
    /\ -(Values(2) \div 2) <= m.temperature /\ m.temperature < Values(2) \div 2
    /\ m.humidity \in Nat /\ m.pressure \in Nat /\ m.gas_resistance \in Nat
    /\ m.fix \in Nat /\ m.fix < Values(1)
    /\ m.sat \in Nat /\ m.sat < Values(1)
    /\ m.lat \in Nat /\ m.lat < Values(4) \div 2
    /\ m.lon \in Nat /\ m.lon < Values(4) \div 2
    /\ m.alt \in Nat
    /\ m.speed \in Nat /\ m.speed < Values(2)
    /\ m.power \in Nat /\ m.power < Values(1)
    /\ m.bavg \in Nat /\ m.bavg < Values(2)

VARIABLES
    taken,   \* history: the measurements transmitted, one a second
    radio,   \* the payload the receiver's radio module holds
    tty,     \* lines in the terminal driver's buffer
    web,     \* the web application's current dataset
    answer,  \* the answer to a poll, on its way
    page,    \* the dataset the page shows
    card,    \* the blocks of the SD card, the first one being block 1
    sdaddr,  \* how many of them are behind the transmitter
    before,  \* history: the card when the transmitter last started over
    written, \* history: the measurements written to it since
    stored   \* history: the blocks they were written to

sdvars == <<card, sdaddr, before, written, stored>>
vars == <<taken, radio, tty, web, answer, page, sdvars>>

None == <<>>

\* What a new card holds, and the record of a reset: they have fewer fields
\* than a measurement.
Blank == <<"">>

ResetRecord == <<"RESET UPDI", "SW", "WD", "EXT", "BO", "PO", "">>

Blocks == 1 .. CardSize

Time == Len(taken)

\* A new payload takes the place of one that was not read.  The card may refuse
\* the record, or the battery be too low for it, or the card have ended: no
\* block is written, but sdaddr counts on.
DoMeas ==
    /\ Time < MaxTaken
    /\ \E m \in Measurements :
          /\ taken' = Append(taken, m)
          /\ radio' = [payload |-> Payload(m), crc |-> 1]
          /\ \/ /\ sdaddr + 1 \in Blocks
                /\ card' = [card EXCEPT ![sdaddr + 1] = CardRecord(Time, m)]
                /\ written' = Append(written, m)
                /\ stored' = stored \cup {sdaddr + 1}
             \/ UNCHANGED <<card, written, stored>>
    /\ sdaddr' = sdaddr + 1
    /\ UNCHANGED <<before, tty, web, answer, page>>

\* After a reset that left the address a: its record is written, or refused, or
\* there is no card to be initialized and no address is spent.
WriteResetAt(a) ==
    \/ /\ a + 1 \in Blocks
       /\ card' = [card EXCEPT ![a + 1] = ResetRecord]
       /\ sdaddr' = a + 1
    \/ card' = card /\ sdaddr' \in {a, a + 1}

\* The transmitter was reset.  (Bound: no resets behind the end of the card.)
WriteReset ==
    /\ sdaddr < CardSize
    /\ WriteResetAt(sdaddr)
    /\ UNCHANGED <<before, written, stored, taken, radio, tty, web, answer, page>>

\* The power was cut and came back: the address is zero.  Or a reset found the
\* address half stored: it may be any.
StartOver ==
    /\ \E a \in 0 .. CardSize : WriteResetAt(a)
    /\ before' = card
    /\ written' = <<>>
    /\ stored' = {}
    /\ UNCHANGED <<taken, radio, tty, web, answer, page>>

\* A byte of the payload is received wrong: the CRC tells.
Damage ==
    /\ radio # None
    /\ radio.crc = 1
    /\ \E i \in Damaged :
          radio' = [payload |-> [radio.payload EXCEPT ![i] = (@ + 1) % BYTE],
                    crc |-> 0]
    /\ UNCHANGED <<taken, tty, web, answer, page, sdvars>>

LosePayload ==
    /\ radio # None
    /\ radio' = None
    /\ UNCHANGED <<taken, tty, web, answer, page, sdvars>>

\* The line is printed whatever the CRC; the driver's buffer may be full.
ReceiveData ==
    /\ radio # None
    /\ LET l == Line(Time, 0, 0, radio.crc, GetData(radio.payload))
       IN  tty' = IF Len(tty) < QueueMax THEN Append(tty, l) ELSE tty
    /\ radio' = None
    /\ UNCHANGED <<taken, web, answer, page, sdvars>>

\* The client reads a line and POSTs it, which may fail.
Post ==
    /\ tty # <<>>
    /\ web' \in {web, Convert(ToJson(ReadData(Head(tty))))}
    /\ tty' = Tail(tty)
    /\ UNCHANGED <<taken, radio, answer, page, sdvars>>

Poll ==
    /\ answer = None
    /\ web # None
    /\ \E online \in BOOLEAN : answer' = [online |-> online, data |-> web]
    /\ UNCHANGED <<taken, radio, tty, web, page, sdvars>>

\* Nothing but the state of the connection is shown when the balloon is offline
\* or the payload was damaged.
Ui ==
    /\ answer # None
    /\ page' = IF answer.online /\ answer.data["crc"] = 1 THEN answer.data ELSE page
    /\ answer' = None
    /\ UNCHANGED <<taken, radio, tty, web, sdvars>>

Init ==
    /\ taken = <<>> /\ tty = <<>>
    /\ radio = None /\ web = None /\ answer = None /\ page = None
    /\ card = [b \in Blocks |-> Blank] /\ sdaddr = 0
    /\ before = card /\ written = <<>> /\ stored = {}

Next ==
    \/ DoMeas \/ WriteReset \/ StartOver \/ Damage \/ LosePayload
    \/ ReceiveData \/ Post \/ Poll \/ Ui

Spec == Init /\ [][Next]_vars

----------------------------------------------------------------------------
(* Properties *)

Payloads == [1 .. 24 -> 0 .. BYTE - 1]

\* Every part holds data of the form it declares.
TypeOK ==
    /\ taken \in Seq(Measurements) /\ Len(taken) <= MaxTaken
    /\ radio # None => radio.payload \in Payloads /\ radio.crc \in {0, 1}
    /\ Len(tty) <= QueueMax
    /\ \A i \in DOMAIN tty :
          /\ Len(tty[i]) = 16
          /\ \A f \in DOMAIN Offsets :
                LET n == tty[i][Fields[f][1]] IN n = ReadField(f, n)
    /\ web # None => DOMAIN web = FieldNames
    /\ page # None => DOMAIN page = FieldNames

\* What w bytes have room for.
Room(n, w) == IF n > Values(w) - 1 THEN Values(w) - 1 ELSE n

\* Above half the range of its two bytes the altitude is not to be told from a
\* negative one, and a fraction of a degree of less than a tenth is printed
\* without its zeros: of those nothing is said here.
Unclear == -1

Tell(p) ==
    IF p % FRACTION = 0 \/ 10 * (p % FRACTION) >= FRACTION THEN p ELSE Unclear

\* What a reader is to learn of a measurement: the values in their units, as
\* far as the payload has room for them, and the coordinates in decimal degrees.
Report(m) ==
    [temperature |-> m.temperature,
     humidity |-> Room((m.humidity + 500) \div 1000, 1),
     pressure |-> Room((m.pressure + 50) \div 100, 2),
     gasres   |-> Room((m.gas_resistance + 500) \div 1000, 2),
     fix |-> m.fix, sat |-> m.sat, speed |-> m.speed, power |-> m.power,
     voltage |-> m.bavg,
     alt |-> IF m.alt < 5 * Values(2) - 5 THEN (m.alt + 5) \div 10 ELSE Unclear,
     lat |-> Tell(Position(m.lat)), lon |-> Tell(Position(m.lon))]

\* What a reader learns of a dataset on the page.
Reading(data) ==
    [temperature |-> data["temperature"], humidity |-> data["humidity"],
     pressure |-> data["pressure"], gasres |-> data["gasres"],
     fix |-> data["fix"], sat |-> data["sat"], speed |-> data["speed"],
     power |-> data["power"], voltage |-> data["voltage"],
     alt |-> IF data["alt"] >= 0 THEN data["alt"] ELSE Unclear,
     lat |-> Tell(Padded(data["lat"])), lon |-> Tell(Padded(data["lon"]))]

PageReport == IF page = None THEN None ELSE Reading(page)

\* Through payload, line, JSON and conversion, the page shows what was measured
\* and nothing that was damaged on the way.
T == INSTANCE Telemetry WITH shown <- PageReport

ImplementsTelemetry == T!Spec

\* The card as if only the blocks bs had been read.
Only(bs) == [b \in Blocks |-> IF b \in bs THEN card[b] ELSE Blank]

\* The measurements written since the transmitter last started over that had a
\* fix are in the GPX track, in order and each at its place and altitude: they
\* are all that txt2gpx makes of their blocks.  Whatever else is in the track
\* comes from records that were on the card before and were not overwritten; on
\* a new card there are none.
TrackRight ==
    LET fixed == InOrder(written, {i \in DOMAIN written : written[i].fix # 0})
        track == Track(Only(stored))
    IN  /\ Len(track) = Len(fixed)
        /\ \A i \in DOMAIN track :
              /\ Padded(track[i].lat) = Position(fixed[i].lat)
              /\ Padded(track[i].lon) = Position(fixed[i].lon)
              /\ track[i].time = fixed[i].utc
              /\ 10 * track[i].ele - fixed[i].alt \in -4 .. 5
        /\ \A b \in Blocks \ stored : HasFix(card[b]) => card[b] = before[b]

\* "Converts the given coordinate in integer degrees minutes * 1000000 to
\* decimal degrees": the page's numbers, read as a reader and the map read
\* them, are the position of a measurement.
WebPositionRight ==
    page # None =>
        \E i \in DOMAIN taken :
            /\ Unpadded(page["lat"]) = Position(taken[i].lat)
            /\ Unpadded(page["lon"]) = Position(taken[i].lon)

=============================================================================
