------------------------------- MODULE Codec -------------------------------
(***************************************************************************)
(* What happens to the measured values on their way: the transmitter's     *)
(* payload and SD card record (avrenv-tx/data.c), the receiver's line      *)
(* (avrenv-rx/data.c), the client's structure and JSON                     *)
(* (avrenv-client/data.c), the web application's dataset                   *)
(* (DataResource.java) and the GPX track of txt2gpx.c.                     *)
(*                                                                         *)
(* A value of w bytes is a number below Values(w), so that small instances *)
(* have all the overflows of the real one, BYTE = 256.  Texts are the      *)
(* numbers they are made of; the display and the web page's rounding of    *)
(* temperature and speed to one decimal are left out.                      *)
(***************************************************************************)
EXTENDS Selection, Sequences

CONSTANTS
    BYTE,   \* values of a byte (256)
    DEGREE  \* a degree in ddmm.mmmm x 10000 (1000000)

ASSUME CodecAssumption ==
    /\ BYTE \in Nat \ {0, 1}
    /\ BYTE % 2 = 0
    /\ DEGREE \in Nat \ {0}
    /\ DEGREE % 100 = 0

----------------------------------------------------------------------------
(* Integers of w bytes *)

\* How many there are.
Values(w) ==
    CASE w = 1 -> BYTE
      [] w = 2 -> BYTE * BYTE
      [] w = 4 -> (BYTE * BYTE) * (BYTE * BYTE)
      [] w = 8 -> ((BYTE * BYTE) * (BYTE * BYTE)) * ((BYTE * BYTE) * (BYTE * BYTE))

Unsigned(n, w) == n % Values(w)

Signed(n, w) ==
    LET u == Unsigned(n, w) IN IF u < Values(w) \div 2 THEN u ELSE u - Values(w)

\* n shifted to the right by i bytes.
Shift(n, i) ==
    CASE i = 0 -> n
      [] i = 1 -> n \div BYTE
      [] i = 2 -> (n \div BYTE) \div BYTE
      [] i = 3 -> ((n \div BYTE) \div BYTE) \div BYTE

\* A mutation: shifted and not cut.
ByteUncut(n, i) == Shift(n, i)

\* Shifted and cast to uint8_t.
Byte(n, i) == Shift(n, i) % BYTE

\* The w bytes of b from the first one on, the most significant one first.
Word(b, first, w) ==
    CASE w = 1 -> b[first]
      [] w = 2 -> b[first] * BYTE + b[first + 1]
      [] w = 4 -> ((b[first] * BYTE + b[first + 1]) * BYTE + b[first + 2]) * BYTE
                  + b[first + 3]

\* For numerators that are not negative, and so small that the sum does not wrap.
DivRoundNearest(n, d) == (n + d \div 2) \div d

\* min(UCHAR_MAX, n), min(USHRT_MAX, n)
Clamp(n, w) == IF n < Values(w) THEN n ELSE Values(w) - 1

----------------------------------------------------------------------------
(* The transmitter *)

\* The values to be transmitted of a measurement m, which has the members of the
\* drivers' structures: rounded to their units and clamped.
Sent(m) ==
    [temperature |-> m.temperature,
     humidity    |-> Clamp(DivRoundNearest(m.humidity, 1000), 1),
     pressure    |-> Clamp(DivRoundNearest(m.pressure, 100), 2),
     gasres      |-> Clamp(DivRoundNearest(m.gas_resistance, 1000), 2),
     fix |-> m.fix, sat |-> m.sat, lat |-> m.lat, lon |-> m.lon,
     alt         |-> Clamp(DivRoundNearest(m.alt, 10), 2),
     speed |-> m.speed, power |-> m.power, voltage |-> m.bavg]

\* The payload: the fields' bytes, the most significant one of each first.
Payload(m) ==
    LET s == Sent(m)
    IN  << Byte(s.temperature, 1), Byte(s.temperature, 0), Byte(s.humidity, 0),
           Byte(s.pressure, 1), Byte(s.pressure, 0),
           Byte(s.gasres, 1), Byte(s.gasres, 0), Byte(s.fix, 0), Byte(s.sat, 0),
           Byte(s.lat, 3), Byte(s.lat, 2), Byte(s.lat, 1), Byte(s.lat, 0),
           Byte(s.lon, 3), Byte(s.lon, 2), Byte(s.lon, 1), Byte(s.lon, 0),
           Byte(s.alt, 1), Byte(s.alt, 0), Byte(s.speed, 1), Byte(s.speed, 0),
           Byte(s.power, 0), Byte(s.voltage, 1), Byte(s.voltage, 0) >>

\* The record on the SD card: 14 fields, and behind the newline an empty one.
\* %u prints a negative temperature as an unsigned int.
CardRecord(time, m) ==
    <<time, m.bavg, m.power, Unsigned(m.temperature, 2), Sent(m).humidity,
      Sent(m).pressure, m.gas_resistance, m.utc, m.fix, m.sat, m.lat, m.lon,
      m.alt, m.speed, "">>

----------------------------------------------------------------------------
(* The receiver *)

\* Where the receiver expects a field in the payload, and in how many bytes.
Offsets == [temperature |-> <<1, 2>>, humidity |-> <<3, 1>>,
            pressure |-> <<4, 2>>, gasres |-> <<6, 2>>, fix |-> <<8, 1>>,
            sat |-> <<9, 1>>, lat |-> <<10, 4>>, lon |-> <<14, 4>>,
            alt |-> <<18, 2>>, speed |-> <<20, 2>>, power |-> <<22, 1>>,
            voltage |-> <<23, 2>>]

\* A mutation: the temperature is unsigned.
SignedFieldsAlt == {"alt"}

\* The members of EnvData that are int16_t.
SignedFields == {"temperature", "alt"}

GetData(payload) ==
    [f \in DOMAIN Offsets |->
        LET n == Word(payload, Offsets[f][1], Offsets[f][2])
        IN  IF f \in SignedFields THEN Signed(n, 2) ELSE n]

\* The line: time, duration and reception, then the data.
Line(time, dur, rssi, crc, d) ==
    <<time, dur, rssi, crc, d.voltage, d.power, d.temperature, d.humidity,
      d.pressure, d.gasres, d.fix, d.sat, d.lat, d.lon, d.alt, d.speed>>

----------------------------------------------------------------------------
(* The client *)

\* Where the client expects a field in the line, and the width of its type.
Fields == [time |-> <<1, 4>>, dur |-> <<2, 1>>, rssi |-> <<3, 1>>,
           crc |-> <<4, 1>>, voltage |-> <<5, 2>>, power |-> <<6, 1>>,
           temperature |-> <<7, 2>>, humidity |-> <<8, 1>>,
           pressure |-> <<9, 2>>, gasres |-> <<10, 2>>, fix |-> <<11, 1>>,
           sat |-> <<12, 1>>, lat |-> <<13, 4>>, lon |-> <<14, 4>>,
           alt |-> <<15, 2>>, speed |-> <<16, 2>>]

FieldNames == DOMAIN Fields

\* The number that the field f of type int or unsigned takes from a token.
ReadField(f, n) ==
    IF f \in SignedFields THEN Signed(n, Fields[f][2])
                          ELSE Unsigned(n, Fields[f][2])

ReadData(line) == [f \in FieldNames |-> ReadField(f, line[Fields[f][1]])]

\* The signed fields become 64 bit unsigned numbers, all others are ints.
ToJson(env) ==
    [f \in FieldNames |-> IF f \in SignedFields THEN Unsigned(env[f], 8)
                                                ELSE Signed(env[f], 4)]

----------------------------------------------------------------------------
(* The web application *)

\* JsonObject.getInt keeps the low 32 bits.
GetInt(n) == Signed(n, 4)

\* The integer and the fraction that "%d.%d" prints.
ToDecimalDegrees(dm) == <<dm \div DEGREE, (dm % DEGREE) \div 6>>

Convert(json) ==
    [f \in FieldNames |->
        CASE f = "rssi" -> -GetInt(json[f])
          [] f \in {"lat", "lon"} -> ToDecimalDegrees(GetInt(json[f]))
          [] OTHER -> GetInt(json[f])]

----------------------------------------------------------------------------
(* txt2gpx *)

\* The blocks of the card that are a measurement with a fix, in order; the
\* fraction of a coordinate is printed with all its digits.
FIELD_LEN == 15

TrackPoint(r) ==
    [lat |-> <<r[11] \div DEGREE, (r[11] % DEGREE) \div 6>>,
     lon |-> <<r[12] \div DEGREE, (r[12] % DEGREE) \div 6>>,
     ele |-> (r[13] + 5) \div 10,
     time |-> r[8]]

\* A mutation: records without a fix are converted as well.
HasFixNot(r) == Len(r) = FIELD_LEN

HasFix(r) == Len(r) = FIELD_LEN /\ r[9] # 0

Track(card) ==
    LET points == InOrder(card, {i \in DOMAIN card : HasFix(card[i])})
    IN  [i \in DOMAIN points |-> TrackPoint(points[i])]

----------------------------------------------------------------------------
(* What a reader of the numbers sees *)

\* The unit of the fraction of a degree, with all its digits.
FRACTION == DEGREE \div 10

\* The coordinate in sixths of that unit, and in that unit: 60 minutes are a
\* degree, and a minute is a hundredth of DEGREE.
Angle(dm) == 60 * (dm \div DEGREE) * (DEGREE \div 100) + (dm % DEGREE)

Position(dm) == Angle(dm) \div 6

\* "%d.%05d" and "%d.%d": a fraction without its leading zeros is read as if it
\* were multiplied until it has all digits.
Padded(p) == p[1] * FRACTION + p[2]

Unpadded(p) ==
    p[1] * FRACTION +
    (IF p[2] = 0 THEN 0
     ELSE CHOOSE v \in {p[2] * 10 ^ i : i \in 0 .. 5} :
              v < FRACTION /\ 10 * v >= FRACTION)

=============================================================================
