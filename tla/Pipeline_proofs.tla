--------------------------- MODULE Pipeline_proofs ---------------------------
(***************************************************************************)
(* Proofs about the way of a measurement, for every number of values of a  *)
(* byte, every length of the queue and every set of measurements that fit  *)
(* the drivers' types.                                                     *)
(***************************************************************************)
EXTENDS Pipeline, Selection_proofs

----------------------------------------------------------------------------
(* Arithmetic *)

\* A product of positive numbers is at least as large as either.
LEMMA Product ==
    ASSUME NEW a \in Nat \ {0}, NEW b \in Nat \ {0}
    PROVE  a * b \in Nat \ {0} /\ a <= a * b /\ b <= a * b
  OBVIOUS

\* What the quotient and the rest of a division are.
LEMMA Division ==
    ASSUME NEW n \in Int, NEW d \in Nat \ {0}
    PROVE  /\ n \div d \in Int /\ n % d \in 0 .. d - 1
           /\ n = d * (n \div d) + (n % d)
  OBVIOUS

\* And that nothing else is.
LEMMA DivisionUnique ==
    ASSUME NEW d \in Nat \ {0}, NEW q \in Int, NEW r \in 0 .. d - 1
    PROVE  (d * q + r) \div d = q /\ (d * q + r) % d = r
  <1> DEFINE n == d * q + r
             p == n \div d
             s == n % d
  <1>1. n \in Int /\ d * q \in Int
    OBVIOUS
  <1>2. p \in Int /\ s \in 0 .. d - 1 /\ n = d * p + s
    BY <1>1, Division
  <1> HIDE DEF p, s
  <1>3. d * (p - q) = r - s
    BY <1>2
  <1>4. ASSUME p > q PROVE FALSE
    <2>1. d * (p - q) >= d
      BY <1>4, <1>2, Product
    <2>2. QED
      BY <2>1, <1>2, <1>3
  <1>5. ASSUME p < q PROVE FALSE
    <2>1. d * (q - p) >= d
      BY <1>5, <1>2, Product
    <2>2. d * (q - p) = s - r
      BY <1>2
    <2>3. QED
      BY <2>1, <2>2, <1>2
  <1>6. p = q
    BY <1>2, <1>4, <1>5
  <1>7. QED
    BY <1>2, <1>6 DEF p, s

\* To divide twice is to divide by the product; the rest is put together of
\* both rests.
LEMMA DivideTwice ==
    ASSUME NEW n \in Int, NEW c \in Nat \ {0}, NEW d \in Nat \ {0}
    PROVE  /\ n \div (c * d) = (n \div c) \div d
           /\ n % (c * d) = ((n \div c) % d) * c + (n % c)
  <1> DEFINE q == n \div c
             r == n % c
             p == q \div d
             s == q % d
  <1>1. q \in Int /\ r \in 0 .. c - 1 /\ n = c * q + r
    BY Division
  <1>2. p \in Int /\ s \in 0 .. d - 1 /\ q = d * p + s
    BY <1>1, Division
  <1> HIDE DEF q, r, p, s
  <1>3. c * d \in Nat \ {0}
    BY Product
  <1>4. n = (c * d) * p + (s * c + r)
    <2>1. c * q = c * (d * p) + c * s
      BY <1>2
    <2>2. c * (d * p) = (c * d) * p /\ c * s = s * c
      BY <1>2
    <2>3. QED
      BY <1>1, <1>2, <1>3, <2>1, <2>2
  <1>5. s * c + r \in 0 .. c * d - 1
    <2>1. s * c >= 0 /\ s * c \in Int
      BY <1>2
    <2>2. (d - 1 - s) * c >= 0
      BY <1>2
    <2>3. (d - 1 - s) * c = c * d - c - s * c
      BY <1>2
    <2>4. QED
      BY <1>1, <1>3, <2>1, <2>2, <2>3
  <1>6. n \div (c * d) = p /\ n % (c * d) = s * c + r
    BY <1>2, <1>3, <1>4, <1>5, DivisionUnique
  <1>7. n \div (c * d) = (n \div c) \div d
    BY <1>6 DEF q, p
  <1>8. n % (c * d) = ((n \div c) % d) * c + (n % c)
    <2>1. (n \div c) % d = s /\ n % c = r
      BY DEF q, r, s
    <2>2. QED
      BY <1>6, <2>1
  <1>9. QED
    BY <1>7, <1>8

\* A number of two digits is below the product of their bounds.
LEMMA TwoDigits ==
    ASSUME NEW a \in Nat, NEW b \in Nat, NEW c \in Nat \ {0},
           NEW d \in Nat \ {0}, a < c, b < d
    PROVE  a * d + b \in Nat /\ a * d + b < c * d
  <1>1. (c - a - 1) * d >= 0
    OBVIOUS
  <1>2. (c - a - 1) * d = c * d - a * d - d
    OBVIOUS
  <1>3. a * d \in Nat /\ c * d \in Nat
    OBVIOUS
  <1>4. QED
    BY <1>1, <1>2, <1>3

\* The square of an even number is even and at least twice the number.
LEMMA EvenSquare ==
    ASSUME NEW a, NEW h \in Nat \ {0}, a = 2 * h
    PROVE  \E k \in Nat \ {0} : a * a = 2 * k /\ 2 * a <= a * a
  <1> DEFINE k == h * (2 * h)
  <1>1. k \in Nat \ {0} /\ 2 * h <= k
    BY Product
  <1>2. a * a = 2 * k
    OBVIOUS
  <1>3. QED
    BY <1>1, <1>2

----------------------------------------------------------------------------
(* Integers of w bytes *)

Widths == {1, 2, 4, 8}

\* An integer of one, two, four or eight bytes has an even number of values,
\* and twice the width has at least twice as many.
LEMMA ValuesRange ==
    /\ \A w \in Widths : /\ Values(w) \in Nat \ {0}
                         /\ Values(w) = 2 * (Values(w) \div 2)
    /\ Values(1) = BYTE
    /\ Values(2) = BYTE * BYTE
    /\ Values(4) = Values(2) * Values(2)
    /\ Values(8) = Values(4) * Values(4)
    /\ 2 * Values(1) <= Values(2) /\ 2 * Values(2) <= Values(4)
  <1>1. /\ Values(1) = BYTE /\ Values(2) = BYTE * BYTE
        /\ Values(4) = Values(2) * Values(2)
        /\ Values(8) = Values(4) * Values(4)
    BY DEF Values
  <1>2. PICK h \in Nat \ {0} : BYTE = 2 * h
    <2>1. BYTE = 2 * (BYTE \div 2) /\ BYTE \div 2 \in Nat \ {0}
      BY CodecAssumption
    <2>2. QED
      BY <2>1
  <1>3. PICK i \in Nat \ {0} : Values(2) = 2 * i /\ 2 * Values(1) <= Values(2)
    BY <1>1, <1>2, EvenSquare
  <1>4. PICK j \in Nat \ {0} : Values(4) = 2 * j /\ 2 * Values(2) <= Values(4)
    BY <1>1, <1>3, EvenSquare
  <1>5. PICK k \in Nat \ {0} : Values(8) = 2 * k
    BY <1>1, <1>4, EvenSquare
  <1>6. QED
    BY <1>1, <1>2, <1>3, <1>4, <1>5 DEF Widths

\* A number that fits is kept by an unsigned integer, and any other one made fit.
LEMMA UnsignedRange ==
    ASSUME NEW w \in Widths, NEW n \in Int
    PROVE  /\ Unsigned(n, w) \in Nat /\ Unsigned(n, w) < Values(w)
           /\ n >= 0 /\ n < Values(w) => Unsigned(n, w) = n
  <1> DEFINE v == Values(w)
  <1>1. v \in Nat \ {0}
    BY ValuesRange
  <1> HIDE DEF v
  <1>2. n % v \in 0 .. v - 1 /\ (n >= 0 /\ n < v => n % v = n)
    BY <1>1
  <1>3. QED
    BY <1>1, <1>2 DEF Unsigned, v

\* The same of a signed one.
LEMMA SignedRange ==
    ASSUME NEW w \in Widths, NEW n \in Int
    PROVE  /\ Signed(n, w) \in Int
           /\ -(Values(w) \div 2) <= Signed(n, w)
           /\ Signed(n, w) < Values(w) \div 2
           /\ -(Values(w) \div 2) <= n /\ n < Values(w) \div 2 => Signed(n, w) = n
  <1> DEFINE v == Values(w)
             h == v \div 2
  <1>1. v \in Nat \ {0} /\ h \in Nat /\ v = 2 * h
    BY ValuesRange
  <1>2. n % v \in 0 .. v - 1
    BY <1>1
  <1>3. n >= 0 /\ n < v => n % v = n
    BY <1>1
  <1>4. n < 0 /\ -v <= n => n % v = n + v
    <2> SUFFICES ASSUME n < 0, -v <= n PROVE n % v = n + v
      OBVIOUS
    <2>1. n = v * (-1) + (n + v) /\ n + v \in 0 .. v - 1
      BY <1>1
    <2> HIDE DEF v
    <2>2. (v * (-1) + (n + v)) % v = n + v
      BY <1>1, <2>1, DivisionUnique
    <2>3. QED
      BY <2>1, <2>2
  <1>5. Signed(n, w) = IF n % v < h THEN n % v ELSE (n % v) - v
    BY DEF Signed, Unsigned
  <1> HIDE DEF v, h
  <1>6. /\ Signed(n, w) \in Int /\ -h <= Signed(n, w) /\ Signed(n, w) < h
        /\ -h <= n /\ n < h => Signed(n, w) = n
    BY <1>1, <1>2, <1>3, <1>4, <1>5
  <1>7. QED
    BY <1>6 DEF h, v

\* A signed integer of four bytes keeps what an unsigned one of eight was made
\* from, as far as it fits.
LEMMA SignedOfUnsigned ==
    ASSUME NEW n \in Int
    PROVE  Signed(Unsigned(n, 8), 4) = Signed(n, 4)
  <1> DEFINE v == Values(4)
             q == (n \div v) % v
  <1>1. v \in Nat \ {0} /\ Values(8) = v * v
    BY ValuesRange DEF Widths
  <1> HIDE DEF v
  <1>2. q \in Int /\ n % v \in 0 .. v - 1
    BY <1>1, Division
  <1>3. n % (v * v) = v * q + (n % v)
    <2>1. n % (v * v) = q * v + (n % v)
      BY <1>1, DivideTwice
    <2>2. q * v = v * q
      BY <1>1, <1>2
    <2>3. QED
      BY <2>1, <2>2
  <1>4. (v * q + (n % v)) % v = n % v
    BY <1>1, <1>2, DivisionUnique
  <1>5. Unsigned(Unsigned(n, 8), 4) = Unsigned(n, 4)
    BY <1>1, <1>3, <1>4 DEF Unsigned, v
  <1>6. QED
    BY <1>5 DEF Signed

\* The receiver's shifts undo the transmitter's: whatever its sign, the bytes of
\* a number put together are the number cut to their width.
LEMMA WordOfBytes ==
    ASSUME NEW n \in Int
    PROVE  /\ Byte(n, 0) = Unsigned(n, 1)
           /\ Byte(n, 1) * BYTE + Byte(n, 0) = Unsigned(n, 2)
           /\ ((Byte(n, 3) * BYTE + Byte(n, 2)) * BYTE + Byte(n, 1)) * BYTE + Byte(n, 0)
                  = Unsigned(n, 4)
  <1>1. BYTE \in Nat \ {0} /\ BYTE * BYTE \in Nat \ {0}
    BY ValuesRange DEF Widths
  <1>2. \A i \in Int : i % (BYTE * BYTE) = ((i \div BYTE) % BYTE) * BYTE + (i % BYTE)
    BY <1>1, DivideTwice
  <1>3. n \div (BYTE * BYTE) = (n \div BYTE) \div BYTE
    BY <1>1, DivideTwice
  <1> DEFINE a0 == n % BYTE
             a1 == (n \div BYTE) % BYTE
             a2 == ((n \div BYTE) \div BYTE) % BYTE
             a3 == (((n \div BYTE) \div BYTE) \div BYTE) % BYTE
  <1>4. Byte(n, 0) = a0 /\ Byte(n, 1) = a1 /\ Byte(n, 2) = a2 /\ Byte(n, 3) = a3
    BY DEF Byte, Shift
  <1>5. a0 \in Int /\ a1 \in Int /\ a2 \in Int /\ a3 \in Int
    BY <1>1, Division
  <1>6. n % (BYTE * BYTE) = a1 * BYTE + a0
    BY <1>2
  <1>7. (n \div (BYTE * BYTE)) % (BYTE * BYTE) = a3 * BYTE + a2
    BY <1>1, <1>2, <1>3, Division
  <1>8. n % ((BYTE * BYTE) * (BYTE * BYTE))
            = (a3 * BYTE + a2) * (BYTE * BYTE) + (a1 * BYTE + a0)
    <2> DEFINE c == BYTE * BYTE
    <2>1. n % (c * c) = ((n \div c) % c) * c + (n % c)
      BY <1>1, DivideTwice
    <2>2. QED
      BY <1>6, <1>7, <2>1
  <1> HIDE DEF a0, a1, a2, a3
  <1>9. (a3 * BYTE + a2) * (BYTE * BYTE) + (a1 * BYTE + a0)
            = ((a3 * BYTE + a2) * BYTE + a1) * BYTE + a0
    BY <1>1, <1>5
  <1>10. Unsigned(n, 1) = a0
    BY DEF Unsigned, Values, a0
  <1>11. QED
    BY <1>4, <1>6, <1>8, <1>9, <1>10 DEF Unsigned, Values

----------------------------------------------------------------------------
(* The payload *)

DataNames == DOMAIN Offsets

\* The fields of the payload, which are fields of the line as well.
LEMMA Names ==
    /\ DataNames = {"temperature", "humidity", "pressure", "gasres", "fix", "sat",
                    "lat", "lon", "alt", "speed", "power", "voltage"}
    /\ FieldNames = DataNames \cup {"time", "dur", "rssi", "crc"}
  BY DEF DataNames, Offsets, FieldNames, Fields

\* A rounded and clamped value fits into its bytes.
LEMMA ClampRange ==
    ASSUME NEW w \in Widths, NEW n \in Nat
    PROVE  /\ Clamp(n, w) \in Nat /\ Clamp(n, w) < Values(w)
           /\ Clamp(n, w) = Room(n, w)
  BY ValuesRange DEF Clamp, Room

\* What is sent are integers, and each fits into its field.
SentFits(s) ==
    /\ s.temperature \in Int
    /\ -(Values(2) \div 2) <= s.temperature /\ s.temperature < Values(2) \div 2
    /\ s.humidity \in Nat /\ s.humidity < Values(1)
    /\ s.pressure \in Nat /\ s.pressure < Values(2)
    /\ s.gasres \in Nat /\ s.gasres < Values(2)
    /\ s.fix \in Nat /\ s.fix < Values(1)
    /\ s.sat \in Nat /\ s.sat < Values(1)
    /\ s.lat \in Nat /\ s.lat < Values(4) \div 2
    /\ s.lon \in Nat /\ s.lon < Values(4) \div 2
    /\ s.alt \in Nat /\ s.alt < Values(2)
    /\ s.speed \in Nat /\ s.speed < Values(2)
    /\ s.power \in Nat /\ s.power < Values(1)
    /\ s.voltage \in Nat /\ s.voltage < Values(2)

\* Each value to be transmitted fits the bytes it gets in the payload.
LEMMA SentRange ==
    ASSUME NEW m \in Measurements
    PROVE  SentFits(Sent(m))
  <1>1. /\ DivRoundNearest(m.humidity, 1000) \in Nat
        /\ DivRoundNearest(m.pressure, 100) \in Nat
        /\ DivRoundNearest(m.gas_resistance, 1000) \in Nat
        /\ DivRoundNearest(m.alt, 10) \in Nat
    BY MeasurementAssumption DEF DivRoundNearest
  <1>2. QED
    BY <1>1, MeasurementAssumption, ClampRange DEF Sent, SentFits, Widths

\* A byte is one, whatever it is cut from.
LEMMA ByteRange ==
    ASSUME NEW n \in Int, NEW i \in 0 .. 3
    PROVE  Byte(n, i) \in 0 .. BYTE - 1
  <1>1. BYTE \in Nat \ {0}
    BY CodecAssumption
  <1>2. Shift(n, i) \in Int
    BY <1>1, Division DEF Shift
  <1>3. QED
    BY <1>1, <1>2, Division DEF Byte

\* A payload is 24 bytes.
LEMMA PayloadTyped ==
    ASSUME NEW m \in Measurements
    PROVE  Payload(m) \in Payloads
  <1> DEFINE s == Sent(m)
             B == 0 .. BYTE - 1
  <1>1. SentFits(s)
    BY SentRange
  <1>0. \A n \in Int : \A i \in 0 .. 3 : Byte(n, i) \in B
    BY ByteRange
  <1> HIDE DEF s, B
  <1>2. \A i \in 0 .. 3 :
            /\ Byte(s.temperature, i) \in B /\ Byte(s.humidity, i) \in B
            /\ Byte(s.pressure, i) \in B /\ Byte(s.gasres, i) \in B
            /\ Byte(s.fix, i) \in B /\ Byte(s.sat, i) \in B
            /\ Byte(s.lat, i) \in B /\ Byte(s.lon, i) \in B
            /\ Byte(s.alt, i) \in B /\ Byte(s.speed, i) \in B
            /\ Byte(s.power, i) \in B /\ Byte(s.voltage, i) \in B
    BY <1>0, <1>1 DEF SentFits
  <1>3. Payload(m) \in [1 .. 24 -> B]
    BY <1>2 DEF Payload, s
  <1>4. QED
    BY <1>3 DEF Payloads, B

\* Put together again, the bytes of a field are its value cut to its width.
LEMMA WordOfPayload ==
    ASSUME NEW m, NEW f \in DataNames, Sent(m)[f] \in Int
    PROVE  Word(Payload(m), Offsets[f][1], Offsets[f][2])
               = Unsigned(Sent(m)[f], Offsets[f][2])
  <1> DEFINE s == Sent(m)
             p == Payload(m)
  <1>1. CASE f \in {"humidity", "fix", "sat", "power"}
    <2>1. p[Offsets[f][1]] = Byte(s[f], 0) /\ Offsets[f][2] = 1
      BY <1>1 DEF Payload, Offsets, Sent
    <2>2. QED
      BY <2>1, WordOfBytes DEF Word
  <1>2. CASE f \in {"temperature", "pressure", "gasres", "alt", "speed", "voltage"}
    <2>1. /\ p[Offsets[f][1]] = Byte(s[f], 1)
          /\ p[Offsets[f][1] + 1] = Byte(s[f], 0)
          /\ Offsets[f][2] = 2
      BY <1>2 DEF Payload, Offsets, Sent
    <2>2. QED
      BY <2>1, WordOfBytes DEF Word
  <1>3. CASE f \in {"lat", "lon"}
    <2>1. /\ p[Offsets[f][1]] = Byte(s[f], 3)
          /\ p[Offsets[f][1] + 1] = Byte(s[f], 2)
          /\ p[Offsets[f][1] + 2] = Byte(s[f], 1)
          /\ p[Offsets[f][1] + 3] = Byte(s[f], 0)
          /\ Offsets[f][2] = 4
      <3>1. /\ p[10] = Byte(s["lat"], 3) /\ p[11] = Byte(s["lat"], 2)
            /\ p[12] = Byte(s["lat"], 1) /\ p[13] = Byte(s["lat"], 0)
        BY DEF Payload
      <3>2. /\ p[14] = Byte(s["lon"], 3) /\ p[15] = Byte(s["lon"], 2)
            /\ p[16] = Byte(s["lon"], 1) /\ p[17] = Byte(s["lon"], 0)
        BY DEF Payload
      <3> HIDE DEF p, s
      <3>3. /\ Offsets["lat"][1] = 10 /\ Offsets["lat"][2] = 4
            /\ Offsets["lon"][1] = 14 /\ Offsets["lon"][2] = 4
        BY DEF Offsets
      <3>4. QED
        BY <1>3, <3>1, <3>2, <3>3
    <2>2. QED
      BY <2>1, WordOfBytes DEF Word
  <1>4. QED
    BY <1>1, <1>2, <1>3, Names

\* A number that a field of a type can hold is in the type's range.
LEMMA FieldRange ==
    ASSUME NEW f \in DataNames, NEW n \in Int
    PROVE  /\ Fields[f][2] \in Widths
           /\ ReadField(f, n) \in Int
           /\ ReadField(f, ReadField(f, n)) = ReadField(f, n)
           /\ f \in SignedFields =>
                  /\ Fields[f][2] = 2
                  /\ ReadField(f, n) = Signed(n, 2)
           /\ f \notin SignedFields =>
                  /\ ReadField(f, n) = Unsigned(n, Fields[f][2])
                  /\ f \notin {"lat", "lon"} => Fields[f][2] \in {1, 2}
  <1>1. /\ Fields[f][2] \in {1, 2, 4}
        /\ f \in SignedFields => Fields[f][2] = 2
        /\ f \notin {"lat", "lon"} => Fields[f][2] \in {1, 2}
    BY Names DEF Fields, SignedFields
  <1>2. CASE f \in SignedFields
    BY <1>1, <1>2, SignedRange DEF ReadField, Widths
  <1>3. CASE f \notin SignedFields
    <2>1. PICK w \in Widths : w = Fields[f][2]
      BY <1>1 DEF Widths
    <2>2. Unsigned(n, w) \in Int /\ Unsigned(Unsigned(n, w), w) = Unsigned(n, w)
      BY UnsignedRange
    <2>3. QED
      BY <1>1, <1>3, <2>1, <2>2 DEF ReadField
  <1>4. QED
    BY <1>1, <1>2, <1>3 DEF Widths

\* The receiver's and the client's types are the same.
LEMMA SameWidths ==
    ASSUME NEW f \in DataNames
    PROVE  Offsets[f][2] = Fields[f][2]
  BY Names DEF Offsets, Fields

\* The receiver's structure holds what was sent; only an altitude of which the
\* sign bit is set is another.
LEMMA GetDataOfPayload ==
    ASSUME NEW m \in Measurements, NEW f \in DataNames
    PROVE  GetData(Payload(m))[f] = IF f = "alt" THEN Signed(Sent(m)[f], 2)
                                                 ELSE Sent(m)[f]
  <1> DEFINE n == Sent(m)[f]
             w == Offsets[f][2]
  <1>1. SentFits(Sent(m)) /\ 2 \in Widths
    BY SentRange DEF Widths
  <1>2. n \in Int
    BY <1>1, Names DEF SentFits
  <1>3. w \in Widths /\ (f \in SignedFields => w = 2)
    BY <1>2, FieldRange, SameWidths
  <1>4. GetData(Payload(m))[f] = IF f \in SignedFields
                                 THEN Signed(Unsigned(n, w), 2) ELSE Unsigned(n, w)
    BY <1>2, WordOfPayload DEF GetData, DataNames
  <1>5. CASE f \in SignedFields
    <2>1. Unsigned(Unsigned(n, 2), 2) = Unsigned(n, 2)
      BY <1>1, <1>2, UnsignedRange
    <2>2. Signed(Unsigned(n, 2), 2) = Signed(n, 2)
      BY <2>1 DEF Signed
    <2>3. f = "temperature" => Signed(n, 2) = n
      BY <1>1, <1>2, SignedRange DEF SentFits
    <2>4. QED
      BY <1>3, <1>4, <1>5, <2>2, <2>3 DEF SignedFields
  <1>6. CASE f \notin SignedFields
    <2>1. n \in Nat /\ n < Values(w)
      <3>1. Values(1) \in Nat /\ Values(2) \in Nat /\ Values(4) \in Nat
        BY ValuesRange DEF Widths
      <3>2. QED
        BY <1>1, <1>6, <3>1, Names DEF SentFits, SignedFields, Offsets
    <2>2. Unsigned(n, w) = n
      BY <1>3, <2>1, UnsignedRange
    <2>3. QED
      BY <1>4, <1>6, <2>2 DEF SignedFields
  <1>7. QED
    BY <1>5, <1>6

----------------------------------------------------------------------------
(* The line, the JSON and the dataset *)

\* What a line's fields hold that the receiver printed.
Typed(d) == \A f \in DataNames : d[f] \in Int /\ ReadField(f, d[f]) = d[f]

\* Whatever was received, damaged or not, what it is taken for has the
\* receiver's types.
LEMMA GetDataTyped ==
    ASSUME NEW p \in Payloads
    PROVE  Typed(GetData(p))
  <1> SUFFICES ASSUME NEW f \in DataNames
               PROVE  /\ GetData(p)[f] \in Int
                      /\ ReadField(f, GetData(p)[f]) = GetData(p)[f]
    BY DEF Typed
  <1> DEFINE i == Offsets[f][1]
             w == Offsets[f][2]
             n == Word(p, i, w)
  <1>1. BYTE \in Nat \ {0} /\ \A j \in 1 .. 24 : p[j] \in Nat /\ p[j] < BYTE
    BY CodecAssumption DEF Payloads
  <1>2. GetData(p)[f] = IF f \in SignedFields THEN Signed(n, 2) ELSE n
    BY DEF GetData, DataNames
  <1>3. n \in Nat /\ n < Values(w)
    <2>1. CASE f \in {"humidity", "fix", "sat", "power"}
      <3>1. i \in 1 .. 24 /\ w = 1
        BY <2>1 DEF Offsets
      <3>2. QED
        BY <1>1, <3>1 DEF Word, Values
    <2>2. CASE f \in {"temperature", "pressure", "gasres", "alt", "speed", "voltage"}
      <3>1. i \in 1 .. 24 /\ i + 1 \in 1 .. 24 /\ w = 2
        BY <2>2 DEF Offsets
      <3>2. n = p[i] * BYTE + p[i + 1] /\ Values(w) = BYTE * BYTE
        BY <3>1 DEF Word, Values
      <3>3. PICK a, b \in Nat : a < BYTE /\ b < BYTE /\ n = a * BYTE + b
        BY <1>1, <3>1, <3>2
      <3>4. QED
        BY <1>1, <3>2, <3>3, TwoDigits
    <2>3. CASE f \in {"lat", "lon"}
      <3>1. i \in 1 .. 24 /\ i + 1 \in 1 .. 24 /\ i + 2 \in 1 .. 24
            /\ i + 3 \in 1 .. 24 /\ w = 4
        BY <2>3 DEF Offsets
      <3> DEFINE a == p[i]
                 b == p[i + 1]
                 c == p[i + 2]
                 d == p[i + 3]
      <3>2. /\ a \in Nat /\ b \in Nat /\ c \in Nat /\ d \in Nat
            /\ a < BYTE /\ b < BYTE /\ c < BYTE /\ d < BYTE
            /\ n = ((a * BYTE + b) * BYTE + c) * BYTE + d
        <4>1. n = ((a * BYTE + b) * BYTE + c) * BYTE + d
          BY <3>1 DEF Word
        <4> HIDE DEF n, i, w
        <4>2. QED
          BY <1>1, <3>1, <4>1
      <3> HIDE DEF a, b, c, d, n
      <3> DEFINE h == BYTE * BYTE
      <3>3. h \in Nat \ {0}
        BY <1>1, Product
      <3>4. a * BYTE + b \in Nat /\ a * BYTE + b < h
            /\ c * BYTE + d \in Nat /\ c * BYTE + d < h
        BY <1>1, <3>2, TwoDigits
      <3>5. n = (a * BYTE + b) * h + (c * BYTE + d)
        BY <1>1, <3>2
      <3>6. Values(w) = h * h
        BY <3>1 DEF Values
      <3> HIDE DEF h
      <3>7. QED
        BY <3>3, <3>4, <3>5, <3>6, TwoDigits
    <2>4. QED
      BY <2>1, <2>2, <2>3, Names
  <1>4. n \in Int /\ w = Fields[f][2] /\ w \in Widths
    BY <1>3, FieldRange, SameWidths
  <1>5. CASE f \in SignedFields
    <2>1. GetData(p)[f] = ReadField(f, n)
      BY <1>2, <1>4, <1>5, FieldRange
    <2>2. QED
      BY <1>4, <2>1, FieldRange
  <1>6. CASE f \notin SignedFields
    <2>1. Unsigned(n, w) = n
      BY <1>3, <1>4, UnsignedRange
    <2>2. QED
      BY <1>2, <1>4, <1>6, <2>1, FieldRange
  <1>7. QED
    BY <1>5, <1>6

\* A field of the line is where the client expects it.
LEMMA LineField ==
    ASSUME NEW t, NEW dur, NEW rssi, NEW crc, NEW d
    PROVE  /\ \A f \in DataNames :
                 Line(t, dur, rssi, crc, d)[Fields[f][1]] = d[f]
           /\ Line(t, dur, rssi, crc, d)[Fields["crc"][1]] = crc
           /\ Len(Line(t, dur, rssi, crc, d)) = 16
  <1> DEFINE l == Line(t, dur, rssi, crc, d)
  <1>1. \A f \in DataNames : l[Fields[f][1]] = d[f]
    <2>1. /\ l[5] = d["voltage"] /\ l[6] = d["power"]
          /\ l[7] = d["temperature"] /\ l[8] = d["humidity"]
          /\ l[9] = d["pressure"] /\ l[10] = d["gasres"] /\ l[11] = d["fix"]
          /\ l[12] = d["sat"] /\ l[13] = d["lat"] /\ l[14] = d["lon"]
          /\ l[15] = d["alt"] /\ l[16] = d["speed"]
      BY DEF Line
    <2> HIDE DEF l
    <2>2. QED
      BY <2>1, Names DEF Fields
  <1>2. l[Fields["crc"][1]] = crc
    BY DEF Line, Fields
  <1>3. Len(l) = 16
    BY DEF Line
  <1>4. QED
    BY <1>1, <1>2, <1>3

\* What the client reads of a line is what the receiver printed.
LEMMA ReadDataOfLine ==
    ASSUME NEW t, NEW dur, NEW rssi, NEW crc \in {0, 1}, NEW d, Typed(d)
    PROVE  LET env == ReadData(Line(t, dur, rssi, crc, d))
           IN  /\ DOMAIN env = FieldNames
               /\ \A f \in DataNames : env[f] = d[f]
               /\ env["crc"] = crc
  <1> DEFINE l == Line(t, dur, rssi, crc, d)
             env == ReadData(l)
  <1>1. DOMAIN env = FieldNames /\ \A f \in FieldNames : env[f] = ReadField(f, l[Fields[f][1]])
    BY DEF ReadData
  <1>2. \A f \in DataNames : env[f] = d[f]
    BY <1>1, LineField, Names DEF Typed
  <1>3. env["crc"] = Unsigned(crc, 1)
    BY <1>1, LineField, Names DEF ReadField, SignedFields, Fields
  <1>4. Unsigned(crc, 1) = crc
    <2>1. 1 \in Widths /\ crc \in Int /\ crc >= 0 /\ crc < Values(1)
      BY CodecAssumption DEF Widths, Values
    <2>2. QED
      BY <2>1, UnsignedRange
  <1>5. QED
    BY <1>1, <1>2, <1>3, <1>4

\* A signed integer of four bytes holds the values of all fields but a
\* coordinate that is too large.
LEMMA IntHolds ==
    ASSUME NEW d, Typed(d), NEW f \in DataNames,
           f \in {"lat", "lon"} => d[f] < Values(4) \div 2
    PROVE  Signed(d[f], 4) = d[f]
  <1> DEFINE n == d[f]
  <1>1. n \in Int /\ ReadField(f, n) = n
    BY DEF Typed
  <1>2. /\ Values(1) \in Nat /\ Values(2) \in Nat /\ Values(4) \in Nat
        /\ 2 * Values(1) <= Values(2) /\ 2 * Values(2) <= Values(4)
    BY ValuesRange DEF Widths
  <1>3. CASE f \in SignedFields
    <2>1. -(Values(2) \div 2) <= n /\ n < Values(2) \div 2
      BY <1>1, <1>3, FieldRange, SignedRange
    <2>2. -(Values(4) \div 2) <= n /\ n < Values(4) \div 2
      BY <1>1, <1>2, <2>1
    <2>3. QED
      BY <1>1, <2>2, SignedRange DEF Widths
  <1>4. CASE f \notin SignedFields
    <2>1. n >= 0 /\ n < Values(Fields[f][2])
      BY <1>1, <1>4, FieldRange, UnsignedRange
    <2>2. n < Values(4) \div 2
      BY <1>1, <1>2, <1>4, <2>1, FieldRange
    <2>3. QED
      BY <1>1, <1>2, <2>1, <2>2, SignedRange DEF Widths
  <1>5. QED
    BY <1>3, <1>4

\* The dataset of the web application holds what the client read, with the
\* coordinates in decimal degrees.
LEMMA ConvertOfJson ==
    ASSUME NEW env, NEW d, Typed(d), DOMAIN env = FieldNames,
           \A f \in DataNames : env[f] = d[f],
           env["crc"] \in {0, 1}
    PROVE  LET data == Convert(ToJson(env))
           IN  /\ DOMAIN data = FieldNames
               /\ data["crc"] = env["crc"]
               /\ \A f \in DataNames \ {"lat", "lon"} : data[f] = d[f]
               /\ \A f \in {"lat", "lon"} :
                      d[f] < Values(4) \div 2 => data[f] = ToDecimalDegrees(d[f])
  <1> DEFINE json == ToJson(env)
             data == Convert(json)
  <1>1. /\ DOMAIN data = FieldNames
        /\ \A f \in DataNames \ {"lat", "lon"} : data[f] = Signed(json[f], 4)
        /\ \A f \in {"lat", "lon"} : data[f] = ToDecimalDegrees(Signed(json[f], 4))
        /\ data["crc"] = Signed(json["crc"], 4)
    BY Names DEF Convert, GetInt
  <1>2. /\ \A f \in FieldNames : json[f] = IF f \in SignedFields
                                            THEN Unsigned(env[f], 8) ELSE Signed(env[f], 4)
    BY DEF ToJson
  <1>3. ASSUME NEW f \in DataNames, f \in {"lat", "lon"} => d[f] < Values(4) \div 2
        PROVE  Signed(json[f], 4) = d[f]
    <2>1. Signed(d[f], 4) = d[f]
      BY <1>3, IntHolds
    <2>2. d[f] \in Int
      BY DEF Typed
    <2>3. CASE f \in SignedFields
      BY <1>2, <2>1, <2>2, <2>3, SignedOfUnsigned, Names
    <2>4. CASE f \notin SignedFields
      BY <1>2, <2>1, <2>4, Names
    <2>5. QED
      BY <2>3, <2>4
  <1>4. Signed(json["crc"], 4) = env["crc"]
    <2>1. \A n \in {0, 1} : Signed(n, 4) = n
      <3>1. 4 \in Widths /\ 1 < Values(4) \div 2 /\ Values(4) \div 2 \in Nat
        BY ValuesRange, CodecAssumption DEF Widths
      <3>2. QED
        BY <3>1, SignedRange
    <2>2. json["crc"] = Signed(env["crc"], 4)
      BY <1>2, Names DEF SignedFields
    <2>3. QED
      BY <2>1, <2>2
  <1>5. QED
    BY <1>1, <1>3, <1>4, Names

----------------------------------------------------------------------------
(* From the measurement to the page *)

\* Sixty minutes are a degree: the decimal degrees, printed with all digits of
\* the fraction, are the position.
LEMMA PositionOfDegrees ==
    ASSUME NEW dm \in Nat
    PROVE  Padded(<<dm \div DEGREE, (dm % DEGREE) \div 6>>) = Position(dm)
  <1>1. PICK k \in Nat \ {0} : DEGREE = 100 * k
    <2>1. DEGREE = 100 * (DEGREE \div 100) /\ DEGREE \div 100 \in Nat \ {0}
      BY CodecAssumption
    <2>2. QED
      BY <2>1
  <1> DEFINE q == dm \div DEGREE
             r == dm % DEGREE
  <1>2. q \in Int /\ r \in Int
    BY CodecAssumption, Division
  <1>3. Padded(<<q, r \div 6>>) = q * FRACTION + (r \div 6)
    BY DEF Padded
  <1>4. FRACTION = 10 * k /\ DEGREE \div 100 = k
    BY <1>1 DEF FRACTION
  <1>5. Position(dm) = (60 * q * k + r) \div 6
    BY <1>4 DEF Position, Angle
  <1> HIDE DEF q, r
  <1>6. q * (10 * k) = 10 * (q * k) /\ 60 * q * k = 60 * (q * k) /\ q * k \in Int
    BY <1>2
  <1>7. \A p \in Int : (60 * p + r) \div 6 = 10 * p + (r \div 6)
    BY <1>2
  <1>8. QED
    BY <1>3, <1>4, <1>5, <1>6, <1>7 DEF q, r

\* The bound of Report at which the altitude gets the sign bit.
LEMMA AltitudeClear ==
    ASSUME NEW n \in Nat
    PROVE  LET s == Signed(Clamp(DivRoundNearest(n, 10), 2), 2)
           IN  (IF s >= 0 THEN s ELSE Unclear)
                   = IF n < 5 * Values(2) - 5 THEN (n + 5) \div 10 ELSE Unclear
  <1> DEFINE v == Values(2)
             h == v \div 2
             a == (n + 5) \div 10
             c == Clamp(a, 2)
  <1>1. v \in Nat \ {0} /\ h \in Nat /\ v = 2 * h
    BY ValuesRange DEF Widths
  <1>2. a \in Nat /\ DivRoundNearest(n, 10) = a
    BY DEF DivRoundNearest
  <1>3. n < 5 * v - 5 <=> a < h
    BY <1>1
  <1>4. c = IF a < v THEN a ELSE v - 1
    BY DEF Clamp
  <1>5. Signed(c, 2) = IF c % v < h THEN c % v ELSE (c % v) - v
    BY DEF Signed, Unsigned
  <1> HIDE DEF v, h, a, c
  <1>6. c \in Nat /\ c < v
    BY <1>1, <1>2, <1>4
  <1>7. c % v = c
    BY <1>1, <1>6
  <1>8. Signed(c, 2) = IF a < h THEN a ELSE c - v
    BY <1>1, <1>2, <1>4, <1>5, <1>7
  <1>9. QED
    BY <1>1, <1>2, <1>3, <1>6, <1>8 DEF Unclear, v, a, c

\* The dataset a measurement becomes when its payload is intact.
DataOf(t, m) == Convert(ToJson(ReadData(Line(t, 0, 0, 1, GetData(Payload(m))))))

\* What a reader learns of the dataset is what was measured.
LEMMA ReadingOfData ==
    ASSUME NEW m \in Measurements, NEW t
    PROVE  Reading(DataOf(t, m)) = Report(m)
  <1> DEFINE d == GetData(Payload(m))
             data == DataOf(t, m)
             s == Sent(m)
  <1>1. Payload(m) \in Payloads
    BY PayloadTyped
  <1>2. Typed(d)
    BY <1>1, GetDataTyped
  <1>3. \A f \in DataNames : d[f] = IF f = "alt" THEN Signed(s[f], 2) ELSE s[f]
    BY GetDataOfPayload
  <1>4. SentFits(s)
    BY SentRange
  <1> HIDE DEF d, s
  <1>5. /\ \A f \in DataNames \ {"lat", "lon"} : data[f] = d[f]
        /\ \A f \in {"lat", "lon"} :
               d[f] < Values(4) \div 2 => data[f] = ToDecimalDegrees(d[f])
    BY <1>2, ReadDataOfLine, ConvertOfJson DEF DataOf, d
  <1> HIDE DEF data
  <1>6. /\ data["temperature"] = s.temperature /\ data["humidity"] = s.humidity
        /\ data["pressure"] = s.pressure /\ data["gasres"] = s.gasres
        /\ data["fix"] = s.fix /\ data["sat"] = s.sat
        /\ data["speed"] = s.speed /\ data["power"] = s.power
        /\ data["voltage"] = s.voltage /\ data["alt"] = Signed(s.alt, 2)
        /\ data["lat"] = ToDecimalDegrees(s.lat)
        /\ data["lon"] = ToDecimalDegrees(s.lon)
    BY <1>3, <1>4, <1>5, Names DEF SentFits
  <1>7. /\ s.temperature = m.temperature /\ s.fix = m.fix /\ s.sat = m.sat
        /\ s.lat = m.lat /\ s.lon = m.lon /\ s.speed = m.speed
        /\ s.power = m.power /\ s.voltage = m.bavg
        /\ s.humidity = Clamp(DivRoundNearest(m.humidity, 1000), 1)
        /\ s.pressure = Clamp(DivRoundNearest(m.pressure, 100), 2)
        /\ s.gasres = Clamp(DivRoundNearest(m.gas_resistance, 1000), 2)
        /\ s.alt = Clamp(DivRoundNearest(m.alt, 10), 2)
    BY DEF Sent, s
  <1>8. /\ s.humidity = Room((m.humidity + 500) \div 1000, 1)
        /\ s.pressure = Room((m.pressure + 50) \div 100, 2)
        /\ s.gasres = Room((m.gas_resistance + 500) \div 1000, 2)
    <2>1. /\ m.humidity \in Nat /\ m.pressure \in Nat /\ m.gas_resistance \in Nat
          /\ 1 \in Widths /\ 2 \in Widths
      BY MeasurementAssumption DEF Widths
    <2>2. /\ DivRoundNearest(m.humidity, 1000) = (m.humidity + 500) \div 1000
          /\ DivRoundNearest(m.pressure, 100) = (m.pressure + 50) \div 100
          /\ DivRoundNearest(m.gas_resistance, 1000) = (m.gas_resistance + 500) \div 1000
      BY DEF DivRoundNearest
    <2>3. /\ (m.humidity + 500) \div 1000 \in Nat /\ (m.pressure + 50) \div 100 \in Nat
          /\ (m.gas_resistance + 500) \div 1000 \in Nat
      BY <2>1
    <2>4. QED
      BY <1>7, <2>1, <2>2, <2>3, ClampRange
  <1>9. /\ Padded(data["lat"]) = Position(m.lat)
        /\ Padded(data["lon"]) = Position(m.lon)
    BY <1>6, <1>7, MeasurementAssumption, PositionOfDegrees DEF ToDecimalDegrees
  <1>10. (IF data["alt"] >= 0 THEN data["alt"] ELSE Unclear)
            = IF m.alt < 5 * Values(2) - 5 THEN (m.alt + 5) \div 10 ELSE Unclear
    BY <1>6, <1>7, MeasurementAssumption, AltitudeClear
  <1>11. QED
    BY <1>6, <1>7, <1>8, <1>9, <1>10 DEF Reading, Report, data

----------------------------------------------------------------------------
(* The inductive invariant *)

\* What the receiver prints for a payload, and what the application makes of it.
LineOf(t, c, p) == Line(t, 0, 0, c, GetData(p))

Lines == {LineOf(t, c, p) : t \in Nat, c \in {0, 1}, p \in Payloads}

\* The payload is one of the measurements ms.
Transmitted(ms, p) == \E i \in DOMAIN ms : p = Payload(ms[i])

\* A line whose CRC flag is set was made of one of their
\* payloads.
TrueLine(ms, l) ==
    \E t \in Nat, c \in {0, 1}, p \in Payloads :
        l = LineOf(t, c, p) /\ (c = 1 => Transmitted(ms, p))

\* A dataset whose CRC flag is set tells of one of them.
TrueData(ms, data) ==
    /\ DOMAIN data = FieldNames
    /\ data["crc"] = 1 => \E i \in DOMAIN ms : Reading(data) = Report(ms[i])

\* Wherever data is on its way, the CRC flag goes with it and tells the truth.
WayInv ==
    /\ taken \in Seq(Measurements) /\ Len(taken) <= MaxTaken
    /\ radio # None => /\ radio.payload \in Payloads /\ radio.crc \in {0, 1}
                       /\ radio.crc = 1 => Transmitted(taken, radio.payload)
    /\ tty \in Seq(Lines) /\ Len(tty) <= QueueMax
    /\ \A i \in DOMAIN tty : TrueLine(taken, tty[i])
    /\ web # None => TrueData(taken, web)
    /\ answer # None => TrueData(taken, answer.data)
    /\ page # None => DOMAIN page = FieldNames

\* What was transmitted stays transmitted.
LEMMA TakenGrows ==
    ASSUME taken \in Seq(Measurements), [Next]_vars
    PROVE  /\ \A p : Transmitted(taken, p) => Transmitted(taken', p)
           /\ \A l : TrueLine(taken, l) => TrueLine(taken', l)
           /\ \A data : TrueData(taken, data) => TrueData(taken', data)
  <1>1. \A i \in DOMAIN taken : i \in DOMAIN taken' /\ taken'[i] = taken[i]
    <2>1. CASE UNCHANGED taken
      BY <2>1
    <2>2. CASE \E m \in Measurements : taken' = Append(taken, m)
      BY <2>2
    <2>3. QED
      BY <2>1, <2>2 DEF Next, vars, DoMeas, WriteReset, StartOver, Damage,
                        LosePayload, ReceiveData, Post, Poll, Ui
  <1>2. \A p : Transmitted(taken, p) => Transmitted(taken', p)
    BY <1>1 DEF Transmitted
  <1>3. \A l : TrueLine(taken, l) => TrueLine(taken', l)
    BY <1>2 DEF TrueLine
  <1>4. \A data : TrueData(taken, data) => TrueData(taken', data)
    BY <1>1 DEF TrueData
  <1>5. QED
    BY <1>2, <1>3, <1>4

\* What the application makes of a line has all fields, and the line's CRC flag.
LEMMA DataOfLine ==
    ASSUME NEW t, NEW c \in {0, 1}, NEW p \in Payloads
    PROVE  LET data == Convert(ToJson(ReadData(LineOf(t, c, p))))
           IN  DOMAIN data = FieldNames /\ data["crc"] = c
  <1> DEFINE d == GetData(p)
  <1>1. Typed(d)
    BY GetDataTyped
  <1> DEFINE env == ReadData(LineOf(t, c, p))
  <1> HIDE DEF d
  <1>2. /\ DOMAIN env = FieldNames
        /\ \A f \in DataNames : env[f] = d[f]
        /\ env["crc"] = c
    <2>1. 0 \in Int /\ LineOf(t, c, p) = Line(t, 0, 0, c, d)
      BY DEF LineOf, d
    <2>2. QED
      BY <1>1, <2>1, ReadDataOfLine
  <1> HIDE DEF env
  <1>3. DOMAIN Convert(ToJson(env)) = FieldNames /\ Convert(ToJson(env))["crc"] = c
    BY <1>1, <1>2, ConvertOfJson
  <1>4. QED
    BY <1>3 DEF env

\* A true line becomes a true dataset.
LEMMA TrueLineTrueData ==
    ASSUME NEW ms \in Seq(Measurements), NEW l, TrueLine(ms, l)
    PROVE  TrueData(ms, Convert(ToJson(ReadData(l))))
  <1> DEFINE data == Convert(ToJson(ReadData(l)))
  <1>1. PICK t \in Nat, c \in {0, 1}, p \in Payloads :
            l = LineOf(t, c, p) /\ (c = 1 => Transmitted(ms, p))
    BY DEF TrueLine
  <1>2. DOMAIN data = FieldNames /\ data["crc"] = c
    BY <1>1, DataOfLine
  <1>3. ASSUME c = 1 PROVE \E i \in DOMAIN ms : Reading(data) = Report(ms[i])
    <2>1. PICK i \in DOMAIN ms : p = Payload(ms[i])
      BY <1>1, <1>3 DEF Transmitted
    <2>2. ms[i] \in Measurements
      BY <2>1
    <2>3. data = DataOf(t, ms[i])
      BY <1>1, <1>3, <2>1 DEF DataOf, LineOf
    <2>4. QED
      BY <2>2, <2>3, ReadingOfData
  <1>4. QED
    BY <1>2, <1>3 DEF TrueData

\* A dataset is not the empty value of the variables that hold one.
LEMMA DataNotNone ==
    ASSUME NEW data, DOMAIN data = FieldNames
    PROVE  data # None
  <1>1. "crc" \in DOMAIN data
    BY Names
  <1>2. DOMAIN None = {}
    BY DEF None
  <1>3. QED
    BY <1>1, <1>2

\* Nothing is on its way at first.
LEMMA WayInvInit == Init => WayInv
  BY PipelineAssumption DEF Init, WayInv

\* Each leg hands on what it got, or loses it.
LEMMA WayInvNext == WayInv /\ [Next]_vars => WayInv'
  <1> SUFFICES ASSUME WayInv, [Next]_vars PROVE WayInv'
    OBVIOUS
  <1>1. /\ \A p : Transmitted(taken, p) => Transmitted(taken', p)
        /\ \A l : TrueLine(taken, l) => TrueLine(taken', l)
        /\ \A data : TrueData(taken, data) => TrueData(taken', data)
    BY TakenGrows DEF WayInv
  <1>2. CASE DoMeas
    <2>1. PICK m \in Measurements :
              /\ taken' = Append(taken, m)
              /\ radio' = [payload |-> Payload(m), crc |-> 1]
      BY <1>2 DEF DoMeas
    <2>2. taken' \in Seq(Measurements) /\ Len(taken') <= MaxTaken
      BY <1>2, <2>1, PipelineAssumption DEF DoMeas, Time, WayInv
    <2>3. Transmitted(taken', Payload(m))
      <3>1. Len(taken) + 1 \in DOMAIN taken' /\ taken'[Len(taken) + 1] = m
        BY <2>1 DEF WayInv
      <3>2. QED
        BY <3>1 DEF Transmitted
    <2>4. Payload(m) \in Payloads
      BY PayloadTyped
    <2>5. UNCHANGED <<tty, web, answer, page>>
      BY <1>2 DEF DoMeas
    <2>6. QED
      BY <1>1, <2>1, <2>2, <2>3, <2>4, <2>5 DEF WayInv
  <1>3. CASE WriteReset \/ StartOver
    <2>1. UNCHANGED <<taken, radio, tty, web, answer, page>>
      BY <1>3 DEF WriteReset, StartOver
    <2>2. QED
      BY <1>1, <2>1 DEF WayInv
  <1>4. CASE Damage
    <2>1. PICK i \in Damaged :
              radio' = [payload |-> [radio.payload EXCEPT ![i] = (@ + 1) % BYTE],
                        crc |-> 0]
      BY <1>4 DEF Damage
    <2>2. radio.payload \in Payloads /\ i \in 1 .. 24
      BY <1>4, PipelineAssumption DEF Damage, WayInv
    <2>3. (radio.payload[i] + 1) % BYTE \in 0 .. BYTE - 1
      BY <2>2, CodecAssumption DEF Payloads
    <2>4. radio'.payload \in Payloads
      BY <2>1, <2>2, <2>3 DEF Payloads
    <2>5. QED
      BY <1>1, <1>4, <2>1, <2>4 DEF Damage, WayInv
  <1>5. CASE LosePayload
    BY <1>1, <1>5 DEF LosePayload, WayInv
  <1>6. CASE ReceiveData
    <2> DEFINE l == Line(Time, 0, 0, radio.crc, GetData(radio.payload))
    <2>1. /\ radio # None /\ radio' = None
          /\ tty' = IF Len(tty) < QueueMax THEN Append(tty, l) ELSE tty
          /\ UNCHANGED <<taken, web, answer, page>>
      BY <1>6 DEF ReceiveData
    <2>2. TrueLine(taken, l) /\ l \in Lines
      <3>1. Time \in Nat
        BY DEF Time, WayInv
      <3>2. QED
        BY <2>1, <3>1 DEF TrueLine, Lines, LineOf, WayInv
    <2> HIDE DEF l
    <2>3. tty' \in Seq(Lines) /\ Len(tty') <= QueueMax
      BY <2>1, <2>2, PipelineAssumption DEF WayInv
    <2>4. \A i \in DOMAIN tty' : TrueLine(taken, tty'[i])
      BY <2>1, <2>2 DEF WayInv
    <2>5. QED
      BY <1>1, <2>1, <2>3, <2>4 DEF WayInv
  <1>7. CASE Post
    <2>1. /\ tty # <<>> /\ tty' = Tail(tty)
          /\ web' = web \/ web' = Convert(ToJson(ReadData(Head(tty))))
          /\ UNCHANGED <<taken, radio, answer, page>>
      BY <1>7 DEF Post
    <2>2. TrueLine(taken, Head(tty))
      BY <2>1 DEF WayInv
    <2>3. TrueData(taken, Convert(ToJson(ReadData(Head(tty)))))
      BY <2>2, TrueLineTrueData DEF WayInv
    <2>4. web' # None => TrueData(taken, web')
      BY <2>1, <2>3 DEF WayInv
    <2>5. tty' \in Seq(Lines) /\ Len(tty') <= QueueMax
      BY <2>1, PipelineAssumption DEF WayInv
    <2>6. \A i \in DOMAIN tty' : TrueLine(taken, tty'[i])
      BY <2>1 DEF WayInv
    <2>7. QED
      BY <1>1, <2>1, <2>4, <2>5, <2>6 DEF WayInv
  <1>8. CASE Poll
    <2>1. TrueData(taken, web) /\ answer'.data = web
      BY <1>8 DEF Poll, WayInv
    <2>2. QED
      BY <1>1, <1>8, <2>1 DEF Poll, WayInv
  <1>9. CASE Ui
    <2>1. TrueData(taken, answer.data)
      BY <1>9 DEF Ui, WayInv
    <2>2. page' # None => DOMAIN page' = FieldNames
      BY <1>9, <2>1 DEF Ui, TrueData, WayInv
    <2>3. QED
      BY <1>1, <1>9, <2>2 DEF Ui, WayInv
  <1>10. CASE UNCHANGED vars
    BY <1>1, <1>10 DEF vars, WayInv
  <1>11. QED
    BY <1>2, <1>3, <1>4, <1>5, <1>6, <1>7, <1>8, <1>9, <1>10 DEF Next

\* At every place between the radio and the page there is data of its form, and
\* data whose CRC flag is set was made of a measurement that was transmitted,
\* whatever noise and losses hit it on the way.
THEOREM WayInvariant == Spec => []WayInv
  BY WayInvInit, WayInvNext, PTL DEF Spec

\* Whatever is lost or damaged on the way, every part holds data of the form it
\* declares: payloads are bytes, and a number of a line fits into the client's
\* types.
THEOREM TypeCorrect == Spec => []TypeOK
  <1>1. ASSUME NEW l, l \in Lines
        PROVE  /\ Len(l) = 16
               /\ \A f \in DOMAIN Offsets :
                      l[Fields[f][1]] = ReadField(f, l[Fields[f][1]])
    <2>1. PICK t \in Nat, c \in {0, 1}, p \in Payloads : l = LineOf(t, c, p)
      BY <1>1 DEF Lines
    <2>2. Typed(GetData(p))
      BY GetDataTyped
    <2>3. Len(l) = 16 /\ \A f \in DataNames : l[Fields[f][1]] = GetData(p)[f]
      BY <2>1, LineField DEF LineOf
    <2>4. QED
      BY <2>2, <2>3 DEF Typed, DataNames
  <1>2. WayInv => TypeOK
    <2> SUFFICES ASSUME WayInv PROVE TypeOK
      OBVIOUS
    <2>1. \A i \in DOMAIN tty : tty[i] \in Lines
      BY DEF WayInv
    <2>2. QED
      BY <1>1, <2>1 DEF WayInv, TypeOK, TrueData
  <1>3. QED
    BY WayInvariant, <1>2, PTL

----------------------------------------------------------------------------
(* The page implements Telemetry *)

\* A measurement is a step of Telemetry, and so is a page that changes; all other
\* steps change neither.
LEMMA TelemetryStep ==
    WayInv /\ [Next]_vars => [T!Measure \/ T!Show]_<<taken, PageReport>>
  <1> SUFFICES ASSUME WayInv, [Next]_vars
               PROVE  T!Measure \/ T!Show \/ UNCHANGED <<taken, PageReport>>
    OBVIOUS
  <1>1. CASE DoMeas
    <2>1. UNCHANGED PageReport
      BY <1>1 DEF DoMeas, PageReport
    <2>2. QED
      BY <1>1, <2>1 DEF DoMeas, T!Measure
  <1>2. CASE Ui /\ page' # page
    <2>1. page' = answer.data /\ answer.data["crc"] = 1 /\ TrueData(taken, answer.data)
      BY <1>2 DEF Ui, WayInv
    <2>2. page' # None
      BY <2>1, DataNotNone DEF TrueData
    <2>3. PageReport' = Reading(answer.data)
      BY <2>1, <2>2 DEF PageReport
    <2>4. PICK i \in DOMAIN taken : Reading(answer.data) = Report(taken[i])
      BY <2>1 DEF TrueData
    <2>5. UNCHANGED taken
      BY <1>2 DEF Ui
    <2>6. QED
      BY <2>3, <2>4, <2>5 DEF T!Show
  <1>3. CASE UNCHANGED <<taken, page>>
    BY <1>3 DEF PageReport
  <1>4. QED
    BY <1>1, <1>2, <1>3 DEF Next, vars, WriteReset, StartOver, Damage,
                            LosePayload, ReceiveData, Post, Poll, Ui

\* Through payload, line, JSON and conversion the page shows what was measured
\* and nothing that was damaged on the way, for every set of measurements the
\* drivers' types allow.
THEOREM PageIsTelemetry == Spec => ImplementsTelemetry
  <1>1. Init => T!Init
    <2>1. <<>> = [f \in {} |-> 0]
      OBVIOUS
    <2>2. QED
      BY <2>1 DEF Init, T!Init, T!Nothing, PageReport, None
  <1>2. QED
    BY WayInvInit, WayInvNext, TelemetryStep, <1>1, PTL
       DEF Spec, ImplementsTelemetry, T!Spec

----------------------------------------------------------------------------
(* The track *)

\* What may be on the card.
CardBlocks ==
    {Blank, ResetRecord} \cup {CardRecord(t, m) : t \in Nat, m \in Measurements}

Fixed == {m \in Measurements : m.fix # 0}

\* The blocks among bs of the card c that have a point in the track.
Points(c, bs) == {b \in Blocks : b \in bs /\ HasFix(c[b])}

\* The point of the track lies where the measurement was made.
Matches(r, m) ==
    /\ Padded(TrackPoint(r).lat) = Position(m.lat)
    /\ Padded(TrackPoint(r).lon) = Position(m.lon)
    /\ TrackPoint(r).time = m.utc
    /\ 10 * TrackPoint(r).ele - m.alt \in -4 .. 5

\* The records with a fix in the blocks bs, in order, match those of the
\* measurements ms that had one.
Tracked(c, bs, ms) ==
    LET rs == InOrder(c, Points(c, bs))
        fs == InOrder(ms, {i \in DOMAIN ms : ms[i] \in Fixed})
    IN  /\ rs \in Seq(CardBlocks) /\ fs \in Seq(Measurements)
        /\ Len(rs) = Len(fs)
        /\ \A i \in 1 .. Len(rs) : Matches(rs[i], fs[i])

TrackInv ==
    /\ taken \in Seq(Measurements) /\ written \in Seq(Measurements)
    /\ card \in [Blocks -> CardBlocks]
    /\ sdaddr \in Nat
    /\ stored \in SUBSET Blocks /\ \A b \in stored : b <= sdaddr
    /\ Tracked(card, stored, written)
    /\ \A b \in Blocks \ stored : HasFix(card[b]) => card[b] = before[b]

\* Blocks are finitely many numbers.
LEMMA PointsFinite ==
    ASSUME NEW c, NEW bs
    PROVE  Points(c, bs) \in SUBSET Int /\ IsFiniteSet(Points(c, bs))
  <1>1. Points(c, bs) \in SUBSET Blocks
    BY DEF Points
  <1>2. Blocks \in SUBSET Int /\ IsFiniteSet(Blocks)
    BY PipelineAssumption, FS_Interval DEF Blocks
  <1>3. QED
    BY <1>1, <1>2, FS_Subset

\* A record has a fix when its measurement has one, and matches it.
LEMMA RecordMatches ==
    ASSUME NEW t \in Nat, NEW m \in Measurements
    PROVE  /\ CardRecord(t, m) \in CardBlocks
           /\ HasFix(CardRecord(t, m)) <=> m \in Fixed
           /\ Matches(CardRecord(t, m), m)
  <1> DEFINE r == CardRecord(t, m)
  <1>1. /\ Len(r) = FIELD_LEN /\ r[8] = m.utc /\ r[9] = m.fix
        /\ r[11] = m.lat /\ r[12] = m.lon /\ r[13] = m.alt
    BY DEF CardRecord, FIELD_LEN
  <1>2. r \in CardBlocks
    BY DEF CardBlocks
  <1> HIDE DEF r
  <1>3. HasFix(r) <=> m \in Fixed
    BY <1>1 DEF Fixed, HasFix
  <1>4. /\ Padded(TrackPoint(r).lat) = Position(m.lat)
        /\ Padded(TrackPoint(r).lon) = Position(m.lon)
    BY <1>1, MeasurementAssumption, PositionOfDegrees DEF TrackPoint
  <1>5. 10 * TrackPoint(r).ele - m.alt \in -4 .. 5
    <2>1. \A n \in Nat : 10 * ((n + 5) \div 10) - n \in -4 .. 5
      OBVIOUS
    <2>2. m.alt \in Nat
      BY MeasurementAssumption
    <2>3. TrackPoint(r).ele = (m.alt + 5) \div 10
      BY <1>1 DEF TrackPoint
    <2>4. QED
      BY <2>1, <2>2, <2>3
  <1>6. TrackPoint(r).time = m.utc
    BY <1>1 DEF TrackPoint
  <1>7. QED
    BY <1>2, <1>3, <1>4, <1>5, <1>6 DEF Matches, r

\* Resets and blank blocks have no fix.
LEMMA OtherBlocks ==
    /\ Blank \in CardBlocks /\ ResetRecord \in CardBlocks
    /\ ~HasFix(Blank) /\ ~HasFix(ResetRecord)
  <1>1. Len(Blank) # FIELD_LEN /\ Len(ResetRecord) # FIELD_LEN
    BY DEF Blank, ResetRecord, FIELD_LEN
  <1>2. QED
    BY <1>1 DEF CardBlocks, HasFix

\* What happens to other blocks does not matter.
LEMMA TrackedAgree ==
    ASSUME NEW c, NEW d, NEW bs \in SUBSET Blocks, NEW ms,
           \A b \in bs : d[b] = c[b], Tracked(c, bs, ms)
    PROVE  Tracked(d, bs, ms)
  <1>1. Points(d, bs) = Points(c, bs)
    BY DEF Points
  <1>2. \A b \in Points(c, bs) : d[b] = c[b]
    BY DEF Points
  <1>3. InOrder(d, Points(c, bs)) = InOrder(c, Points(c, bs))
    BY <1>2, PointsFinite, InOrderAgree
  <1>4. QED
    BY <1>1, <1>3 DEF Tracked

\* A measurement written behind the others keeps them matching.
LEMMA TrackedWithRecord ==
    ASSUME NEW c \in [Blocks -> CardBlocks], NEW bs \in SUBSET Blocks,
           NEW ms \in Seq(Measurements), Tracked(c, bs, ms),
           NEW a \in Blocks, \A b \in bs : b < a,
           NEW t \in Nat, NEW m \in Measurements
    PROVE  Tracked([c EXCEPT ![a] = CardRecord(t, m)], bs \cup {a}, Append(ms, m))
  <1> DEFINE r == CardRecord(t, m)
             d == [c EXCEPT ![a] = r]
             ns == Append(ms, m)
             K == Points(d, bs)
             rs == InOrder(d, K)
             fs == InOrder(ms, {i \in DOMAIN ms : ms[i] \in Fixed})
             rs2 == InOrder(d, Points(d, bs \cup {a}))
             fs2 == InOrder(ns, {i \in DOMAIN ns : ns[i] \in Fixed})
  <1>1. r \in CardBlocks /\ (HasFix(r) <=> m \in Fixed) /\ Matches(r, m)
    BY RecordMatches
  <1> HIDE DEF r
  <1>2. d[a] = r /\ \A b \in bs : d[b] = c[b]
    OBVIOUS
  <1>3. Tracked(d, bs, ms)
    BY <1>2, TrackedAgree
  <1> HIDE DEF d
  <1>4. rs2 = IF m \in Fixed THEN Append(rs, r) ELSE rs
    <2>1. Points(d, bs \cup {a}) = IF m \in Fixed THEN K \cup {a} ELSE K
      BY <1>1, <1>2 DEF Points
    <2>2. a \in Int /\ \A k \in K : k < a
      BY PipelineAssumption DEF Points, Blocks
    <2>3. InOrder(d, K \cup {a}) = Append(rs, d[a])
      BY <2>2, PointsFinite, InOrderAppend
    <2>4. QED
      BY <1>2, <2>1, <2>3
  <1>5. fs2 = IF m \in Fixed THEN Append(fs, m) ELSE fs
    BY SelectAppend
  <1>6. /\ rs \in Seq(CardBlocks) /\ fs \in Seq(Measurements)
        /\ Len(rs) = Len(fs)
        /\ \A i \in 1 .. Len(rs) : Matches(rs[i], fs[i])
    BY <1>3 DEF Tracked
  <1>7. Tracked(d, bs \cup {a}, ns) <=>
            /\ rs2 \in Seq(CardBlocks) /\ fs2 \in Seq(Measurements)
            /\ Len(rs2) = Len(fs2)
            /\ \A i \in 1 .. Len(rs2) : Matches(rs2[i], fs2[i])
    BY DEF Tracked
  <1> HIDE DEF rs, fs, rs2, fs2
  <1>8. CASE m \in Fixed
    <2>1. rs2 = Append(rs, r) /\ fs2 = Append(fs, m)
      BY <1>4, <1>5, <1>8
    <2>2. ASSUME NEW i \in 1 .. Len(rs2) PROVE Matches(rs2[i], fs2[i])
      <3>1. CASE i \in 1 .. Len(rs)
        <4>1. rs2[i] = rs[i] /\ fs2[i] = fs[i]
          BY <1>1, <1>6, <2>1, <3>1
        <4>2. QED
          BY <1>6, <3>1, <4>1
      <3>2. CASE i = Len(rs) + 1
        <4>1. rs2[i] = r /\ fs2[i] = m
          BY <1>1, <1>6, <2>1, <3>2
        <4>2. QED
          BY <1>1, <4>1
      <3>3. Len(rs) \in Nat /\ Len(rs2) = Len(rs) + 1
        BY <1>1, <1>6, <2>1
      <3>4. QED
        BY <2>2, <3>1, <3>2, <3>3
    <2>3. rs2 \in Seq(CardBlocks) /\ fs2 \in Seq(Measurements) /\ Len(rs2) = Len(fs2)
      BY <1>1, <1>6, <2>1
    <2>4. QED
      BY <1>7, <2>2, <2>3 DEF d, r
  <1>9. CASE m \notin Fixed
    BY <1>4, <1>5, <1>6, <1>7, <1>9 DEF d, r
  <1>10. QED
    BY <1>8, <1>9

\* No blocks, and no measurements.
LEMMA TrackedNothing ==
    ASSUME NEW c
    PROVE  Tracked(c, {}, <<>>)
  <1>1. Points(c, {}) = {} /\ {i \in DOMAIN <<>> : <<>>[i] \in Fixed} = {}
    BY DEF Points
  <1>2. InOrder(c, {}) = <<>> /\ InOrder(<<>>, {}) = <<>>
    BY InOrderEmpty
  <1>3. /\ InOrder(c, Points(c, {})) = <<>>
        /\ InOrder(<<>>, {i \in DOMAIN <<>> : <<>>[i] \in Fixed}) = <<>>
    BY <1>1, <1>2
  <1>4. /\ <<>> \in Seq(CardBlocks) /\ <<>> \in Seq(Measurements)
        /\ Len(<<>>) = 0 /\ 1 .. 0 = {}
    OBVIOUS
  <1>5. QED
    BY <1>3, <1>4 DEF Tracked

\* A new card has an empty track.
LEMMA TrackInvInit == Init => TrackInv
  <1> SUFFICES ASSUME Init PROVE TrackInv
    OBVIOUS
  <1>1. card \in [Blocks -> CardBlocks] /\ sdaddr \in Nat /\ before = card
    BY OtherBlocks DEF Init
  <1>2. taken \in Seq(Measurements) /\ written \in Seq(Measurements)
    BY DEF Init
  <1>3. Tracked(card, stored, written)
    BY TrackedNothing DEF Init
  <1>4. stored = {}
    BY DEF Init
  <1>5. QED
    BY <1>1, <1>2, <1>3, <1>4 DEF TrackInv

\* The record of a reset leaves no point, and no other block is touched.
LEMMA ResetLeavesNone ==
    ASSUME TrackInv, NEW a \in Nat, WriteResetAt(a)
    PROVE  /\ card' \in [Blocks -> CardBlocks]
           /\ sdaddr' \in {a, a + 1}
           /\ \A b \in Blocks :
                  card'[b] = card[b] \/ (b = a + 1 /\ ~HasFix(card'[b]))
  <1>1. CASE a + 1 \in Blocks /\ card' = [card EXCEPT ![a + 1] = ResetRecord]
             /\ sdaddr' = a + 1
    BY <1>1, OtherBlocks DEF TrackInv
  <1>2. CASE card' = card /\ sdaddr' \in {a, a + 1}
    BY <1>2 DEF TrackInv
  <1>3. QED
    BY <1>1, <1>2 DEF WriteResetAt

\* Each block written leaves card and history matched.
LEMMA TrackInvNext == TrackInv /\ [Next]_vars => TrackInv'
  <1> SUFFICES ASSUME TrackInv, [Next]_vars PROVE TrackInv'
    OBVIOUS
  <1>1. CASE DoMeas
    <2> DEFINE a == sdaddr + 1
    <2>1. PICK m \in Measurements :
              /\ taken' = Append(taken, m)
              /\ \/ /\ a \in Blocks
                    /\ card' = [card EXCEPT ![a] = CardRecord(Time, m)]
                    /\ written' = Append(written, m)
                    /\ stored' = stored \cup {a}
                 \/ UNCHANGED <<card, written, stored>>
      BY <1>1, Zenon DEF DoMeas
    <2>2. taken' \in Seq(Measurements) /\ Time \in Nat
      BY <2>1 DEF TrackInv, Time
    <2>3. /\ sdaddr' = a /\ a \in Nat /\ before' = before
          /\ \A b \in stored : b < a /\ b <= a
      BY <1>1, PipelineAssumption DEF DoMeas, TrackInv, Blocks
    <2>4. CASE UNCHANGED <<card, written, stored>>
      BY <2>2, <2>3, <2>4 DEF TrackInv
    <2>5. CASE /\ a \in Blocks
               /\ card' = [card EXCEPT ![a] = CardRecord(Time, m)]
               /\ written' = Append(written, m)
               /\ stored' = stored \cup {a}
      <3>1. Tracked(card', stored', written')
        BY <2>2, <2>3, <2>5, TrackedWithRecord DEF TrackInv
      <3>2. card' \in [Blocks -> CardBlocks] /\ written' \in Seq(Measurements)
        BY <2>2, <2>5, RecordMatches DEF TrackInv
      <3>3. \A b \in Blocks \ stored' : card'[b] = card[b] /\ b \in Blocks \ stored
        BY <2>5 DEF TrackInv
      <3>4. \A b \in Blocks \ stored' : HasFix(card'[b]) => card'[b] = before'[b]
        BY <2>3, <3>3 DEF TrackInv
      <3>5. stored' \in SUBSET Blocks /\ \A b \in stored' : b <= sdaddr'
        BY <2>3, <2>5, PipelineAssumption DEF TrackInv, Blocks
      <3>6. QED
        BY <2>2, <2>3, <3>1, <3>2, <3>4, <3>5 DEF TrackInv
    <2>6. QED
      BY <2>1, <2>4, <2>5
  <1>2. CASE WriteReset
    <2>1. /\ WriteResetAt(sdaddr) /\ sdaddr \in Nat
          /\ UNCHANGED <<before, written, stored, taken>>
      BY <1>2 DEF WriteReset, TrackInv
    <2>2. /\ card' \in [Blocks -> CardBlocks] /\ sdaddr' \in {sdaddr, sdaddr + 1}
          /\ \A b \in Blocks :
                 card'[b] = card[b] \/ (b = sdaddr + 1 /\ ~HasFix(card'[b]))
      BY <2>1, ResetLeavesNone
    <2>3. /\ stored \in SUBSET Blocks
          /\ \A b \in stored : b \in Int /\ b <= sdaddr /\ b # sdaddr + 1
      BY <2>1, PipelineAssumption DEF TrackInv, Blocks
    <2>4. \A b \in stored : card'[b] = card[b]
      BY <2>2, <2>3
    <2>5. Tracked(card', stored, written)
      BY <2>3, <2>4, TrackedAgree DEF TrackInv
    <2>6. \A b \in Blocks \ stored : HasFix(card'[b]) => card'[b] = before[b]
      BY <2>2 DEF TrackInv
    <2>7. sdaddr' \in Nat /\ \A b \in stored : b <= sdaddr'
      BY <2>1, <2>2, <2>3
    <2>8. QED
      BY <2>1, <2>2, <2>3, <2>5, <2>6, <2>7 DEF TrackInv
  <1>3. CASE StartOver
    <2>1. PICK a \in 0 .. CardSize : WriteResetAt(a)
      BY <1>3 DEF StartOver
    <2>2. a \in Nat
      BY PipelineAssumption
    <2>3. /\ card' \in [Blocks -> CardBlocks] /\ sdaddr' \in Nat
          /\ \A b \in Blocks : card'[b] = card[b] \/ ~HasFix(card'[b])
      BY <2>1, <2>2, ResetLeavesNone
    <2>4. /\ before' = card /\ written' = <<>> /\ stored' = {} /\ taken' = taken
      BY <1>3 DEF StartOver
    <2>5. Tracked(card', stored', written')
      BY <2>4, TrackedNothing
    <2>6. QED
      BY <2>3, <2>4, <2>5 DEF TrackInv
  <1>4. CASE UNCHANGED <<taken, sdvars>>
    BY <1>4 DEF TrackInv, sdvars
  <1>5. QED
    BY <1>1, <1>2, <1>3, <1>4 DEF Next, vars, Damage, LosePayload, ReceiveData,
                                  Post, Poll, Ui

\* For every pattern of records that failed, resets, power cuts and addresses
\* torn, the GPX track has the points of the measurements with a fix that were
\* written since the transmitter last started over, in order, each at its place
\* and altitude; any other point is of a record that was on the card before.
THEOREM TrackIsRight == Spec => []TrackRight
  <1>1. TrackInv => TrackRight
    <2> SUFFICES ASSUME TrackInv PROVE TrackRight
      OBVIOUS
    <2> DEFINE c == Only(stored)
               K == Points(card, stored)
               rs == InOrder(card, K)
               fs == InOrder(written, {i \in DOMAIN written : written[i] \in Fixed})
    <2>1. DOMAIN c = Blocks /\ {b \in Blocks : HasFix(c[b])} = K
      BY OtherBlocks DEF Only, Points
    <2>2. \A b \in K : c[b] = card[b]
      BY DEF Only, Points
    <2>3. InOrder(c, K) = rs
      BY <2>2, PointsFinite, InOrderAgree
    <2>4. {i \in DOMAIN written : written[i].fix # 0}
            = {i \in DOMAIN written : written[i] \in Fixed}
      BY DEF TrackInv, Fixed
    <2>5. /\ rs \in Seq(CardBlocks) /\ fs \in Seq(Measurements)
          /\ Len(rs) = Len(fs)
          /\ \A i \in 1 .. Len(rs) : Matches(rs[i], fs[i])
      BY DEF TrackInv, Tracked
    <2> HIDE DEF c, K
    <2>6. Track(c) = [i \in DOMAIN rs |-> TrackPoint(rs[i])]
      BY <2>1, <2>3 DEF Track
    <2> HIDE DEF rs, fs
    <2>7. /\ Len(Track(c)) = Len(fs) /\ DOMAIN Track(c) = 1 .. Len(rs)
          /\ \A i \in 1 .. Len(rs) : Track(c)[i] = TrackPoint(rs[i])
      BY <2>5, <2>6
    <2>8. \A i \in DOMAIN Track(c) :
              /\ Padded(Track(c)[i].lat) = Position(fs[i].lat)
              /\ Padded(Track(c)[i].lon) = Position(fs[i].lon)
              /\ Track(c)[i].time = fs[i].utc
              /\ 10 * Track(c)[i].ele - fs[i].alt \in -4 .. 5
      BY <2>5, <2>7 DEF Matches
    <2>9. InOrder(written, {i \in DOMAIN written : written[i].fix # 0}) = fs
      BY <2>4 DEF fs
    <2>10. \A b \in Blocks \ stored : HasFix(card[b]) => card[b] = before[b]
      BY DEF TrackInv
    <2>11. QED
      BY <2>7, <2>8, <2>9, <2>10 DEF TrackRight, c
  <1>2. QED
    BY TrackInvInit, TrackInvNext, <1>1, PTL DEF Spec

=============================================================================
