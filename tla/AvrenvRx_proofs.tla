--------------------------- MODULE AvrenvRx_proofs ---------------------------
(***************************************************************************)
(* Proofs about the receiver, for every size of its counters and every     *)
(* bound on interrupts the assumption of AvrenvRx allows.                  *)
(***************************************************************************)
EXTENDS AvrenvRx, TLAPS

----------------------------------------------------------------------------
(* The operators the steps are built from *)

\* Counting modulo PIT_MOD stays below it.
LEMMA NextCountRange ==
    ASSUME NEW p \in 0 .. PIT_MOD - 1
    PROVE  NextCount(p) \in 0 .. PIT_MOD - 1
  <1>1. p + 1 \in Int /\ PIT_MOD \in Nat \ {0}
    BY CountAssumption
  <1>2. QED
    BY <1>1 DEF NextCount

\* What a read of the count returns, torn or not, is a number.
LEMMA ValueRange ==
    ASSUME NEW m \in {0} \cup Splits, pitints \in 0 .. PIT_MOD - 1
    PROVE  Value(m) \in Int
  <1>1. CASE m = 0
    BY <1>1 DEF Value
  <1>2. CASE m # 0
    <2>1. m \in Nat \ {0}
      BY <1>2, CountAssumption
    <2>2. NextCount(pitints) \in Int
      BY NextCountRange
    <2>3. pitints % m \in Int /\ NextCount(pitints) % m \in Int
      BY <2>1, <2>2
    <2>4. QED
      BY <1>2, <2>2, <2>3 DEF Value
  <1>3. QED
    BY <1>1, <1>2

\* The duration fits into 8 bits, whatever the counters show.
LEMMA DurationRange ==
    ASSUME NEW now \in Int, NEW then \in Int
    PROVE  Duration(now, then) \in 0 .. UCHAR_MAX
  <1>1. now - then \in Int /\ PIT_MOD \in Nat \ {0} /\ UCHAR_MAX \in Nat
    BY CountAssumption
  <1>2. (now - then) % PIT_MOD \in Nat
    BY <1>1
  <1>3. QED
    BY <1>1, <1>2 DEF Duration

\* rxtstart holds what is left of the count.
LEMMA StartRange ==
    ASSUME NEW v \in Int
    PROVE  v % START_MOD \in 0 .. START_MOD - 1
  BY CountAssumption

\* The seconds that are kept.
LEMMA LaterRange ==
    ASSUME NEW s \in 0 .. UCHAR_MAX + MaxAwake + 1
    PROVE  Later(s) \in 0 .. UCHAR_MAX + MaxAwake + 1
  BY CountAssumption DEF Later

\* Waking up changes nothing for a program that is awake.
LEMMA WakeRange ==
    ASSUME NEW p \in Locations
    PROVE  /\ Wake(p) \in Locations
           /\ Wake(p) # "asleep"
           /\ p # "asleep" => Wake(p) = p
           /\ p = "asleep" => Wake(p) = "check"
  BY DEF Wake, Locations, Handling

----------------------------------------------------------------------------
(* Type correctness *)

LEMMA TypeInit == Init => TypeOK
  <1> SUFFICES ASSUME Init PROVE TypeOK
    OBVIOUS
  <1>1. pc \in Locations /\ isr \in Steps
    BY DEF Init, Locations, Handling, Steps
  <1>2. /\ 0 \in 0 .. PIT_MOD - 1
        /\ 0 \in 0 .. START_MOD - 1
        /\ 0 \in 0 .. UCHAR_MAX
        /\ 0 \in 0 .. MaxAwake
        /\ 0 \in 0 .. MaxEdges
        /\ 0 \in 0 .. UCHAR_MAX + MaxAwake + 1
    BY CountAssumption
  <1>3. flags \in SUBSET Pins /\ loaded \in SUBSET Pins
    BY DEF Init
  <1>4. noted \in BOOLEAN /\ fits \in BOOLEAN /\ exact \in BOOLEAN
    BY DEF Init
  <1>5. radio \in {"rx", "full", "off"} /\ age \in Nat
    BY DEF Init
  <1>6. QED
    BY <1>1, <1>2, <1>3, <1>4, <1>5 DEF Init, TypeOK

\* A second that is counted leaves the counters in their ranges.
LEMMA CountTyped ==
    ASSUME TypeOK, Count
    PROVE  /\ pitints' \in 0 .. PIT_MOD - 1
           /\ awake' \in 0 .. MaxAwake
           /\ since' \in 0 .. UCHAR_MAX + MaxAwake + 1
           /\ edges' \in 0 .. MaxEdges
  BY NextCountRange, LaterRange, CountAssumption DEF Count, TypeOK

LEMMA TypeNext == TypeOK /\ [Next]_vars => TypeOK'
  <1> SUFFICES ASSUME TypeOK, [Next]_vars PROVE TypeOK'
    OBVIOUS
  <1> USE DEF TypeOK
  <1>1. CASE Check
    BY <1>1 DEF Check, At, Locations, Handling, isrVars, radioVars, countVars
  <1>2. ASSUME NEW m \in {0} \cup Splits, SetDur(m) PROVE TypeOK'
    <2>1. dur' \in 0 .. UCHAR_MAX
      <3>1. Value(m) \in Int /\ start \in Int
        BY ValueRange
      <3>2. QED
        BY <1>2, <3>1, DurationRange DEF SetDur
    <2>2. /\ pitints' \in 0 .. PIT_MOD - 1
          /\ awake' \in 0 .. MaxAwake
          /\ since' \in 0 .. UCHAR_MAX + MaxAwake + 1
          /\ edges' \in 0 .. MaxEdges
      BY <1>2, CountTyped DEF SetDur, ReadCount, countVars
    <2>3. exact' \in BOOLEAN
      BY <1>2 DEF SetDur, Whole
    <2>4. pc' \in Locations
      BY <1>2 DEF SetDur, Locations, Handling
    <2>5. QED
      BY <1>2, <2>1, <2>2, <2>3, <2>4 DEF SetDur, isrVars, radioVars
  <1>3. ASSUME NEW m \in {0} \cup Splits, SetStart(m) PROVE TypeOK'
    <2>1. start' \in 0 .. START_MOD - 1
      BY <1>3, ValueRange, StartRange DEF SetStart
    <2>2. /\ pitints' \in 0 .. PIT_MOD - 1
          /\ awake' \in 0 .. MaxAwake
          /\ since' \in 0 .. UCHAR_MAX + MaxAwake + 1
          /\ edges' \in 0 .. MaxEdges
      BY <1>3, NextCountRange, CountAssumption DEF SetStart
    <2>3. exact' \in BOOLEAN
      BY <1>3 DEF SetStart, Whole
    <2>4. pc' \in Locations
      BY <1>3 DEF SetStart, Locations, Handling
    <2>5. QED
      BY <1>3, <2>1, <2>2, <2>3, <2>4 DEF SetStart, isrVars, radioVars
  <1>4. CASE ReadPayload
    BY <1>4 DEF ReadPayload, Locations, Handling, isrVars, radioVars, countVars
  <1>5. CASE PrintLine
    BY <1>5 DEF PrintLine, StartReceive, Locations, isrVars, countVars
  <1>6. CASE PrintError
    BY <1>6 DEF PrintError, StartReceive, Locations, isrVars, countVars
  <1>7. CASE Sleep
    BY <1>7, CountAssumption DEF Sleep, Locations, isrVars, radioVars
  <1>8. CASE Interrupt
    BY <1>8 DEF Interrupt, Steps, Pins, radioVars, countVars
  <1>9. ASSUME NEW pin \in Pins, Test(pin) PROVE TypeOK'
    <2>1. isr' \in Steps
      BY <1>9 DEF Test, Behind, Steps, Pins
    <2>2. QED
      BY <1>9, <2>1 DEF Test, radioVars, countVars
  <1>10. ASSUME NEW pin \in Pins, Clear(pin) PROVE TypeOK'
    BY <1>10 DEF Clear, Steps, radioVars, countVars
  <1>11. ASSUME NEW pin \in Pins, Call(pin) PROVE TypeOK'
    <2>1. isr' \in Steps
      BY <1>11 DEF Call, Behind, Steps, Pins
    <2>2. QED
      BY <1>11, <2>1 DEF Call, radioVars, countVars
  <1>12. CASE Reti
    BY <1>12, WakeRange DEF Reti, Steps, radioVars, countVars
  <1>13. CASE Tick
    <2>1. /\ pitints' \in 0 .. PIT_MOD - 1
          /\ awake' \in 0 .. MaxAwake
          /\ since' \in 0 .. UCHAR_MAX + MaxAwake + 1
          /\ edges' \in 0 .. MaxEdges
      BY <1>13, NextCountRange, LaterRange, CountTyped, CountAssumption DEF Tick
    <2>2. pc' \in Locations
      BY <1>13, WakeRange DEF Tick
    <2>3. age' \in Nat
      BY <1>13 DEF Tick
    <2>4. exact' \in BOOLEAN
      BY <1>13 DEF Tick
    <2>5. QED
      BY <1>13, <2>1, <2>2, <2>3, <2>4 DEF Tick, isrVars
  <1>14. ASSUME NEW ok \in BOOLEAN, Arrive(ok) PROVE TypeOK'
    BY <1>14 DEF Arrive, Pins, countVars
  <1>15. CASE OtherEdge
    BY <1>15, CountAssumption DEF OtherEdge, Pins, radioVars
  <1>16. CASE UNCHANGED vars
    BY <1>16 DEF vars
  <1>17. QED
    BY <1>1, <1>2, <1>3, <1>4, <1>5, <1>6, <1>7, <1>8, <1>9, <1>10, <1>11,
       <1>12, <1>13, <1>14, <1>15, <1>16 DEF Next, Main, Handler

\* The variables keep their types and ranges; in particular the duration fits
\* into 8 bits and rxtstart into 16, whatever the counters show.
THEOREM TypeCorrect == Spec => []TypeOK
  BY TypeInit, TypeNext, PTL DEF Spec

----------------------------------------------------------------------------
(* The interrupt *)

LEMMA NoEdgeLostNext == TypeOK /\ NoEdgeLost /\ [Next]_vars => NoEdgeLost'
  <1> SUFFICES ASSUME TypeOK, NoEdgeLost, [Next]_vars PROVE NoEdgeLost'
    OBVIOUS
  <1> USE DEF NoEdgeLost, Unnoticed, Serving
  <1>1. CASE Check
    <2>1. flags = {} /\ isr = Idle /\ pc = "check"
      BY <1>1 DEF Check, At
    <2>2. radio = "full" => noted
      BY <2>1 DEF Idle, Handling
    <2>3. radio' = radio /\ (radio = "full" => pc' = "dur")
      BY <1>1, <2>2 DEF Check, radioVars
    <2>4. QED
      BY <2>3 DEF Handling
  <1>2. ASSUME NEW m \in {0} \cup Splits, SetDur(m) PROVE NoEdgeLost'
    BY <1>2 DEF SetDur, Handling
  <1>3. ASSUME NEW m \in {0} \cup Splits, SetStart(m) PROVE NoEdgeLost'
    BY <1>3 DEF SetStart, Handling
  <1>4. CASE ReadPayload
    BY <1>4 DEF ReadPayload, Handling
  <1>5. CASE PrintLine
    BY <1>5 DEF PrintLine, StartReceive
  <1>6. CASE PrintError
    BY <1>6 DEF PrintError, StartReceive
  <1>7. CASE Sleep
    BY <1>7 DEF Sleep, At, Handling, isrVars, radioVars
  <1>8. CASE Interrupt
    BY <1>8 DEF Interrupt, Idle, radioVars
  <1>9. ASSUME NEW pin \in Pins, Test(pin) PROVE NoEdgeLost'
    BY <1>9 DEF Test, radioVars
  <1>10. ASSUME NEW pin \in Pins, Clear(pin) PROVE NoEdgeLost'
    BY <1>10 DEF Clear
  <1>11. ASSUME NEW pin \in Pins, Call(pin) PROVE NoEdgeLost'
    BY <1>11 DEF Call, radioVars
  <1>12. CASE Reti
    <2>1. pc' \in Handling <=> pc \in Handling
      BY <1>12 DEF Reti, Wake, Handling
    <2>2. QED
      BY <1>12, <2>1 DEF Reti, Return, radioVars
  <1>13. CASE Tick
    <2>1. pc' \in Handling <=> pc \in Handling
      BY <1>13 DEF Tick, Wake, Handling
    <2>2. QED
      BY <1>13, <2>1 DEF Tick, isrVars
  <1>14. ASSUME NEW ok \in BOOLEAN, Arrive(ok) PROVE NoEdgeLost'
    BY <1>14 DEF Arrive
  <1>15. CASE OtherEdge
    BY <1>15 DEF OtherEdge, radioVars
  <1>16. CASE UNCHANGED vars
    BY <1>16 DEF vars
  <1>17. QED
    BY <1>1, <1>2, <1>3, <1>4, <1>5, <1>6, <1>7, <1>8, <1>9, <1>10, <1>11,
       <1>12, <1>13, <1>14, <1>15, <1>16 DEF Next, Main, Handler

\* No payload is lost between the interrupt flags, the handler that clears both
\* of them at once, and the main program.
THEOREM NoEdgeLostHolds == Spec => []NoEdgeLost
  <1>1. Init => NoEdgeLost
    BY DEF Init, NoEdgeLost, Unnoticed
  <1>2. QED
    BY <1>1, TypeInit, TypeNext, NoEdgeLostNext, PTL DEF Spec

----------------------------------------------------------------------------
(* How long a payload waits *)

\* Before it sleeps, the main program has missed a payload for no more than the
\* interrupts since it woke; when it wakes, for no more than those before and
\* since.
WaitInv ==
    /\ pc = "asleep" => awake = 0
    /\ Unnoticed =>
          /\ pc = "gap" => age <= awake
          /\ pc = "asleep" => age <= MaxAwake
          /\ pc = "check" => age <= MaxAwake + awake

LEMMA WaitInvNext ==
    TypeOK /\ NoEdgeLost /\ WaitInv /\ [Next]_vars => WaitInv'
  <1> SUFFICES ASSUME TypeOK, NoEdgeLost, WaitInv, [Next]_vars PROVE WaitInv'
    OBVIOUS
  <1>0. /\ age \in Nat /\ awake \in Nat /\ awake <= MaxAwake
        /\ MaxAwake \in Nat \ {0} /\ pc \in Locations
    BY CountAssumption DEF TypeOK
  <1> USE <1>0 DEF WaitInv, Unnoticed
  <1>1. CASE Check
    <2>1. flags = {} /\ isr = Idle /\ pc = "check"
      BY <1>1 DEF Check, At
    <2>2. radio = "full" => noted
      BY <2>1 DEF NoEdgeLost, Serving, Idle, Handling
    <2>3. radio' = radio /\ (radio = "full" => pc' = "dur") /\ pc' # "asleep"
      BY <1>1, <2>2 DEF Check, radioVars
    <2>4. QED
      BY <2>3 DEF Handling
  <1>2. ASSUME NEW m \in {0} \cup Splits, SetDur(m) PROVE WaitInv'
    BY <1>2 DEF SetDur, Handling
  <1>3. ASSUME NEW m \in {0} \cup Splits, SetStart(m) PROVE WaitInv'
    BY <1>3 DEF SetStart, Handling
  <1>4. CASE ReadPayload
    BY <1>4 DEF ReadPayload, Handling
  <1>5. CASE PrintLine
    BY <1>5 DEF PrintLine, StartReceive
  <1>6. CASE PrintError
    BY <1>6 DEF PrintError, StartReceive
  <1>7. CASE Sleep
    BY <1>7 DEF Sleep, At, Handling, radioVars
  <1>8. CASE Interrupt
    BY <1>8 DEF Interrupt, radioVars, countVars
  <1>9. ASSUME NEW pin \in Pins, Test(pin) PROVE WaitInv'
    BY <1>9 DEF Test, radioVars, countVars
  <1>10. ASSUME NEW pin \in Pins, Clear(pin) PROVE WaitInv'
    BY <1>10 DEF Clear, radioVars, countVars
  <1>11. ASSUME NEW pin \in Pins, Call(pin) PROVE WaitInv'
    BY <1>11 DEF Call, radioVars, countVars
  <1>12. CASE Reti
    <2>1. /\ pc' # "asleep"
          /\ pc # "asleep" => pc' = pc
          /\ pc = "asleep" => pc' = "check"
      BY <1>12, WakeRange DEF Reti
    <2>2. radio' = radio /\ age' = age /\ awake' = awake
      BY <1>12 DEF Reti, radioVars, countVars
    <2>3. QED
      BY <2>1, <2>2 DEF Handling
  <1>13. CASE Tick
    <2>1. /\ pc' # "asleep"
          /\ pc # "asleep" => pc' = pc
          /\ pc = "asleep" => pc' = "check"
      BY <1>13, WakeRange DEF Tick
    <2>2. /\ radio' = radio
          /\ Unnoticed => age' = age + 1
          /\ awake' = awake + 1
      BY <1>13 DEF Tick, Count
    <2>3. pc' \in Handling <=> pc \in Handling
      BY <2>1 DEF Handling
    <2>4. QED
      BY <2>1, <2>2, <2>3
  <1>14. ASSUME NEW ok \in BOOLEAN, Arrive(ok) PROVE WaitInv'
    BY <1>14 DEF Arrive, countVars
  <1>15. CASE OtherEdge
    BY <1>15 DEF OtherEdge, radioVars
  <1>16. CASE UNCHANGED vars
    BY <1>16 DEF vars
  <1>17. QED
    BY <1>1, <1>2, <1>3, <1>4, <1>5, <1>6, <1>7, <1>8, <1>9, <1>10, <1>11,
       <1>12, <1>13, <1>14, <1>15, <1>16 DEF Next, Main, Handler

\* A payload that arrives just before the sleep is found when the next PIT
\* interrupt wakes the program.
THEOREM PromptHolds == Spec => []Prompt
  <1>1. Init => NoEdgeLost /\ WaitInv
    BY DEF Init, NoEdgeLost, WaitInv, Unnoticed
  <1>2. TypeOK /\ WaitInv => Prompt
    BY CountAssumption
       DEF TypeOK, WaitInv, Prompt, Unnoticed, Locations
  <1>3. QED
    BY <1>1, <1>2, TypeInit, TypeNext, NoEdgeLostNext, WaitInvNext, PTL DEF Spec

----------------------------------------------------------------------------
(* The duration *)

\* The seconds that are kept of d.
Kept(d) == IF d <= UCHAR_MAX + MaxAwake THEN d ELSE UCHAR_MAX + MaxAwake + 1

\* As long as the history is exact, the counters tell the seconds that passed.
ElapsedInv == exact => start <= pitints /\ since = Kept(pitints - start)

\* The duration lacks no more than the interrupts of this awake phase.
DurationInv == pc = "start" /\ exact => Short \in 0 .. awake

\* A count that did not become 0 was not wrapped.
LEMMA NoWrap ==
    ASSUME NEW p \in 0 .. PIT_MOD - 1, NextCount(p) # 0
    PROVE  NextCount(p) = p + 1
  <1>1. PIT_MOD \in Nat \ {0}
    BY CountAssumption
  <1>2. CASE p = PIT_MOD - 1
    BY <1>1, <1>2 DEF NextCount
  <1>3. CASE p # PIT_MOD - 1
    BY <1>1, <1>3 DEF NextCount
  <1>4. QED
    BY <1>2, <1>3

LEMMA KeptLater ==
    ASSUME NEW d \in Nat
    PROVE  Later(Kept(d)) = Kept(d + 1)
  BY CountAssumption DEF Later, Kept

\* A difference of counts that did not wrap is not changed by the modulus.
LEMMA DurationExact ==
    ASSUME NEW now \in 0 .. PIT_MOD - 1, NEW then \in Nat, then <= now
    PROVE  Duration(now, then) = IF now - then < UCHAR_MAX THEN now - then
                                 ELSE UCHAR_MAX
  <1>1. now - then \in 0 .. PIT_MOD - 1 /\ PIT_MOD \in Nat \ {0}
    BY CountAssumption
  <1>2. (now - then) % PIT_MOD = now - then
    BY <1>1
  <1>3. QED
    BY <1>2 DEF Duration

\* rxtstart holds a count that fits it.
LEMMA StartExact ==
    ASSUME NEW v \in Nat, v < START_MOD
    PROVE  v % START_MOD = v
  BY CountAssumption

\* One second more, in a count that does not wrap.
LEMMA ElapsedCount ==
    ASSUME TypeOK, ElapsedInv, start' = start, exact' => exact /\ pitints' # 0,
           pitints' = NextCount(pitints), since' = Later(since)
    PROVE  ElapsedInv'
  <1> SUFFICES ASSUME exact' PROVE start' <= pitints' /\ since' = Kept(pitints' - start')
    BY DEF ElapsedInv
  <1>1. pitints' = pitints + 1 /\ start <= pitints /\ since = Kept(pitints - start)
    BY NoWrap DEF TypeOK, ElapsedInv
  <1>2. pitints \in Nat /\ start \in Nat /\ pitints - start \in Nat
    BY <1>1, CountAssumption DEF TypeOK
  <1>3. since' = Kept((pitints - start) + 1)
    BY <1>1, <1>2, KeptLater
  <1>4. (pitints - start) + 1 = pitints' - start'
    BY <1>1, <1>2
  <1>5. QED
    BY <1>1, <1>2, <1>3, <1>4

LEMMA ElapsedNext == TypeOK /\ ElapsedInv /\ [Next]_vars => ElapsedInv'
  <1> SUFFICES ASSUME TypeOK, ElapsedInv, [Next]_vars PROVE ElapsedInv'
    OBVIOUS
  <1>1. CASE UNCHANGED <<pitints, since, start, exact>>
    BY <1>1 DEF ElapsedInv, Kept
  <1>2. CASE Tick
    <2>1. pitints' = NextCount(pitints) /\ since' = Later(since) /\ start' = start
      BY <1>2 DEF Tick, Count
    <2>2. exact' = (exact /\ pitints' # 0)
      BY <1>2, Zenon DEF Tick
    <2>3. QED
      BY <2>1, <2>2, ElapsedCount
  <1>3. ASSUME NEW m \in {0} \cup Splits, SetDur(m) PROVE ElapsedInv'
    <2>1. start' = start /\ ReadCount(m)
      BY <1>3 DEF SetDur
    <2>2. exact' = (exact /\ Whole(m))
      BY <1>3, Zenon DEF SetDur
    <2>3. CASE m = 0
      BY <2>1, <2>2, <2>3 DEF ReadCount, countVars, ElapsedInv, Kept
    <2>4. CASE m # 0
      <3>1. pitints' = NextCount(pitints) /\ since' = Later(since)
        BY <2>1, <2>4 DEF ReadCount, Count
      <3>2. exact' => exact /\ pitints' # 0
        BY <2>2, <2>4, <3>1 DEF Whole
      <3>3. QED
        BY <2>1, <3>1, <3>2, ElapsedCount
    <2>5. QED
      BY <2>3, <2>4
  <1>4. ASSUME NEW m \in {0} \cup Splits, SetStart(m) PROVE ElapsedInv'
    <2> SUFFICES ASSUME exact'
                 PROVE  start' <= pitints' /\ since' = Kept(pitints' - start')
      BY DEF ElapsedInv
    <2>1. Whole(m) /\ Value(m) < START_MOD
      BY <1>4 DEF SetStart
    <2>2. pitints \in 0 .. PIT_MOD - 1 /\ PIT_MOD \in Nat /\ START_MOD \in Nat \ {0}
      BY CountAssumption DEF TypeOK
    <2>3. UCHAR_MAX + MaxAwake \in Nat \ {0}
      BY CountAssumption
    <2>4. CASE m = 0
      <3>1. Value(m) = pitints
        BY <2>4 DEF Value
      <3>2. pitints' = pitints /\ since' = 0 /\ start' = pitints % START_MOD
        BY <1>4, <2>4, <3>1 DEF SetStart
      <3>3. start' = pitints
        BY <2>1, <2>2, <3>1, <3>2, StartExact
      <3>4. QED
        BY <2>2, <2>3, <3>2, <3>3 DEF Kept
    <2>5. CASE m # 0
      <3>1. /\ pitints' = NextCount(pitints)
            /\ start' = Value(m) % START_MOD
            /\ since' = IF Value(m) = pitints THEN 1 ELSE 0
        BY <1>4, <2>5 DEF SetStart
      <3>2. pitints' = pitints + 1 /\ Value(m) \in {pitints, pitints + 1}
        BY <2>1, <2>2, <2>5, <3>1, NoWrap DEF Whole
      <3>3. start' = Value(m)
        BY <2>1, <2>2, <3>1, <3>2
      <3>4. QED
        BY <2>2, <2>3, <3>1, <3>2, <3>3 DEF Kept
    <2>6. QED
      BY <2>4, <2>5
  <1>5. QED
    BY <1>1, <1>2, <1>3, <1>4
       DEF Next, Main, Handler, Check, ReadPayload, PrintLine, PrintError, Sleep,
           Interrupt, Test, Clear, Call, Reti, Arrive, OtherEdge, vars, countVars,
           radioVars

LEMMA DurationNext ==
    TypeOK /\ ElapsedInv /\ DurationInv /\ [Next]_vars => DurationInv'
  <1> SUFFICES ASSUME TypeOK, ElapsedInv, DurationInv, [Next]_vars,
                      pc' = "start", exact'
               PROVE  Short' \in 0 .. awake'
    BY DEF DurationInv
  <1> USE CountAssumption
  <1>1. CASE UNCHANGED <<since, dur, awake>> /\ pc = "start" /\ exact
    BY <1>1 DEF DurationInv, Short
  <1>2. CASE Tick
    <2>1. pc = "start" /\ exact
      BY <1>2 DEF Tick, Wake
    <2>2. since' = Later(since) /\ awake' = awake + 1 /\ dur' = dur
      BY <1>2, <2>1 DEF Tick, Count
    <2>3. Short \in 0 .. awake /\ since \in Nat /\ dur \in Nat /\ awake \in Nat
      BY <2>1 DEF DurationInv, TypeOK
    <2>4. QED
      BY <2>2, <2>3 DEF Short, Later
  <1>3. ASSUME NEW m \in {0} \cup Splits, SetDur(m) PROVE Short' \in 0 .. awake'
    <2>1. /\ ReadCount(m) /\ start' = start /\ dur' = Duration(Value(m), start)
          /\ exact /\ Whole(m)
      BY <1>3 DEF SetDur
    <2>2. pitints \in 0 .. PIT_MOD - 1 /\ start \in Nat /\ awake \in Nat
      BY DEF TypeOK
    <2>3. start <= pitints /\ since = Kept(pitints - start)
      BY <2>1 DEF ElapsedInv
    <2>4. CASE m = 0
      <3>1. Value(m) = pitints /\ since' = since /\ awake' = awake
        BY <2>1, <2>4 DEF Value, ReadCount, countVars
      <3>2. dur' = IF pitints - start < UCHAR_MAX THEN pitints - start ELSE UCHAR_MAX
        BY <2>1, <2>2, <2>3, <3>1, DurationExact
      <3>3. Short' = 0
        BY <2>2, <2>3, <3>1, <3>2 DEF Short, Kept
      <3>4. QED
        BY <2>2, <3>1, <3>3
    <2>5. CASE m # 0
      <3>1. pitints' = NextCount(pitints) /\ awake' = awake + 1 /\ NextCount(pitints) # 0
        BY <2>1, <2>5 DEF ReadCount, Count, Whole
      <3>2. pitints' = pitints + 1 /\ Value(m) \in {pitints, pitints + 1}
        BY <2>1, <2>2, <3>1, NoWrap DEF Whole
      <3>3. Value(m) \in 0 .. PIT_MOD - 1 /\ start <= Value(m)
        <4>1. pitints + 1 \in 0 .. PIT_MOD - 1
          BY <2>2, <3>1, <3>2, NextCountRange
        <4>2. QED
          BY <2>2, <2>3, <3>2, <4>1
      <3>4. dur' = IF Value(m) - start < UCHAR_MAX THEN Value(m) - start ELSE UCHAR_MAX
        BY <2>1, <2>2, <3>3, DurationExact
      <3>5. since' = Kept(pitints' - start)
        <4>1. ElapsedInv'
          BY ElapsedNext
        <4>2. QED
          BY <2>1, <4>1 DEF ElapsedInv
      <3>6. QED
        BY <2>2, <2>3, <3>1, <3>2, <3>4, <3>5 DEF Short, Kept
    <2>6. QED
      BY <2>4, <2>5
  <1>4. ASSUME NEW m \in {0} \cup Splits, SetStart(m) PROVE FALSE
    BY <1>4 DEF SetStart
  <1>5. CASE Check \/ ReadPayload \/ PrintLine \/ PrintError \/ Sleep
    BY <1>5 DEF Check, ReadPayload, PrintLine, PrintError, Sleep
  <1>6. CASE Handler \/ (\E ok \in BOOLEAN : Arrive(ok)) \/ OtherEdge \/ UNCHANGED vars
    <2>1. UNCHANGED <<since, dur, awake, exact>> /\ (pc' = pc \/ pc' = Wake(pc))
      BY <1>6 DEF Handler, Interrupt, Test, Clear, Call, Reti, Arrive, OtherEdge,
                  vars, countVars
    <2>2. QED
      BY <1>1, <2>1 DEF Wake
  <1>7. QED
    BY <1>2, <1>3, <1>4, <1>5, <1>6 DEF Next, Main

\* The duration is right although it is computed from a count that interrupts
\* advance, byte by byte and between its two reads.
THEOREM DurationRightHolds == Spec => []DurationRight
  <1>1. Init => ElapsedInv /\ DurationInv
    BY CountAssumption DEF Init, ElapsedInv, DurationInv, Kept
  <1>2. TypeOK /\ DurationInv => DurationRight
    BY CountAssumption DEF TypeOK, DurationInv, DurationRight, Short
  <1>3. QED
    BY <1>1, <1>2, TypeInit, TypeNext, ElapsedNext, DurationNext, PTL DEF Spec

=============================================================================
