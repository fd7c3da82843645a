--------------------------- MODULE AvrenvTx_proofs ---------------------------
(***************************************************************************)
(* Proofs about the transmitter, for every period, card size and set of    *)
(* voltages the assumptions of AvrenvTx allow.                             *)
(***************************************************************************)
EXTENDS AvrenvTx, Selection_proofs

----------------------------------------------------------------------------
(* The operators the steps are built from *)

\* The count of seconds stays below INTERVAL and is zero only after a wrap.
LEMMA NextSecondRange ==
    ASSUME NEW p \in 0 .. INTERVAL - 1
    PROVE  /\ NextSecond(p) \in 0 .. INTERVAL - 1
           /\ NextSecond(p) # 0 => NextSecond(p) = p + 1
           /\ NextSecond(p) = 0 => p + 1 = INTERVAL
  BY TimeAssumption DEF NextSecond

\* The next address grows by one up to the end of the card and stays there.
LEMMA NextAddressRange ==
    ASSUME NEW a \in 0 .. CardSize
    PROVE  /\ NextAddress(a) \in 0 .. CardSize
           /\ a <= NextAddress(a)
           /\ a < CardSize => a < NextAddress(a)
  BY CardAssumption DEF NextAddress, Address

\* Whatever bytes of the next address were stored, the address is one of the
\* card or past its end.
LEMMA StoringRange ==
    ASSUME NEW a \in 0 .. CardSize, NEW t \in Storing(a)
    PROVE  t \in 0 .. CardSize
  BY DEF Storing

\* The average lies between the average before and the sample.
LEMMA AverageRange ==
    ASSUME NEW avg \in 0 .. MaxBattery, NEW bat \in 0 .. MaxBattery
    PROVE  /\ Average(avg, bat) \in 0 .. MaxBattery
           /\ avg # 0 /\ avg <= bat => Average(avg, bat) \in avg .. bat
           /\ avg # 0 /\ bat <= avg => Average(avg, bat) \in bat .. avg
  BY BatteryAssumption DEF Average

----------------------------------------------------------------------------
(* Type correctness *)

\* The bounds on busy that make its range inductive.
BusyInv ==
    /\ pc \in InitPhase => busy <= MaxInit
    /\ pc \in SlotPhase => busy <= MaxMeas

TypeInv == TypeOK /\ BusyInv

\* What the reset values are members of.
LEMMA ZeroInRanges ==
    /\ 0 \in 0 .. INTERVAL - 1
    /\ 0 \in 0 .. WdtPeriod
    /\ 0 \in 0 .. MaxInit + MaxMeas
    /\ 0 <= MaxInit
    /\ 0 \in 0 .. MaxBattery
    /\ 0 \in 0 .. CardSize
  BY TimeAssumption, CardAssumption, BatteryAssumption

\* A reset leaves the variables it sets well typed; the flag register, the
\* address and the card are up to the kind of reset.
LEMMA RestartTyped ==
    ASSUME TypeInv, Restart,
           porf' \in BOOLEAN,
           sdaddr' \in 0 .. CardSize,
           first' \in 0 .. CardSize,
           card' \in [Blocks -> Contents],
           torn' \in BOOLEAN
    PROVE  TypeInv'
  <1>1. pc' \in Locations /\ pc' \notin SlotPhase
    BY DEF Restart, Locations, InitPhase, SlotPhase
  <1>2. BusyInv'
    BY <1>1, ZeroInRanges DEF Restart, BusyInv
  <1>3. calm' \in BOOLEAN
    BY DEF Restart, TypeInv, TypeOK
  <1>4. QED
    BY <1>1, <1>2, <1>3, ZeroInRanges DEF Restart, TypeInv, TypeOK

\* A reset that keeps the memory leaves everything well typed.
LEMMA SoftResetTyped ==
    ASSUME TypeInv, SoftReset
    PROVE  TypeInv'
  <1>1. torn' \in BOOLEAN
    BY DEF SoftReset, TypeInv, TypeOK
  <1>2. porf' = porf /\ sdaddr' = sdaddr /\ first' = first /\ card' = card
    BY DEF SoftReset
  <1>3. QED
    BY <1>1, <1>2, RestartTyped DEF SoftReset, TypeInv, TypeOK

\* The types hold before the first step.
LEMMA TypeInvInit == Init => TypeInv
  <1> SUFFICES ASSUME Init PROVE TypeInv
    OBVIOUS
  <1>1. card \in [Blocks -> Contents]
    BY DEF Init, Contents, Blank
  <1>2. pc \in Locations /\ pc \notin SlotPhase
    BY DEF Init, Locations, InitPhase, SlotPhase
  <1>3. QED
    BY <1>1, <1>2, ZeroInRanges DEF Init, TypeInv, TypeOK, BusyInv

\* Every step keeps the types.
LEMMA TypeInvNext == TypeInv /\ [Next]_vars => TypeInv'
  <1> SUFFICES ASSUME TypeInv, [Next]_vars PROVE TypeInv'
    OBVIOUS
  <1> USE TimeAssumption, SlotAssumption, CardAssumption, BatteryAssumption
      DEF TypeInv, TypeOK, BusyInv, InitPhase, SlotPhase, Locations
  <1>1. CASE InitReset
    <2>1. sdaddr' \in 0 .. CardSize /\ first' \in 0 .. CardSize
      BY <1>1 DEF InitReset
    <2>2. QED
      BY <1>1, <2>1 DEF InitReset
  <1>2. ASSUME NEW r \in Outcomes, InitRadio(r) PROVE TypeInv'
    BY <1>2 DEF InitRadio, Goto
  <1>3. ASSUME NEW r \in Outcomes, InitBme(r) PROVE TypeInv'
    BY <1>3 DEF InitBme, Goto
  <1>4. ASSUME NEW r \in Outcomes, InitSdc(r) PROVE TypeInv'
    BY <1>4, StoringRange DEF InitSdc, Goto
  <1>5. ASSUME NEW r \in Outcomes, WriteReset(r) PROVE TypeInv'
    BY <1>5 DEF WriteReset, Goto, WriteBlock, Contents, Blocks
  <1>6. ASSUME NEW r \in Outcomes, InitPas(r) PROVE TypeInv'
    BY <1>6 DEF InitPas, Goto
  <1>7. ASSUME NEW r \in Outcomes, BmeMeasure(r) PROVE TypeInv'
    BY <1>7 DEF BmeMeasure, Goto
  <1>8. ASSUME NEW r \in Outcomes, PasRead(r) PROVE TypeInv'
    BY <1>8 DEF PasRead, Goto
  <1>9. ASSUME NEW r \in Outcomes, Transmit(r) PROVE TypeInv'
    BY <1>9 DEF Transmit, Goto
  <1>10. ASSUME NEW r \in Outcomes, WriteMeas(r) PROVE TypeInv'
    BY <1>10 DEF WriteMeas, Goto, WriteBlock, Contents, Blocks
  <1>11. ASSUME NEW early \in BOOLEAN, EnablePit(early) PROVE TypeInv'
    BY <1>11, NextSecondRange DEF EnablePit, WatchdogExpired
  <1>12. ASSUME NEW bat \in Batteries, LowBattery(bat) PROVE TypeInv'
    BY <1>12, AverageRange DEF LowBattery, Due
  <1>13. ASSUME NEW bat \in Batteries, NotReady(bat) PROVE TypeInv'
    BY <1>13, AverageRange DEF NotReady, Due
  <1>14. ASSUME NEW bat \in Batteries, StartMeas(bat) PROVE TypeInv'
    BY <1>14, AverageRange, StoringRange DEF StartMeas, Due
  <1>15. CASE Feed
    BY <1>15 DEF Feed
  <1>16. CASE Sleep
    BY <1>16 DEF Sleep
  <1>17. CASE Tick
    BY <1>17, NextSecondRange DEF Tick, Working, Waiting, WatchdogExpired
  <1>18. CASE WatchdogReset
    BY <1>18, SoftResetTyped DEF WatchdogReset
  <1>19. CASE ExternalReset
    BY <1>19, SoftResetTyped DEF ExternalReset
  <1>20. CASE PowerOn
    <2>1. card' \in [Blocks -> Contents]
      BY <1>20 DEF PowerOn, Contents, Blank
    <2>2. sdaddr' \in 0 .. CardSize /\ first' \in 0 .. CardSize
      BY <1>20, ZeroInRanges DEF PowerOn
    <2>3. QED
      BY <1>20, <2>1, <2>2, RestartTyped DEF PowerOn
  <1>21. CASE Settle
    BY <1>21 DEF Settle
  <1>22. CASE UNCHANGED vars
    BY <1>22 DEF vars
  <1>23. CASE StoreReset
    BY <1>23, NextAddressRange DEF StoreReset
  <1>24. CASE StoreMeas
    BY <1>24, NextAddressRange DEF StoreMeas
  <1>25. QED
    BY <1>1, <1>2, <1>3, <1>4, <1>5, <1>6, <1>7, <1>8, <1>9, <1>10, <1>11,
       <1>12, <1>13, <1>14, <1>15, <1>16, <1>17, <1>18, <1>19, <1>20, <1>21,
       <1>22, <1>23, <1>24 DEF Next, Main

\* Every variable keeps to its type, the average to the range of the samples
\* and the address to the card, through every step and reset.
THEOREM TypeCorrect == Spec => []TypeOK
  <1>1. TypeInv => TypeOK
    BY DEF TypeInv
  <1>2. QED
    BY TypeInvInit, TypeInvNext, <1>1, PTL DEF Spec

----------------------------------------------------------------------------
(* The log on the SD card *)

\* The phases of a slot between taking the address and writing.
MeasPhase == {"bmeMeasure", "pasRead", "transmit", "writeMeas"}

\* Unless the address was set back, everything written lies below sdaddr, and,
\* from the moment it is taken until the write, below the address the write was
\* given: also while the next one is being stored.  Until initReset has seen the
\* power-on flag nothing is written at all, so any value of .noinit memory will
\* do.
LogInv ==
    /\ porf => pc = "initReset" /\ \A a \in Blocks : card[a] = Blank
    /\ ~torn =>
           /\ ~porf /\ pc \notin StorePhase =>
                  \A a \in Blocks : card[a] # Blank => a < sdaddr
           /\ pc \in MeasPhase \cup StorePhase \cup {"writeReset"} =>
                  \A a \in Blocks : card[a] # Blank => a < slot
           /\ pc \in MeasPhase \cup {"writeReset"} =>
                  slot < sdaddr \/ slot = CardSize

\* A reset keeps it: one that finds the address half stored either finds it
\* beyond the address being spent or sets torn.
LEMMA LogInvReset ==
    ASSUME TypeInv, LogInv, SoftReset
    PROVE  LogInv'
  <1>1. /\ pc' = "initReset" /\ porf' = porf
        /\ sdaddr' = sdaddr /\ card' = card
        /\ torn' = (torn \/ SetBack)
    BY DEF SoftReset, Restart
  <1>2. ASSUME ~torn', ~porf, NEW a \in Blocks, card[a] # Blank
        PROVE  a < sdaddr
    <2>1. ~torn /\ ~SetBack
      BY <1>1, <1>2
    <2>2. CASE pc \notin StorePhase
      BY <1>2, <2>1, <2>2 DEF LogInv
    <2>3. CASE pc \in StorePhase
      <3>1. a < slot
        BY <1>2, <2>1, <2>3 DEF LogInv
      <3>2. ~(sdaddr < slot)
        BY <2>1, <2>3 DEF SetBack
      <3>3. QED
        BY <3>1, <3>2, CardAssumption DEF TypeInv, TypeOK, Blocks
    <2>4. QED
      BY <2>2, <2>3
  <1>3. QED
    BY <1>1, <1>2 DEF LogInv, MeasPhase, StorePhase

\* Every step keeps it.
LEMMA LogInvNext == TypeInv /\ LogInv /\ [Next]_vars => LogInv'
  <1> SUFFICES ASSUME TypeInv, LogInv, [Next]_vars PROVE LogInv'
    OBVIOUS
  <1> USE CardAssumption
      DEF TypeInv, TypeOK, LogInv, MeasPhase, StorePhase, Blocks, InitPhase,
          SlotPhase
  <1>1. CASE InitReset
    BY <1>1 DEF InitReset
  <1>2. ASSUME NEW r \in Outcomes, InitRadio(r) PROVE LogInv'
    BY <1>2 DEF InitRadio, Goto
  <1>3. ASSUME NEW r \in Outcomes, InitBme(r) PROVE LogInv'
    BY <1>3 DEF InitBme, Goto
  <1>4. ASSUME NEW r \in Outcomes, InitSdc(r) PROVE LogInv'
    BY <1>4, StoringRange DEF InitSdc, Goto
  <1>5. ASSUME NEW r \in Outcomes, WriteReset(r) PROVE LogInv'
    BY <1>5 DEF WriteReset, Goto, WriteBlock
  <1>6. ASSUME NEW r \in Outcomes, InitPas(r) PROVE LogInv'
    BY <1>6 DEF InitPas, Goto
  <1>7. ASSUME NEW r \in Outcomes, BmeMeasure(r) PROVE LogInv'
    BY <1>7 DEF BmeMeasure, Goto
  <1>8. ASSUME NEW r \in Outcomes, PasRead(r) PROVE LogInv'
    BY <1>8 DEF PasRead, Goto
  <1>9. ASSUME NEW r \in Outcomes, Transmit(r) PROVE LogInv'
    BY <1>9 DEF Transmit, Goto
  <1>10. ASSUME NEW r \in Outcomes, WriteMeas(r) PROVE LogInv'
    BY <1>10 DEF WriteMeas, Goto, WriteBlock
  <1>11. ASSUME NEW early \in BOOLEAN, EnablePit(early) PROVE LogInv'
    BY <1>11 DEF EnablePit
  <1>12. ASSUME NEW bat \in Batteries, LowBattery(bat) PROVE LogInv'
    BY <1>12 DEF LowBattery, Due
  <1>13. ASSUME NEW bat \in Batteries, NotReady(bat) PROVE LogInv'
    BY <1>13 DEF NotReady, Due
  <1>14. ASSUME NEW bat \in Batteries, StartMeas(bat) PROVE LogInv'
    BY <1>14, StoringRange DEF StartMeas, Due
  <1>15. CASE Feed
    BY <1>15 DEF Feed
  <1>16. CASE Sleep
    BY <1>16 DEF Sleep
  <1>17. CASE Tick
    BY <1>17 DEF Tick
  <1>18. CASE WatchdogReset
    BY <1>18, LogInvReset DEF WatchdogReset
  <1>19. CASE ExternalReset
    BY <1>19, LogInvReset DEF ExternalReset
  <1>20. CASE PowerOn
    BY <1>20 DEF PowerOn, Restart
  <1>21. CASE Settle
    BY <1>21 DEF Settle
  <1>22. CASE UNCHANGED vars
    BY <1>22 DEF vars
  <1>23. CASE StoreReset
    BY <1>23, NextAddressRange DEF StoreReset
  <1>24. CASE StoreMeas
    BY <1>24, NextAddressRange DEF StoreMeas
  <1>25. QED
    BY <1>1, <1>2, <1>3, <1>4, <1>5, <1>6, <1>7, <1>8, <1>9, <1>10,
       <1>11, <1>12, <1>13, <1>14, <1>15, <1>16, <1>17, <1>18, <1>19,
       <1>20, <1>21, <1>22, <1>23, <1>24 DEF Next, Main

\* The card is only touched by the two writes and a power-on.
LEMMA CardUntouched ==
    ASSUME [Next]_vars
    PROVE  \/ \E r \in Outcomes : WriteReset(r) \/ WriteMeas(r)
           \/ PowerOn
           \/ UNCHANGED card
  BY DEF Next, vars, Main, InitReset, InitRadio, InitBme, InitSdc, StoreReset,
         InitPas, StoreMeas, BmeMeasure, PasRead, Transmit, EnablePit,
         LowBattery, NotReady, StartMeas, Due, Feed, Sleep, Tick,
         WatchdogReset, ExternalReset, SoftReset, Settle

\* No record is ever overwritten and records lie in the order they were
\* written, through every sequence of resets and failures (README: "the SD card
\* address is maintained so previously written records are not overwritten"),
\* but for the resets that set the half stored address back.
THEOREM LogOrderHolds == Spec => []LogOrder
  <1>1. Init => LogInv
    BY DEF Init, LogInv, MeasPhase, StorePhase
  <1>2. TypeInv /\ LogInv => LogOrder
    BY CardAssumption
       DEF TypeInv, TypeOK, LogInv, LogOrder, MeasPhase, Blocks
  <1>3. QED
    BY TypeInvInit, TypeInvNext, LogInvNext, <1>1, <1>2, PTL DEF Spec

\* The same as a property of steps: only a power-on takes a record away, unless
\* a reset set the address back since the last one.
THEOREM NoOverwrite ==
    Spec => [][\A a \in Blocks :
                  card[a] # Blank => \/ card'[a] = card[a]
                                     \/ PowerOn
                                     \/ torn]_vars
  <1> DEFINE Kept == \A a \in Blocks :
                        card[a] # Blank => \/ card'[a] = card[a]
                                           \/ PowerOn
                                           \/ torn
  <1>1. TypeInv /\ LogInv /\ [Next]_vars => [Kept]_vars
    <2> SUFFICES ASSUME TypeInv, LogInv, Next, ~torn,
                        NEW a \in Blocks, card[a] # Blank, ~PowerOn
                 PROVE  card'[a] = card[a]
      OBVIOUS
    <2>1. ASSUME NEW r \in Outcomes, WriteReset(r) \/ WriteMeas(r)
          PROVE  card'[a] = card[a]
      <3>1. a # slot
        BY <2>1, CardAssumption
           DEF WriteReset, WriteMeas, LogInv, MeasPhase, TypeInv, TypeOK, Blocks
      <3>2. QED
        BY <2>1, <3>1 DEF WriteReset, WriteMeas, WriteBlock, TypeInv, TypeOK
    <2>2. QED
      BY <2>1, CardUntouched
  <1>2. Init => LogInv
    BY DEF Init, LogInv, MeasPhase, StorePhase
  <1>3. QED
    BY TypeInvInit, TypeInvNext, LogInvNext, <1>1, <1>2, PTL DEF Spec

----------------------------------------------------------------------------
(* The records of different boots *)

\* Until the card is initialized the boot has not used its first address; a
\* measurement is only written to a later one.
SegInv ==
    /\ pc = "initReset" => ~sdc
    /\ pc \in {"initRadio", "initBme", "initSdc"} => ~sdc /\ first = sdaddr
    /\ pc \in {"storeReset", "writeReset"} => slot = first
    /\ ~torn /\ sdc /\ first < CardSize =>
           /\ card[first] # "meas"
           /\ pc \notin StorePhase => first < sdaddr
           /\ pc \in MeasPhase \cup {"storeMeas"} => first < slot
    /\ pc = "writeMeas" => sdc

\* Every step keeps it.
LEMMA SegInvNext == TypeInv /\ LogInv /\ SegInv /\ [Next]_vars => SegInv'
  <1> SUFFICES ASSUME TypeInv, LogInv, SegInv, [Next]_vars PROVE SegInv'
    OBVIOUS
  <1> USE CardAssumption
      DEF TypeInv, TypeOK, LogInv, SegInv, MeasPhase, StorePhase, Blocks,
          InitPhase, SlotPhase, Blank
  <1>1. CASE InitReset
    BY <1>1 DEF InitReset
  <1>2. ASSUME NEW r \in Outcomes, InitRadio(r) PROVE SegInv'
    BY <1>2 DEF InitRadio, Goto
  <1>3. ASSUME NEW r \in Outcomes, InitBme(r) PROVE SegInv'
    BY <1>3 DEF InitBme, Goto
  <1>4. ASSUME NEW r \in Outcomes, InitSdc(r) PROVE SegInv'
    BY <1>4, StoringRange DEF InitSdc, Goto
  <1>5. ASSUME NEW r \in Outcomes, WriteReset(r) PROVE SegInv'
    BY <1>5 DEF WriteReset, Goto, WriteBlock
  <1>6. ASSUME NEW r \in Outcomes, InitPas(r) PROVE SegInv'
    BY <1>6 DEF InitPas, Goto
  <1>7. ASSUME NEW r \in Outcomes, BmeMeasure(r) PROVE SegInv'
    BY <1>7 DEF BmeMeasure, Goto
  <1>8. ASSUME NEW r \in Outcomes, PasRead(r) PROVE SegInv'
    BY <1>8 DEF PasRead, Goto
  <1>9. ASSUME NEW r \in Outcomes, Transmit(r) PROVE SegInv'
    BY <1>9 DEF Transmit, Goto
  <1>10. ASSUME NEW r \in Outcomes, WriteMeas(r) PROVE SegInv'
    BY <1>10 DEF WriteMeas, Goto, WriteBlock
  <1>11. ASSUME NEW early \in BOOLEAN, EnablePit(early) PROVE SegInv'
    BY <1>11 DEF EnablePit
  <1>12. ASSUME NEW bat \in Batteries, LowBattery(bat) PROVE SegInv'
    BY <1>12 DEF LowBattery, Due
  <1>13. ASSUME NEW bat \in Batteries, NotReady(bat) PROVE SegInv'
    BY <1>13 DEF NotReady, Due
  <1>14. ASSUME NEW bat \in Batteries, StartMeas(bat) PROVE SegInv'
    BY <1>14, StoringRange DEF StartMeas, Due
  <1>15. CASE Feed
    BY <1>15 DEF Feed
  <1>16. CASE Sleep
    BY <1>16 DEF Sleep
  <1>17. CASE Tick
    BY <1>17 DEF Tick
  <1>18. CASE WatchdogReset
    BY <1>18 DEF WatchdogReset, SoftReset, Restart, SetBack
  <1>19. CASE ExternalReset
    BY <1>19 DEF ExternalReset, SoftReset, Restart, SetBack
  <1>20. CASE PowerOn
    BY <1>20 DEF PowerOn, Restart
  <1>21. CASE Settle
    BY <1>21 DEF Settle
  <1>22. CASE UNCHANGED vars
    BY <1>22 DEF vars
  <1>23. CASE StoreReset
    BY <1>23, NextAddressRange DEF StoreReset
  <1>24. CASE StoreMeas
    BY <1>24, NextAddressRange DEF StoreMeas
  <1>25. QED
    BY <1>1, <1>2, <1>3, <1>4, <1>5, <1>6, <1>7, <1>8, <1>9, <1>10,
       <1>11, <1>12, <1>13, <1>14, <1>15, <1>16, <1>17, <1>18, <1>19,
       <1>20, <1>21, <1>22, <1>23, <1>24 DEF Next, Main

\* With the SD card initialized, the first block of a boot never holds a
\* measurement: the records of two boots stay apart, also when the write of
\* the reset record failed.
THEOREM SegmentedHolds == Spec => []Segmented
  <1>1. Init => LogInv /\ SegInv
    BY DEF Init, LogInv, SegInv, MeasPhase, StorePhase
  <1>2. TypeInv /\ SegInv => Segmented
    BY CardAssumption DEF TypeInv, TypeOK, SegInv, Segmented, Blocks
  <1>3. QED
    BY TypeInvInit, TypeInvNext, LogInvNext, SegInvNext, <1>1, <1>2, PTL
       DEF Spec

----------------------------------------------------------------------------
(* The watchdog *)

\* In a slot the seconds since its start are the seconds since a multiple of
\* INTERVAL.  In a working transmitter the watchdog was last reset no earlier
\* than one interval before the slot began, and between slots no earlier than
\* the multiple of INTERVAL before.
WatchdogInv ==
    /\ pc \in SlotPhase => pitints = busy
    /\ fed => pc \notin InitPhase
    /\ fed /\ ready =>
           /\ pc \in MeasPhase \cup {"storeMeas", "feed"} => wdt <= INTERVAL + busy
           /\ pc \in {"sleep", "asleep"} => wdt <= pitints
           /\ pc = "loop" => wdt <= IF pitints = 0 THEN INTERVAL ELSE pitints

\* Every step keeps it.
LEMMA WatchdogInvNext ==
    TypeInv /\ WatchdogInv /\ [Next]_vars => WatchdogInv'
  <1> SUFFICES ASSUME TypeInv, WatchdogInv, [Next]_vars PROVE WatchdogInv'
    OBVIOUS
  <1> USE TimeAssumption, SlotAssumption
      DEF TypeInv, TypeOK, BusyInv, WatchdogInv, MeasPhase, InitPhase,
          SlotPhase, Locations
  <1>1. CASE InitReset
    BY <1>1 DEF InitReset
  <1>2. ASSUME NEW r \in Outcomes, InitRadio(r) PROVE WatchdogInv'
    BY <1>2 DEF InitRadio, Goto
  <1>3. ASSUME NEW r \in Outcomes, InitBme(r) PROVE WatchdogInv'
    BY <1>3 DEF InitBme, Goto
  <1>4. ASSUME NEW r \in Outcomes, InitSdc(r) PROVE WatchdogInv'
    BY <1>4 DEF InitSdc, Goto
  <1>5. ASSUME NEW r \in Outcomes, WriteReset(r) PROVE WatchdogInv'
    BY <1>5 DEF WriteReset, Goto, WriteBlock
  <1>6. ASSUME NEW r \in Outcomes, InitPas(r) PROVE WatchdogInv'
    BY <1>6 DEF InitPas, Goto
  <1>7. ASSUME NEW r \in Outcomes, BmeMeasure(r) PROVE WatchdogInv'
    BY <1>7 DEF BmeMeasure, Goto
  <1>8. ASSUME NEW r \in Outcomes, PasRead(r) PROVE WatchdogInv'
    BY <1>8 DEF PasRead, Goto
  <1>9. ASSUME NEW r \in Outcomes, Transmit(r) PROVE WatchdogInv'
    BY <1>9 DEF Transmit, Goto
  <1>10. ASSUME NEW r \in Outcomes, WriteMeas(r) PROVE WatchdogInv'
    BY <1>10 DEF WriteMeas, Goto, WriteBlock
  <1>11. ASSUME NEW early \in BOOLEAN, EnablePit(early) PROVE WatchdogInv'
    BY <1>11, NextSecondRange DEF EnablePit
  <1>12. ASSUME NEW bat \in Batteries, LowBattery(bat) PROVE WatchdogInv'
    BY <1>12 DEF LowBattery, Due
  <1>13. ASSUME NEW bat \in Batteries, NotReady(bat) PROVE WatchdogInv'
    BY <1>13 DEF NotReady, Due
  <1>14. ASSUME NEW bat \in Batteries, StartMeas(bat) PROVE WatchdogInv'
    BY <1>14 DEF StartMeas, Due
  <1>15. CASE Feed
    BY <1>15 DEF Feed
  <1>16. CASE Sleep
    BY <1>16 DEF Sleep
  <1>17. CASE Tick
    BY <1>17, NextSecondRange DEF Tick, Working, Waiting
  <1>18. CASE WatchdogReset
    BY <1>18 DEF WatchdogReset, SoftReset, Restart, SetBack
  <1>19. CASE ExternalReset
    BY <1>19 DEF ExternalReset, SoftReset, Restart, SetBack
  <1>20. CASE PowerOn
    BY <1>20 DEF PowerOn, Restart
  <1>21. CASE Settle
    BY <1>21 DEF Settle
  <1>22. CASE UNCHANGED vars
    BY <1>22 DEF vars
  <1>23. CASE StoreReset
    BY <1>23 DEF StoreReset
  <1>24. CASE StoreMeas
    BY <1>24 DEF StoreMeas
  <1>25. QED
    BY <1>1, <1>2, <1>3, <1>4, <1>5, <1>6, <1>7, <1>8, <1>9, <1>10,
       <1>11, <1>12, <1>13, <1>14, <1>15, <1>16, <1>17, <1>18, <1>19,
       <1>20, <1>21, <1>22, <1>23, <1>24 DEF Next, Main

\* After its first reset in a boot the watchdog never expires on a transmitter
\* whose devices answer, whatever the battery does: one interval and the
\* longest slot are shorter than its period.
THEOREM NoSpuriousResetHolds == Spec => []NoSpuriousReset
  <1>1. Init => WatchdogInv
    BY DEF Init, WatchdogInv, InitPhase, SlotPhase, MeasPhase
  <1>2. TypeInv /\ WatchdogInv => NoSpuriousReset
    BY TimeAssumption, SlotAssumption
       DEF TypeInv, TypeOK, BusyInv, WatchdogInv, NoSpuriousReset, Locations,
           InitPhase, SlotPhase, MeasPhase
  <1>3. QED
    BY TypeInvInit, TypeInvNext, WatchdogInvNext, <1>1, <1>2, PTL DEF Spec

\* A slot is only begun when all devices were initialized.
ReadyInv == pc \in MeasPhase \cup {"storeMeas", "feed"} => ready

\* Every step keeps it.
LEMMA ReadyInvNext == ReadyInv /\ [Next]_vars => ReadyInv'
  <1> SUFFICES ASSUME ReadyInv, [Next]_vars PROVE ReadyInv'
    OBVIOUS
  <1> USE DEF ReadyInv, MeasPhase
  <1>1. ASSUME NEW r \in Outcomes,
               \/ InitRadio(r) \/ InitBme(r) \/ InitSdc(r) \/ WriteReset(r)
               \/ InitPas(r)
        PROVE  ReadyInv'
    BY <1>1 DEF InitRadio, InitBme, InitSdc, WriteReset, InitPas, Goto
  <1>2. ASSUME NEW r \in Outcomes,
               BmeMeasure(r) \/ PasRead(r) \/ Transmit(r) \/ WriteMeas(r)
        PROVE  ReadyInv'
    BY <1>2 DEF BmeMeasure, PasRead, Transmit, WriteMeas, Goto
  <1>3. ASSUME NEW early \in BOOLEAN, EnablePit(early) PROVE ReadyInv'
    BY <1>3 DEF EnablePit
  <1>4. ASSUME NEW bat \in Batteries, LowBattery(bat) \/ NotReady(bat) \/ StartMeas(bat)
        PROVE  ReadyInv'
    BY <1>4 DEF LowBattery, NotReady, StartMeas, Due
  <1>5. CASE \/ InitReset \/ StoreReset \/ StoreMeas
             \/ Feed \/ Sleep \/ Tick \/ Settle \/ UNCHANGED vars
    BY <1>5 DEF InitReset, StoreReset, StoreMeas, Feed, Sleep, Tick, Settle, vars
  <1>6. CASE WatchdogReset \/ ExternalReset \/ PowerOn
    BY <1>6 DEF WatchdogReset, ExternalReset, SoftReset, PowerOn, Restart
  <1>7. QED
    BY <1>1, <1>2, <1>3, <1>4, <1>5, <1>6 DEF Next, Main

\* Between two resets the watchdog of a transmitter that is stuck, and whose
\* battery is not low, only counts up; TypeOK bounds how far.
THEOREM FedOnlyWhenWellHolds == Spec => FedOnlyWhenWell
  <1> DEFINE Fed == wdt' < wdt => \/ pc' = "initReset"
                                  \/ ready /\ pc # "hung"
                                  \/ bavg' < BAT_LOW_MV
  <1>1. TypeInv /\ ReadyInv /\ [Next]_vars => [Fed]_vars
    <2> SUFFICES ASSUME TypeInv, ReadyInv, Next, wdt' < wdt PROVE Fed
      OBVIOUS
    <2>1. CASE Feed
      BY <2>1 DEF Feed, ReadyInv
    <2>2. CASE \E bat \in Batteries : LowBattery(bat)
      BY <2>2 DEF LowBattery
    <2>3. CASE WatchdogReset \/ ExternalReset \/ PowerOn
      BY <2>3 DEF WatchdogReset, ExternalReset, SoftReset, PowerOn, Restart
    <2>4. CASE wdt' = wdt \/ wdt' = wdt + 1
      BY <2>4 DEF TypeInv, TypeOK
    <2>5. QED
      BY <2>1, <2>2, <2>3, <2>4
         DEF Next, Main, InitReset, InitRadio, InitBme, InitSdc, InitPas,
             WriteReset, WriteMeas, BmeMeasure, PasRead, Transmit, EnablePit,
             NotReady, StartMeas, StoreReset, StoreMeas, Due, Sleep, Tick, Settle
  <1>2. Init => ReadyInv
    BY DEF Init, ReadyInv, MeasPhase
  <1>3. QED
    BY TypeInvInit, TypeInvNext, ReadyInvNext, <1>1, <1>2, PTL
       DEF Spec, FedOnlyWhenWell

----------------------------------------------------------------------------
(* The card implements an append-only log *)

\* The blocks that hold a record.
Used == {a \in Blocks : card[a] # Blank}

\* There are finitely many.
LEMMA UsedFinite == Used \in SUBSET Int /\ IsFiniteSet(Used)
  <1>1. IsFiniteSet(Blocks) /\ Used \in SUBSET Blocks
    BY CardAssumption, FS_Interval DEF Blocks, Used
  <1>2. IsFiniteSet(Used)
    BY <1>1, FS_Subset
  <1>3. QED
    BY <1>2 DEF Used, Blocks

\* A card without a record is the empty log.
LEMMA BlankLog ==
    ASSUME NEW c, \A a \in Blocks : c[a] = Blank
    PROVE  InOrder(c, {a \in Blocks : c[a] # Blank}) = <<>>
  <1>1. {a \in Blocks : c[a] # Blank} = {}
    OBVIOUS
  <1>2. QED
    BY <1>1, InOrderEmpty

\* Whatever the card holds, the log is a sequence of records.
LEMMA LogTyped ==
    ASSUME NEW c \in [Blocks -> Contents]
    PROVE  InOrder(c, {a \in Blocks : c[a] # Blank}) \in Seq(Contents \ {Blank})
  <1> DEFINE K == {a \in Blocks : c[a] # Blank}
  <1>1. K \in SUBSET Int /\ IsFiniteSet(K)
    <2>1. IsFiniteSet(Blocks) /\ K \in SUBSET Blocks
      BY CardAssumption, FS_Interval DEF Blocks
    <2>2. IsFiniteSet(K)
      BY <2>1, FS_Subset
    <2>3. QED
      BY <2>2 DEF Blocks
  <1>2. Cardinality(K) \in Nat
    BY <1>1, FS_CardinalityType
  <1>3. \A a \in K : c[a] \in Contents \ {Blank}
    OBVIOUS
  <1> HIDE DEF K
  <1>4. ASSUME NEW i \in 1 .. Cardinality(K)
        PROVE  c[Nth(K, i)] \in Contents \ {Blank}
    <2>1. Nth(K, i) \in K
      BY <1>1, NthIn
    <2>2. QED
      BY <1>3, <2>1
  <1>5. InOrder(c, K) \in [1 .. Cardinality(K) -> Contents \ {Blank}]
    BY <1>4 DEF InOrder
  <1>6. InOrder(c, K) \in Seq(Contents \ {Blank})
    BY <1>2, <1>5
  <1>7. QED
    BY <1>6 DEF K

\* A write adds its record at the end of the log, or nothing, unless the address
\* was set back.
LEMMA WriteAdds ==
    ASSUME TypeInv, LogInv, ~torn, pc \in {"writeReset", "writeMeas"},
           NEW what \in Contents \ {Blank}, NEW r \in Outcomes,
           WriteBlock(what, r), UNCHANGED torn
    PROVE  Log!Add(what) \/ UNCHANGED <<WrittenLog, torn>>
  <1>1. CASE UNCHANGED card
    BY <1>1 DEF WrittenLog
  <1>2. CASE slot \in Blocks /\ card' = [card EXCEPT ![slot] = what]
    <2>1. \A a \in Used : a < slot
      BY DEF LogInv, Used, MeasPhase
    <2>2. slot \in Int /\ slot \notin Used
      BY <1>2, <2>1, CardAssumption DEF Blocks
    <2>3. card'[slot] = what /\ \A a \in Blocks : a # slot => card'[a] = card[a]
      BY <1>2 DEF TypeInv, TypeOK
    <2>4. Used' = Used \cup {slot}
      BY <1>2, <2>2, <2>3 DEF Used
    <2>5. InOrder(card', Used \cup {slot}) = Append(InOrder(card', Used), what)
      BY <2>1, <2>2, <2>3, UsedFinite, InOrderAppend
    <2>6. \A a \in Used : card'[a] = card[a]
      BY <2>2, <2>3 DEF Used
    <2>7. InOrder(card', Used) = InOrder(card, Used)
      BY <2>6, UsedFinite, InOrderAgree
    <2>8. WrittenLog' = Append(WrittenLog, what)
      BY <2>4, <2>5, <2>7 DEF WrittenLog, Used
    <2>9. QED
      BY <2>8 DEF Log!Add
  <1>3. QED
    BY <1>1, <1>2 DEF WriteBlock

\* Every step of the transmitter is a step of the log, or leaves it alone.
LEMMA LogStep ==
    ASSUME TypeInv, TypeInv', LogInv, [Next]_vars
    PROVE  Log!Next \/ UNCHANGED <<WrittenLog, torn>>
  <1>1. ASSUME NEW r \in Outcomes, WriteReset(r) \/ WriteMeas(r)
        PROVE  Log!Next \/ UNCHANGED <<WrittenLog, torn>>
    <2>1. UNCHANGED torn
      BY <1>1 DEF WriteReset, WriteMeas
    <2>2. CASE torn
      <3>1. card' \in [Blocks -> Contents]
        BY DEF TypeInv, TypeOK
      <3>2. WrittenLog' \in Seq(Contents \ {Blank})
        BY <3>1, LogTyped DEF WrittenLog
      <3>3. QED
        BY <2>1, <2>2, <3>2 DEF Log!Next, Log!Misplace
    <2>3. CASE ~torn /\ WriteReset(r)
      <3>1. Log!Add("reset") \/ UNCHANGED <<WrittenLog, torn>>
        BY <2>1, <2>3, WriteAdds DEF WriteReset, Contents, Blank
      <3>2. QED
        BY <3>1 DEF Log!Next, Contents, Blank
    <2>4. CASE ~torn /\ WriteMeas(r)
      <3>1. Log!Add("meas") \/ UNCHANGED <<WrittenLog, torn>>
        BY <2>1, <2>4, WriteAdds DEF WriteMeas, Contents, Blank
      <3>2. QED
        BY <3>1 DEF Log!Next, Contents, Blank
    <2>5. QED
      BY <1>1, <2>2, <2>3, <2>4
  <1>2. CASE PowerOn
    <2>1. (\A a \in Blocks : card'[a] = Blank) /\ torn' = FALSE
      BY <1>2 DEF PowerOn
    <2>2. WrittenLog' = <<>>
      BY <2>1, BlankLog DEF WrittenLog
    <2>3. QED
      BY <2>1, <2>2 DEF Log!Next, Log!Begin
  <1>3. CASE UNCHANGED card /\ ~PowerOn
    <2>1. torn' = torn \/ torn' = TRUE
      BY <1>3 DEF Next, vars, Main, InitReset, InitRadio, InitBme, InitSdc,
             StoreReset, WriteReset, InitPas, StoreMeas, BmeMeasure, PasRead,
             Transmit, WriteMeas, EnablePit, LowBattery, NotReady, StartMeas,
             Due, Feed, Sleep, Tick, WatchdogReset, ExternalReset, SoftReset,
             Settle, SetBack, TypeInv, TypeOK
    <2>2. UNCHANGED WrittenLog
      BY <1>3 DEF WrittenLog
    <2>3. QED
      BY <2>1, <2>2 DEF Log!Next, Log!Tear
  <1>4. QED
    BY <1>1, <1>2, <1>3, CardUntouched

\* The transmitter's card implements SdLog for every size of the card and every
\* sequence of resets, failures and refused writes: between two power-ons a
\* record is only ever added behind all others, until a reset sets the half
\* stored address back.
THEOREM CardIsLog == Spec => ImplementsSdLog
  <1>1. Init => Log!Init
    <2>1. Init => torn = FALSE /\ \A a \in Blocks : card[a] = Blank
      BY DEF Init
    <2>2. QED
      BY <2>1, BlankLog DEF Log!Init, WrittenLog
  <1>2. Init => LogInv
    BY DEF Init, LogInv, MeasPhase, StorePhase
  <1>3. TypeInv /\ TypeInv' /\ LogInv /\ [Next]_vars
            => [Log!Next]_<<WrittenLog, torn>>
    BY LogStep
  <1>4. QED
    BY TypeInvInit, TypeInvNext, LogInvNext, <1>1, <1>2, <1>3, PTL
       DEF Spec, ImplementsSdLog, Log!Spec

=============================================================================
