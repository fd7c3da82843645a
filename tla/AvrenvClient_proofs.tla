------------------------- MODULE AvrenvClient_proofs -------------------------
(***************************************************************************)
(* Proofs about the client, for every timeout, margin, token life and line *)
(* length the assumptions of AvrenvClient allow.                           *)
(***************************************************************************)
EXTENDS AvrenvClient, TLAPS

----------------------------------------------------------------------------
(* The operators the steps are built from *)

\* A second less is left, but never less than nothing.
LEMMA LessRange ==
    ASSUME NEW t \in Nat
    PROVE  /\ Less(t) \in Nat
           /\ Less(t) <= t
           /\ t > 0 => Less(t) = t - 1
           /\ t = 0 => Less(t) = 0
  BY DEF Less

\* The first of the lines in the driver's buffer is a line, and so are the rest.
LEMMA QueueRange ==
    ASSUME NEW q \in Seq(Line), q # <<>>
    PROVE  /\ Head(q) \in Line
           /\ Tail(q) \in Seq(Line)
           /\ Len(Tail(q)) <= Len(q)
  OBVIOUS

\* What the records in line and env are made of.
LEMMA LineFields ==
    ASSUME NEW l \in Line
    PROVE  /\ l.id \in 1 .. Lines
           /\ l.len \in OtherLens \cup {FIELD_LEN}
           /\ l.len \in Nat
  BY LineAssumption DEF Line

----------------------------------------------------------------------------
(* Type correctness *)

\* A line that is looked at was read.
LineInv == pc \in {"parse", "log", "getToken", "post"} => line \in Line

TypeInv == TypeOK /\ LineInv

LEMMA TypeInvInit == Init => TypeInv
  <1> SUFFICES ASSUME Init PROVE TypeInv
    OBVIOUS
  <1>1. tty \in Seq(Line) /\ Len(tty) <= QueueMax
    BY LineAssumption DEF Init
  <1>2. line \in Line \cup {NoLine}
    BY DEF Init
  <1>3. env \in [first : 0 .. Lines, last : 0 .. Lines]
    BY LineAssumption DEF Init
  <1>4. LineInv
    BY DEF Init, LineInv
  <1>5. /\ pc \in Locations
        /\ next \in 1 .. Lines /\ logged \in 0 .. Lines /\ taken \in 0 .. Lines
        /\ nul \in Nat \cup {-1}
    BY LineAssumption DEF Init, Locations
  <1>6. /\ tcode \in {0, 200}
        /\ left \in 0 .. LIFE /\ srv \in 0 .. LIFE /\ issued \in 0 .. LIFE
        /\ elapsed \in 0 .. POST_TIMEOUT
    BY TokenAssumption DEF Init
  <1>7. sigint \in BOOLEAN /\ calm \in BOOLEAN
    BY DEF Init
  <1>8. QED
    BY <1>1, <1>2, <1>3, <1>4, <1>5, <1>6, <1>7 DEF TypeInv, TypeOK

LEMMA TypeInvNext == TypeInv /\ [Next]_vars => TypeInv'
  <1> SUFFICES ASSUME TypeInv, [Next]_vars PROVE TypeInv'
    OBVIOUS
  <1> USE TokenAssumption, LineAssumption
      DEF TypeInv, TypeOK, LineInv, Locations, portVars, dataVars, tokenVars,
          signalVars
  <1>1. CASE Enter
    BY <1>1 DEF Enter
  <1>2. CASE Read
    <2>1. line' \in Line /\ tty' \in Seq(Line) /\ Len(tty') <= QueueMax
      BY <1>2, QueueRange DEF Read
    <2>2. line'.id \in 1 .. Lines /\ line'.len \in Nat
      BY <2>1, LineFields
    <2>3. taken' \in 0 .. Lines /\ nul' \in Nat
      BY <1>2, <2>2 DEF Read
    <2>4. QED
      BY <1>2, <2>1, <2>3 DEF Read
  <1>3. CASE Stop
    BY <1>3 DEF Stop
  <1>4. CASE Parse
    <2>1. line.id \in 1 .. Lines
      BY <1>4, LineFields DEF Parse
    <2>2. env' \in [first : 0 .. Lines, last : 0 .. Lines]
      BY <1>4, <2>1 DEF Parse
    <2>3. QED
      BY <1>4, <2>2 DEF Parse
  <1>5. ASSUME NEW ok \in BOOLEAN, Log(ok) PROVE TypeInv'
    <2>1. line.id \in 1 .. Lines
      BY <1>5, LineFields DEF Log
    <2>2. pc' \in {"getToken", "post", "enter"}
      BY <1>5 DEF Log, UseToken
    <2>3. QED
      BY <1>5, <2>1, <2>2 DEF Log
  <1>6. CASE Issue
    BY <1>6 DEF Issue
  <1>7. CASE TokenArrives
    BY <1>7 DEF TokenArrives, UseToken
  <1>8. CASE TokenFails
    BY <1>8 DEF TokenFails, UseToken
  <1>9. CASE PostReturns
    BY <1>9 DEF PostReturns
  <1>10. ASSUME NEW len \in OtherLens \cup {FIELD_LEN}, Receive(len)
         PROVE  TypeInv'
    <2>1. [id |-> next, len |-> len] \in Line
      BY <1>10 DEF Line
    <2>2. tty' \in Seq(Line) /\ Len(tty') <= QueueMax
      BY <1>10, <2>1 DEF Receive
    <2>3. QED
      BY <1>10, <2>2 DEF Receive
  <1>11. ASSUME NEW result \in {-1, 0}, ReadFails(result) PROVE TypeInv'
    BY <1>11 DEF ReadFails
  <1>12. CASE Sigint
    BY <1>12 DEF Sigint
  <1>13. CASE Tick
    <2>1. left' \in 0 .. LIFE /\ srv' \in 0 .. LIFE /\ issued' \in 0 .. LIFE
      <3>1. \A t \in 0 .. LIFE : Less(t) \in 0 .. LIFE
        BY DEF Less
      <3>2. QED
        BY <1>13, <3>1 DEF Tick
    <2>2. elapsed' \in 0 .. POST_TIMEOUT
      BY <1>13 DEF Tick, MayWait
    <2>3. QED
      BY <1>13, <2>1, <2>2 DEF Tick
  <1>14. CASE Settle
    BY <1>14 DEF Settle
  <1>15. CASE UNCHANGED vars
    BY <1>15 DEF vars
  <1>16. QED
    BY <1>1, <1>2, <1>3, <1>4, <1>5, <1>6, <1>7, <1>8, <1>9, <1>10, <1>11,
       <1>12, <1>13, <1>14, <1>15 DEF Next, Main

\* The variables only take the values the code can give them; in particular the
\* driver's buffer never overflows and no call outlasts its timeout.
THEOREM TypeCorrect == Spec => []TypeOK
  <1>1. TypeInv => TypeOK
    BY DEF TypeInv
  <1>2. QED
    BY <1>1, TypeInvInit, TypeInvNext, PTL DEF Spec

----------------------------------------------------------------------------
(* The token *)

\* The client starts to count when the token arrives, and so believes in it for
\* no more than a timeout too long; a token that is on its way is as old as the
\* call at most; and a POST begins with more than a timeout left.
TokenInv ==
    /\ left <= srv + POST_TIMEOUT
    /\ pc # "getToken" => issued = 0
    /\ issued > 0 => issued + elapsed >= LIFE
    /\ pc = "post" => srv + elapsed > POST_TIMEOUT

LEMMA TokenInvInit == Init => TokenInv
  BY TokenAssumption DEF Init, TokenInv

LEMMA TokenInvNext == TypeInv /\ TokenInv /\ [Next]_vars => TokenInv'
  <1> SUFFICES ASSUME TypeInv, TokenInv, [Next]_vars PROVE TokenInv'
    OBVIOUS
  <1>0. /\ left \in Nat /\ srv \in Nat /\ issued \in Nat /\ elapsed \in Nat
        /\ elapsed <= POST_TIMEOUT
        /\ POST_TIMEOUT \in Nat /\ LIFE \in Nat /\ MARGIN \in Nat
        /\ 2 * POST_TIMEOUT < MARGIN /\ 2 * POST_TIMEOUT < LIFE
    BY TokenAssumption DEF TypeInv, TypeOK
  <1> USE <1>0 DEF TokenInv, tokenVars
  <1>1. CASE Enter
    BY <1>1 DEF Enter
  <1>2. CASE Read
    BY <1>2 DEF Read
  <1>3. CASE Stop
    BY <1>3 DEF Stop
  <1>4. CASE Parse
    BY <1>4 DEF Parse
  <1>5. ASSUME NEW ok \in BOOLEAN, Log(ok) PROVE TokenInv'
    <2>1. pc' \in {"getToken", "post", "enter"}
          /\ (pc' # "getToken" => left >= MARGIN)
      BY <1>5 DEF Log, UseToken, Renew
    <2>2. issued = 0
      BY <1>5 DEF Log
    <2>3. QED
      BY <1>5, <2>1, <2>2 DEF Log
  <1>6. CASE Issue
    BY <1>6 DEF Issue
  <1>7. CASE TokenArrives
    BY <1>7 DEF TokenArrives, UseToken
  <1>8. CASE TokenFails
    BY <1>8 DEF TokenFails, UseToken
  <1>9. CASE PostReturns
    BY <1>9 DEF PostReturns
  <1>10. ASSUME NEW len \in OtherLens \cup {FIELD_LEN}, Receive(len)
         PROVE  TokenInv'
    BY <1>10 DEF Receive
  <1>11. ASSUME NEW result \in {-1, 0}, ReadFails(result) PROVE TokenInv'
    BY <1>11 DEF ReadFails
  <1>12. CASE Sigint
    BY <1>12 DEF Sigint
  <1>13. CASE Tick
    <2>1. left' <= srv' + POST_TIMEOUT
      BY <1>13 DEF Tick, Less
    <2>2. pc' = pc /\ issued' = Less(issued)
      BY <1>13 DEF Tick
    <2>3. CASE pc = "read"
      BY <2>1, <2>2, <2>3 DEF Less
    <2>4. CASE pc # "read"
      <3>1. elapsed' = elapsed + 1 /\ elapsed < POST_TIMEOUT
        BY <1>13, <2>4 DEF Tick, MayWait
      <3>2. pc = "post" => srv > 0 /\ srv' = srv - 1
        BY <1>13, <3>1 DEF Tick, Less
      <3>3. issued' > 0 => issued > 0 /\ issued' = issued - 1
        BY <2>2 DEF Less
      <3>4. pc # "getToken" => issued' = 0
        BY <2>2 DEF Less
      <3>5. QED
        BY <2>1, <2>2, <3>1, <3>2, <3>3, <3>4
    <2>5. QED
      BY <2>3, <2>4
  <1>14. CASE Settle
    BY <1>14 DEF Settle
  <1>15. CASE UNCHANGED vars
    BY <1>15 DEF vars
  <1>16. QED
    BY <1>1, <1>2, <1>3, <1>4, <1>5, <1>6, <1>7, <1>8, <1>9, <1>10, <1>11,
       <1>12, <1>13, <1>14, <1>15 DEF Next, Main

\* A dataset is never sent with a token the server refuses, at any moment of
\* the call: 30 seconds are enough for two timeouts of 10.
THEOREM TokenValidHolds == Spec => []TokenValid
  <1>1. TypeInv /\ TokenInv => TokenValid
    BY TokenAssumption DEF TypeInv, TypeOK, TokenInv, TokenValid
  <1>2. QED
    BY <1>1, TypeInvInit, TypeInvNext, TokenInvInit, TokenInvNext, PTL DEF Spec

----------------------------------------------------------------------------
(* The line and the log *)

\* The last complete line is in the log, or on its way there.
LogInv ==
    /\ pc \in {"enter", "read", "getToken", "post"} => logged = taken
    /\ pc = "parse" =>
          IF line.len = FIELD_LEN THEN taken = line.id ELSE logged = taken
    /\ pc = "log" => taken = line.id

\* Once a line was found complete, all fields are its own.
EnvInv ==
    pc \in {"log", "getToken", "post"} =>
        env.first = line.id /\ env.last = line.id

LineDataInv == LogInv /\ EnvInv

LEMMA LineDataInvInit == Init => LineDataInv
  BY DEF Init, LineDataInv, LogInv, EnvInv

LEMMA LineDataInvNext ==
    TypeInv /\ LineDataInv /\ [Next]_vars => LineDataInv'
  <1> SUFFICES ASSUME TypeInv, LineDataInv, [Next]_vars PROVE LineDataInv'
    OBVIOUS
  <1> USE DEF LineDataInv, LogInv, EnvInv, dataVars
  <1>1. CASE Enter
    BY <1>1 DEF Enter
  <1>2. CASE Read
    BY <1>2 DEF Read
  <1>3. CASE Stop
    BY <1>3 DEF Stop
  <1>4. CASE Parse
    <2>1. line \in Line /\ line.len \in Nat /\ FIELD_LEN \in Nat
      BY <1>4, LineFields, LineAssumption DEF Parse, TypeInv, LineInv
    <2>2. CASE line.len = FIELD_LEN
      BY <1>4, <2>1, <2>2 DEF Parse, Complete
    <2>3. CASE line.len # FIELD_LEN
      BY <1>4, <2>1, <2>3 DEF Parse, Complete
    <2>4. QED
      BY <2>2, <2>3
  <1>5. ASSUME NEW ok \in BOOLEAN, Log(ok) PROVE LineDataInv'
    <2>1. pc' \in {"getToken", "post", "enter"}
      BY <1>5 DEF Log, UseToken
    <2>2. logged' = taken'
      BY <1>5 DEF Log
    <2>3. QED
      BY <1>5, <2>1, <2>2 DEF Log
  <1>6. CASE Issue
    BY <1>6 DEF Issue
  <1>7. CASE TokenArrives
    BY <1>7 DEF TokenArrives, UseToken
  <1>8. CASE TokenFails
    BY <1>8 DEF TokenFails, UseToken
  <1>9. CASE PostReturns
    BY <1>9 DEF PostReturns
  <1>10. ASSUME NEW len \in OtherLens \cup {FIELD_LEN}, Receive(len)
         PROVE  LineDataInv'
    BY <1>10 DEF Receive
  <1>11. ASSUME NEW result \in {-1, 0}, ReadFails(result) PROVE LineDataInv'
    BY <1>11 DEF ReadFails
  <1>12. CASE Sigint
    BY <1>12 DEF Sigint
  <1>13. CASE Tick
    BY <1>13 DEF Tick
  <1>14. CASE Settle
    BY <1>14 DEF Settle
  <1>15. CASE UNCHANGED vars
    BY <1>15 DEF vars
  <1>16. QED
    BY <1>1, <1>2, <1>3, <1>4, <1>5, <1>6, <1>7, <1>8, <1>9, <1>10, <1>11,
       <1>12, <1>13, <1>14, <1>15 DEF Next, Main

\* Whatever the servers do, every complete line the client takes from the port
\* is logged before the next one is read, unless the write failed.
THEOREM LogCompleteHolds == Spec => []LogComplete
  <1>1. LineDataInv => LogComplete
    BY DEF LineDataInv, LogInv, LogComplete
  <1>2. QED
    BY <1>1, TypeInvInit, TypeInvNext, LineDataInvInit, LineDataInvNext, PTL
       DEF Spec

\* A POSTed dataset never mixes the fields of two lines.
THEOREM NoMixedDatasetHolds == Spec => []NoMixedDataset
  <1>1. LineDataInv => NoMixedDataset
    BY DEF LineDataInv, EnvInv, NoMixedDataset
  <1>2. QED
    BY <1>1, TypeInvInit, TypeInvNext, LineDataInvInit, LineDataInvNext, PTL
       DEF Spec

=============================================================================
