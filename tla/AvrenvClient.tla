----------------------------- MODULE AvrenvClient -----------------------------
(***************************************************************************)
(* The client (avrenv-client): one thread that reads lines from the serial *)
(* port, logs each complete one, keeps an access token and POSTs the data  *)
(* with it; the receiver that sends the lines, the terminal driver that    *)
(* buffers them, the signal handler, and the two servers.                  *)
(*                                                                         *)
(* Points in time are kept as the time that is left: until the client      *)
(* takes its token for expired, and until the servers do.                  *)
(***************************************************************************)
EXTENDS Integers, Sequences

CONSTANTS
    POST_TIMEOUT,  \* most time a call to a server takes
    MARGIN,        \* a token is renewed when less than this is left (30 s)
    LIFE,          \* expires_in of the tokens
    QueueMax,      \* lines the terminal driver holds
    Lines,         \* numbers for the lines, given in turn: 1 .. Lines
    FIELD_LEN,     \* fields of a complete line (16)
    OtherLens      \* field counts of the other lines

ASSUME TokenAssumption ==
    /\ POST_TIMEOUT \in Nat
    /\ MARGIN \in Nat
    /\ LIFE \in Nat
    /\ 2 * POST_TIMEOUT < MARGIN
    /\ 2 * POST_TIMEOUT < LIFE

ASSUME LineAssumption ==
    /\ QueueMax \in Nat
    /\ Lines \in Nat \ {0}
    /\ FIELD_LEN \in Nat \ {0}
    /\ OtherLens \subseteq Nat \ {0, FIELD_LEN}

Line == [id : 1 .. Lines, len : OtherLens \cup {FIELD_LEN}]
NoLine == [id |-> 0, len |-> 0]

VARIABLES
    pc,       \* where main() is
    tty,      \* complete lines the terminal driver holds
    next,     \* number of the next line the receiver sends
    line,     \* the line in data
    env,      \* the line the first and the last field of env come from
    nul,      \* what serial_read took as the index of the terminator
    logged,   \* the last line written to the log
    taken,    \* history: the last complete line read, or logged if that failed
    tcode,    \* HTTP code of the last token request: 200 or another
    left,     \* token.exp - now, 0 when not positive
    srv,      \* time until the servers refuse the token
    issued,   \* the same for a token on its way to the client
    elapsed,  \* time the current call has taken
    sigint,   \* the signal handler ran
    calm      \* environment: from now on servers and log file work

vars == <<pc, tty, next, line, env, nul, logged, taken, tcode, left, srv,
          issued, elapsed, sigint, calm>>

tokenVars == <<tcode, left, srv, issued, elapsed>>
dataVars == <<line, env, nul, logged, taken>>
portVars == <<tty, next>>
signalVars == <<sigint, calm>>

Locations == {"enter", "read", "parse", "log", "getToken", "post", "exit"}

----------------------------------------------------------------------------
(* The receiver and the serial port *)

\* A line arrives; when the driver's buffer is full it is lost.
Receive(len) ==
    /\ tty' = IF Len(tty) < QueueMax
              THEN Append(tty, [id |-> next, len |-> len]) ELSE tty
    /\ next' = IF next < Lines THEN next + 1 ELSE 1
    /\ UNCHANGED <<pc, dataVars, tokenVars, signalVars>>

\* main enters read().
Enter ==
    /\ pc = "enter"
    /\ pc' = "read"
    /\ UNCHANGED <<portVars, dataVars, tokenVars, signalVars>>

\* read() returns one line, which is terminated behind its last character.
Read ==
    /\ pc = "read"
    /\ tty # <<>>
    /\ line' = Head(tty)
    /\ tty' = Tail(tty)
    /\ taken' = IF line'.len = FIELD_LEN THEN line'.id ELSE taken
    /\ nul' = line'.len
    /\ pc' = "parse"
    /\ UNCHANGED <<next, env, logged, tokenVars, signalVars>>

\* read() fails or reports the end of the file, and so does the loop.
ReadFails(result) ==
    /\ pc = "read"
    /\ ~calm
    /\ nul' = result
    /\ pc' = "exit"
    /\ UNCHANGED <<portVars, line, env, logged, taken, tokenVars, signalVars>>

\* SIGINT: the handler sets a flag.  A read() that waits is interrupted and
\* fails, since the handler is installed without SA_RESTART; anything else goes
\* on, and so does a read() that was not entered yet.
Sigint ==
    /\ ~sigint
    /\ pc # "exit"
    /\ sigint' = TRUE
    /\ IF pc = "read" /\ tty = <<>>
       THEN pc' = "exit" /\ nul' = -1
       ELSE UNCHANGED <<pc, nul>>
    /\ UNCHANGED <<portVars, line, env, logged, taken, tokenVars, calm>>

\* A mutation: the flag is forgotten when a line comes in.
StopForgets ==
    /\ pc = "parse"
    /\ sigint
    /\ pc' = "enter"
    /\ UNCHANGED <<portVars, dataVars, tokenVars, signalVars>>

\* After SIGINT the line that was read is dropped.
Stop ==
    /\ pc = "parse"
    /\ sigint
    /\ pc' = "exit"
    /\ UNCHANGED <<portVars, dataVars, tokenVars, signalVars>>

\* A mutation: a line that is too short passes.
CompleteOrShort(len) == len <= FIELD_LEN

Complete(len) == len = FIELD_LEN

\* read_data writes field after field to env, complete line or not.
Parse ==
    /\ pc = "parse"
    /\ ~sigint
    /\ env' = [first |-> line.id,
               last |-> IF line.len >= FIELD_LEN THEN line.id ELSE env.last]
    /\ pc' = IF Complete(line.len) THEN "log" ELSE "enter"
    /\ UNCHANGED <<portVars, line, nul, logged, taken, tokenVars, signalVars>>

----------------------------------------------------------------------------
(* The log and the token *)

\* A mutation: the token is used as long as it is not expired.
RenewWhenExpired == left <= 0

\* A mutation: the token is never asked for.
RenewNever == left < 0

\* token.exp - 30 < now
Renew == left < MARGIN

\* Where main goes with the token as it is.
UseToken(code) == IF code = 200 THEN "post" ELSE "enter"

\* A mutation: a dataset is only logged when there is a token to send it with.
LogWithToken(ok) ==
    /\ pc = "log"
    /\ ok \/ ~calm
    /\ logged' = IF ok /\ tcode = 200 THEN line.id ELSE logged
    /\ taken' = IF ok THEN taken ELSE logged
    /\ pc' = IF Renew THEN "getToken" ELSE UseToken(tcode)
    /\ elapsed' = 0
    /\ UNCHANGED <<portVars, line, env, nul, tcode, left, srv, issued,
                   signalVars>>

\* The line is logged, or that fails and is reported; then the token is looked
\* at, and the call to one of the servers begins.
Log(ok) ==
    /\ pc = "log"
    /\ ok \/ ~calm
    /\ logged' = IF ok THEN line.id ELSE logged
    /\ taken' = IF ok THEN taken ELSE logged
    /\ pc' = IF Renew THEN "getToken" ELSE UseToken(tcode)
    /\ elapsed' = 0
    /\ UNCHANGED <<portVars, line, env, nul, tcode, left, srv, issued,
                   signalVars>>

\* A mutation: the timeout is not set.
WaitForever(waited) == TRUE

\* CURLOPT_TIMEOUT: a call that has taken this long takes no longer.
MayWait(waited) == waited < POST_TIMEOUT

\* The auth server issues a token.
Issue ==
    /\ pc = "getToken"
    /\ issued = 0
    /\ issued' = LIFE
    /\ UNCHANGED <<pc, portVars, dataVars, tcode, left, srv, elapsed, signalVars>>

\* get_token returns with it: the client counts its time from now on.
TokenArrives ==
    /\ pc = "getToken"
    /\ issued > 0
    /\ tcode' = 200
    /\ left' = LIFE
    /\ srv' = issued
    /\ issued' = 0
    /\ elapsed' = 0
    /\ pc' = UseToken(tcode')
    /\ UNCHANGED <<portVars, dataVars, signalVars>>

\* get_token times out, fails or is refused: the old token stays, but it is not
\* used before a request succeeds.
TokenFails ==
    /\ pc = "getToken"
    /\ ~calm
    /\ tcode' = 0
    /\ issued' = 0
    /\ elapsed' = 0
    /\ pc' = UseToken(tcode')
    /\ UNCHANGED <<portVars, dataVars, left, srv, signalVars>>

\* post_data returns, whatever the result was, and the next line is due.
PostReturns ==
    /\ pc = "post"
    /\ pc' = "enter"
    /\ elapsed' = 0
    /\ UNCHANGED <<portVars, dataVars, tcode, left, srv, issued, signalVars>>

----------------------------------------------------------------------------

Less(t) == IF t > 0 THEN t - 1 ELSE 0

\* Time passes while main waits for a line or for a server, in a call no longer
\* than its timeout; its own steps take none.
Tick ==
    /\ \/ pc = "read"
       \/ pc \in {"getToken", "post"} /\ MayWait(elapsed)
    /\ elapsed' = IF pc = "read" THEN 0 ELSE elapsed + 1
    /\ left' = Less(left)
    /\ srv' = Less(srv)
    /\ issued' = Less(issued)
    /\ UNCHANGED <<pc, portVars, dataVars, tcode, signalVars>>

\* The servers, the network, the log file and the serial port work from now on.
Settle ==
    /\ ~calm
    /\ calm' = TRUE
    /\ UNCHANGED <<pc, portVars, dataVars, tokenVars, sigint>>

Init ==
    /\ pc = "enter"
    /\ tty = <<>>
    /\ next = 1
    /\ line = NoLine
    /\ env = [first |-> 0, last |-> 0]
    /\ nul = 0
    /\ logged = 0
    /\ taken = 0
    /\ tcode = 0
    /\ left = 0
    /\ srv = 0
    /\ issued = 0
    /\ elapsed = 0
    /\ sigint = FALSE
    /\ calm = FALSE

\* What main does by itself or with a server that answers.
Main ==
    \/ Enter
    \/ Read
    \/ Stop
    \/ Parse
    \/ \E ok \in BOOLEAN : Log(ok)
    \/ Issue
    \/ TokenArrives
    \/ TokenFails
    \/ PostReturns

Next ==
    \/ Main
    \/ \E len \in OtherLens \cup {FIELD_LEN} : Receive(len)
    \/ \E result \in {-1, 0} : ReadFails(result)
    \/ Sigint
    \/ Tick
    \/ Settle

\* The program runs, and the receiver keeps sending complete lines, not every one
\* of which finds the buffer full.
Fairness ==
    /\ WF_vars(Main)
    /\ SF_vars(Receive(FIELD_LEN) /\ Len(tty) < QueueMax)

Spec == Init /\ [][Next]_vars

FairSpec == Spec /\ Fairness

----------------------------------------------------------------------------
(* Properties *)

TypeOK ==
    /\ pc \in Locations
    /\ tty \in Seq(Line) /\ Len(tty) <= QueueMax
    /\ next \in 1 .. Lines
    /\ line \in Line \cup {NoLine}
    /\ env \in [first : 0 .. Lines, last : 0 .. Lines]
    /\ nul \in Nat \cup {-1}
    /\ logged \in 0 .. Lines
    /\ taken \in 0 .. Lines
    /\ tcode \in {0, 200}
    /\ left \in 0 .. LIFE
    /\ srv \in 0 .. LIFE
    /\ issued \in 0 .. LIFE
    /\ elapsed \in 0 .. POST_TIMEOUT
    /\ sigint \in BOOLEAN
    /\ calm \in BOOLEAN

\* The token is still good when the dataset arrives, at any moment of the call:
\* the margin of 30 s makes up for the time the token took to arrive, which the
\* client does not know, and for the time the POST may take.
TokenValid == pc = "post" => srv > 0

\* A POSTed dataset is one line of the receiver: its fields never come from
\* two lines, although lines of any length are written to the same env.
NoMixedDataset ==
    pc = "post" => env.first = line.id /\ env.last = line.id

\* Logging does not depend on the servers: whenever the client is back at
\* reading, the last complete line it took from the port is the last in the log,
\* unless writing it failed.
LogComplete ==
    pc \in {"enter", "read"} => logged = taken

\* When the servers work again, datasets are POSTed again, unless the client
\* was told to stop.
DataFlows == calm ~> (pc = "post" \/ sigint \/ pc = "exit")

\* SIGINT ends the client, wherever it was, as long as lines arrive.
SigintStops == sigint ~> pc = "exit"

\* "Reads up to len - 1 characters from the given file descriptor into the
\* given buffer until a line end and adds a '\0' terminator": the terminator is
\* written inside the buffer.
TerminatorInBuffer == nul >= 0

=============================================================================
