------------------------------ MODULE AvrenvWeb ------------------------------
(***************************************************************************)
(* The web application: DataResource keeps the last dataset POSTed to it   *)
(* and the time of that POST in two atomic variables, shared by the        *)
(* threads of all requests; the page polls it (script.js).                 *)
(*                                                                         *)
(* POSTs come from one client that sends the next dataset when the last    *)
(* one was answered or when it gave up waiting; a POST it gave up may      *)
(* still be carried out, before, while or after the next one is.           *)
(*                                                                         *)
(* Datasets are numbered in the order they are sent, 0 is EMPTY_JSON.      *)
(* Instead of points in time the model keeps ages, up to MAX_AGE.          *)
(***************************************************************************)
EXTENDS Integers

CONSTANTS
    MAX_AGE,   \* age from which on the last update makes the balloon offline
    MaxPosts,  \* datasets the client sends
    Good,      \* those received without a CRC error (crc = 1)
    Requests   \* polls of the page that may be on the way at a time

ASSUME WebAssumption ==
    /\ MAX_AGE \in Nat \ {0}
    /\ MaxPosts \in Nat
    /\ Good \subseteq 1 .. MaxPosts

Posts == 1 .. MaxPosts
Ages == 0 .. MAX_AGE

VARIABLES
    sent,        \* number of datasets the client has sent
    awaited,     \* the POST the client waits for, or 0
    post,        \* where the handler of each POST is
    stamp,       \* age of the clock reading of each POST
    before,      \* history: the POSTs that were done when this one was sent
    lastUpdate,  \* age of the time in lastUpdate, which starts as 1970
    current,     \* the dataset in current
    get,         \* the polls on the way
    page         \* what the page shows

vars == <<sent, awaited, post, stamp, before, lastUpdate, current, get, page>>

PostPhases == {"unsent", "open", "clocked", "stamped", "done", "lost"}
GetPhases == {"idle", "open", "half", "answered"}

Done == {p \in Posts : post[p] = "done"}

\* A poll that is not on the way.
NoPoll == [phase |-> "idle", online |-> FALSE, data |-> 0,
           since |-> {}, fresh |-> {}]

----------------------------------------------------------------------------
(* The client and POST /data *)

\* The client sends the next dataset.
Send ==
    /\ awaited = 0
    /\ sent < MaxPosts
    /\ sent' = sent + 1
    /\ awaited' = sent + 1
    /\ post' = [post EXCEPT ![sent + 1] = "open"]
    /\ before' = [before EXCEPT ![sent + 1] = Done]
    /\ UNCHANGED <<stamp, lastUpdate, current, get, page>>

\* convert: the clock is read ...
Convert(p) ==
    /\ post[p] = "open"
    /\ post' = [post EXCEPT ![p] = "clocked"]
    /\ stamp' = [stamp EXCEPT ![p] = 0]
    /\ UNCHANGED <<sent, awaited, before, lastUpdate, current, get, page>>

\* A mutation: the time at which the dataset expires is stored.
SetLastUpdateExpiry(p) ==
    /\ post[p] = "clocked"
    /\ post' = [post EXCEPT ![p] = "stamped"]
    /\ lastUpdate' = stamp[p] - MAX_AGE
    /\ UNCHANGED <<sent, awaited, stamp, before, current, get, page>>

\* ... and lastUpdate set, before the dataset is returned to post ...
SetLastUpdate(p) ==
    /\ post[p] = "clocked"
    /\ post' = [post EXCEPT ![p] = "stamped"]
    /\ lastUpdate' = stamp[p]
    /\ UNCHANGED <<sent, awaited, stamp, before, current, get, page>>

\* ... which stores it.
SetCurrent(p) ==
    /\ post[p] = "stamped"
    /\ post' = [post EXCEPT ![p] = "done"]
    /\ current' = p
    /\ UNCHANGED <<sent, awaited, stamp, before, lastUpdate, get, page>>

\* The client gets the answer.
Answer ==
    /\ awaited \in Done
    /\ awaited' = 0
    /\ UNCHANGED <<sent, post, stamp, before, lastUpdate, current, get, page>>

\* The client's timeout expires; the POST goes on.
GiveUp ==
    /\ awaited # 0
    /\ awaited' = 0
    /\ UNCHANGED <<sent, post, stamp, before, lastUpdate, current, get, page>>

\* A POST the client gave up never arrives.
Lose(p) ==
    /\ post[p] = "open"
    /\ awaited # p
    /\ post' = [post EXCEPT ![p] = "lost"]
    /\ UNCHANGED <<sent, awaited, stamp, before, lastUpdate, current, get, page>>

----------------------------------------------------------------------------
(* The page and GET /data *)

\* Every three seconds the page asks, whether or not earlier polls are answered.
Poll(g) ==
    /\ get[g].phase = "idle"
    /\ get' = [get EXCEPT ![g] = [NoPoll EXCEPT !.phase = "open",
                                                !.since = Done]]
    /\ UNCHANGED <<sent, awaited, post, stamp, before, lastUpdate, current, page>>

\* A mutation: the answer is offline one unit too early.
OnlineTooShort(age) == age + 1 < MAX_AGE

\* A mutation: the answer is still online at the limit.
OnlineTooLong(age) == age <= MAX_AGE

\* (System.currentTimeMillis() - lastUpdate.get()) < MAX_AGE
Online(age) == age < MAX_AGE

\* get: lastUpdate is read ...
ReadLastUpdate(g) ==
    /\ get[g].phase = "open"
    /\ get' = [get EXCEPT
                 ![g].phase = "half",
                 ![g].online = Online(lastUpdate),
                 ![g].fresh = {p \in Posts : /\ post[p] \in {"stamped", "done"}
                                             /\ stamp[p] < MAX_AGE}]
    /\ UNCHANGED <<sent, awaited, post, stamp, before, lastUpdate, current, page>>

\* A mutation: current is a plain field, and a thread may see an older value.
ReadCurrentPlain(g) ==
    /\ get[g].phase = "half"
    /\ \E d \in 0 .. current :
          get' = [get EXCEPT ![g].phase = "answered", ![g].data = d]
    /\ UNCHANGED <<sent, awaited, post, stamp, before, lastUpdate, current, page>>

\* ... and then current.
ReadCurrent(g) ==
    /\ get[g].phase = "half"
    /\ get' = [get EXCEPT ![g].phase = "answered", ![g].data = current]
    /\ UNCHANGED <<sent, awaited, post, stamp, before, lastUpdate, current, page>>

\* A mutation: the return for an offline balloon comes first.
UiOfflineFirst(online, data) ==
    IF ~online THEN page
    ELSE [online |-> TRUE, data |-> IF data \in Good THEN data ELSE page.data]

\* ui: whether the balloon is online is always shown, the dataset only when it
\* is and the CRC was right.
Ui(online, data) ==
    [online |-> online,
     data |-> IF online /\ data \in Good THEN data ELSE page.data]

\* An answer reaches the page; answers may overtake each other.
Deliver(g) ==
    /\ get[g].phase = "answered"
    /\ page' = Ui(get[g].online, get[g].data)
    /\ get' = [get EXCEPT ![g] = NoPoll]
    /\ UNCHANGED <<sent, awaited, post, stamp, before, lastUpdate, current>>

\* A poll fails; the page only logs it.  A GET changes nothing, so it does not
\* matter whether the request or the answer was lost.
Fail(g) ==
    /\ get[g].phase = "answered"
    /\ get' = [get EXCEPT ![g] = NoPoll]
    /\ UNCHANGED <<sent, awaited, post, stamp, before, lastUpdate, current, page>>

----------------------------------------------------------------------------

\* Time passes; ages of MAX_AGE and more are the same.
Older(age) == IF age < MAX_AGE THEN age + 1 ELSE age

Tick ==
    /\ lastUpdate' = Older(lastUpdate)
    /\ stamp' = [p \in Posts |-> Older(stamp[p])]
    /\ UNCHANGED <<sent, awaited, post, before, current, get, page>>

Init ==
    /\ sent = 0
    /\ awaited = 0
    /\ post = [p \in Posts |-> "unsent"]
    /\ stamp = [p \in Posts |-> MAX_AGE]
    /\ before = [p \in Posts |-> {}]
    /\ lastUpdate = MAX_AGE
    /\ current = 0
    /\ get = [g \in Requests |-> NoPoll]
    /\ page = [online |-> FALSE, data |-> 0]

\* One step of the handler of a POST.
Handle(p) == Convert(p) \/ SetLastUpdate(p) \/ SetCurrent(p)

\* A poll on its way to an answer.
Ask(g) == Poll(g) \/ ReadLastUpdate(g) \/ ReadCurrent(g)

Next ==
    \/ Send \/ Answer \/ GiveUp
    \/ \E p \in Posts : Handle(p) \/ Lose(p)
    \/ \E g \in Requests : Ask(g) \/ Deliver(g) \/ Fail(g)
    \/ Tick

\* Threads run, time passes, the page polls, and now and then a poll gets
\* through: a poll may fail, but not every one.
Fairness ==
    /\ WF_vars(Tick)
    /\ \A p \in Posts : WF_vars(Handle(p))
    /\ \A g \in Requests : WF_vars(Ask(g)) /\ SF_vars(Deliver(g))

Spec == Init /\ [][Next]_vars

FairSpec == Spec /\ Fairness

----------------------------------------------------------------------------
(* Properties *)

TypeOK ==
    /\ sent \in 0 .. MaxPosts
    /\ awaited \in 0 .. sent
    /\ post \in [Posts -> PostPhases]
    /\ stamp \in [Posts -> Ages]
    /\ before \in [Posts -> SUBSET Posts]
    /\ lastUpdate \in Ages
    /\ current \in 0 .. MaxPosts
    /\ get \in [Requests -> [phase : GetPhases, online : BOOLEAN,
                             data : 0 .. MaxPosts, since : SUBSET Posts,
                             fresh : SUBSET Posts]]
    /\ page \in [online : BOOLEAN, data : 0 .. MaxPosts]

\* d was replaced for good by e: it was stored before e was even sent.
Outdated(d, e) == e # 0 /\ (d = 0 \/ d \in before[e])

\* A poll never answers with a dataset that an acknowledged, later one had
\* replaced before the poll began, however POSTs and GETs interleave and
\* although a POST the client gave up may be stored after its successor.
RegularRead ==
    \A g \in Requests : get[g].phase = "answered" =>
        \A e \in get[g].since : ~Outdated(get[g].data, e)

\* Two POSTs were handled at the same time.
Overlap == \E p, q \in 1 .. sent : p < q /\ p \notin before[q] /\ post[p] # "lost"

\* As long as no two POSTs were handled at the same time, an answer says offline
\* only if no POST had updated the dataset within MAX_AGE.
OfflineSound ==
    \A g \in Requests :
        get[g].phase \in {"half", "answered"} /\ ~get[g].online =>
            get[g].fresh = {} \/ Overlap

\* A POST was handled while the poll g was: one that had updated the time was not
\* done when the poll began, or the dataset in the answer was stored since.
Concurrent(g) ==
    \/ ~(get[g].fresh \subseteq get[g].since)
    \/ get[g].data # 0 /\ get[g].data \notin get[g].since

\* An answer says online only if a POST had updated the time within MAX_AGE, and
\* carries a dataset of no greater age.  The two are read one after the other
\* and stored one after the other, so that this needs that no POST was handled
\* during the poll, and no two POSTs at the same time.
OnlineSound ==
    \A g \in Requests :
        get[g].phase = "answered" /\ get[g].online =>
            /\ get[g].fresh # {}
            /\ get[g].data \in get[g].fresh \/ Concurrent(g) \/ Overlap

\* When no dataset comes any more the page ends up showing that the balloon is
\* offline, and stays so: no late answer brings it back.
PageGoesOffline == sent = MaxPosts ~> [](~page.online)

\* "Responds with the most recently POSTed dataset, adding one field indicating
\* if the baloon is online": an answer that says online carries a dataset.
OnlineHasData ==
    \A g \in Requests :
        get[g].phase = "answered" /\ get[g].online => get[g].data # 0

=============================================================================
