-------------------------- MODULE AvrenvWeb_proofs --------------------------
(***************************************************************************)
(* Theorems of AvrenvWeb, for every number of datasets and of polls on the *)
(* way at a time.                                                          *)
(***************************************************************************)
EXTENDS AvrenvWeb, TLAPS

Polls == [phase : GetPhases, online : BOOLEAN, data : 0 .. MaxPosts,
          since : SUBSET Posts, fresh : SUBSET Posts]

----------------------------------------------------------------------------
(* Types *)

LEMMA TypeInit == Init => TypeOK
  BY WebAssumption DEF Init, TypeOK, NoPoll, PostPhases, GetPhases, Posts, Ages

LEMMA OlderType == \A a \in Ages : Older(a) \in Ages
  BY WebAssumption DEF Older, Ages

LEMMA TypeStep == ASSUME TypeOK, [Next]_vars PROVE TypeOK'
<1> USE WebAssumption
<1>1. CASE Send
  <2>1. sent + 1 \in Posts /\ sent' \in 0 .. MaxPosts /\ awaited' \in 0 .. sent'
    BY <1>1 DEF Send, TypeOK, Posts
  <2>2. Done \in SUBSET Posts
    BY DEF Done
  <2>. QED BY <1>1, <2>1, <2>2 DEF Send, TypeOK, PostPhases
<1>2. CASE Answer
  BY <1>2 DEF Answer, TypeOK
<1>3. CASE GiveUp
  BY <1>3 DEF GiveUp, TypeOK
<1>4. ASSUME NEW p \in Posts, Convert(p) PROVE TypeOK'
  BY <1>4 DEF Convert, TypeOK, PostPhases, Ages
<1>5. ASSUME NEW p \in Posts, SetLastUpdate(p) PROVE TypeOK'
  BY <1>5 DEF SetLastUpdate, TypeOK, PostPhases
<1>6. ASSUME NEW p \in Posts, SetCurrent(p) PROVE TypeOK'
  BY <1>6 DEF SetCurrent, TypeOK, PostPhases, Posts
<1>7. ASSUME NEW p \in Posts, Lose(p) PROVE TypeOK'
  BY <1>7 DEF Lose, TypeOK, PostPhases
<1>8. ASSUME NEW g \in Requests, Ask(g) \/ Deliver(g) \/ Fail(g) PROVE TypeOK'
  <2>1. NoPoll \in Polls
    BY DEF NoPoll, Polls, GetPhases
  <2>2. get \in [Requests -> Polls]
    BY DEF TypeOK, Polls
  <2>3. CASE Poll(g)
    <3>1. [NoPoll EXCEPT !.phase = "open", !.since = Done] \in Polls
      BY <2>1 DEF NoPoll, Polls, GetPhases, Done, TypeOK
    <3>. QED BY <2>2, <2>3, <3>1 DEF Poll, TypeOK, Polls
  <2>4. CASE ReadLastUpdate(g)
    <3> DEFINE fresh == {p \in Posts : post[p] \in {"stamped", "done"} /\ stamp[p] < MAX_AGE}
               poll == [get[g] EXCEPT !.phase = "half", !.online = Online(lastUpdate),
                                      !.fresh = fresh]
    <3>1. fresh \in SUBSET Posts /\ Online(lastUpdate) \in BOOLEAN
      BY DEF Online
    <3>2. get[g] \in Polls
      BY <2>2
    <3> HIDE DEF fresh
    <3>3. poll \in Polls
      <4>. HIDE <1>8, <2>4
      <4>. QED BY <3>1, <3>2 DEF Polls, GetPhases
    <3>4. get' = [get EXCEPT ![g] = poll]
      BY <2>4, Zenon DEF ReadLastUpdate, fresh
    <3> HIDE DEF poll
    <3>5. get' \in [Requests -> Polls]
      BY <2>2, <3>3, <3>4
    <3>. QED BY <2>4, <3>5 DEF ReadLastUpdate, TypeOK, Polls
  <2>5. CASE ReadCurrent(g)
    <3> DEFINE poll == [get[g] EXCEPT !.phase = "answered", !.data = current]
    <3>1. get[g] \in Polls
      BY <2>2
    <3>2. poll \in Polls
      BY <3>1 DEF Polls, GetPhases, TypeOK
    <3>3. get' = [get EXCEPT ![g] = poll]
      BY <2>5, Zenon DEF ReadCurrent
    <3> HIDE DEF poll
    <3>4. get' \in [Requests -> Polls]
      BY <2>2, <3>2, <3>3
    <3>. QED BY <2>5, <3>4 DEF ReadCurrent, TypeOK, Polls
  <2>6. CASE Deliver(g)
    <3>1. get' \in [Requests -> Polls]
      BY <2>1, <2>2, <2>6 DEF Deliver
    <3>2. get[g].data \in 0 .. MaxPosts /\ get[g].online \in BOOLEAN
      BY <2>2 DEF Polls
    <3>3. page' \in [online : BOOLEAN, data : 0 .. MaxPosts]
      BY <2>6, <3>2 DEF Deliver, Ui, TypeOK
    <3>. QED BY <2>6, <3>1, <3>3 DEF Deliver, TypeOK, Polls
  <2>7. CASE Fail(g)
    BY <2>1, <2>2, <2>7 DEF Fail, TypeOK, Polls
  <2>. QED BY <1>8, <2>3, <2>4, <2>5, <2>6, <2>7 DEF Ask
<1>9. CASE Tick
  BY <1>9, OlderType DEF Tick, TypeOK
<1>10. CASE UNCHANGED vars
  BY <1>10 DEF vars, TypeOK
<1>. QED BY <1>1, <1>2, <1>3, <1>4, <1>5, <1>6, <1>7, <1>8, <1>9, <1>10 DEF Next, Handle

\* The web application's variables keep their types: whatever POSTs and polls
\* do, ages stay within MAX_AGE and datasets are ones that were sent.
THEOREM TypeCorrect == Spec => []TypeOK
  BY TypeInit, TypeStep, PTL DEF Spec

----------------------------------------------------------------------------
(* No answer is outdated *)

\* What the history holds: a POST that was not sent has not been handled, and
\* those done when one was sent are still done, and not itself.
HistoryInv ==
    /\ \A p \in Posts : p > sent => post[p] = "unsent"
    /\ \A p \in Posts : before[p] \subseteq Done

\* No dataset that is stored, on its way to the page or shown there was replaced
\* by one stored before: SetCurrent stores a dataset only once, and one that was
\* done before another was sent is not stored again.
CurrentInv ==
    /\ \A e \in Done : ~Outdated(current, e)
    /\ current = 0 \/ current \in Done
    /\ page.data = 0 \/ page.data \in Done
    /\ \A g \in Requests :
          /\ get[g].since \subseteq Done
          /\ get[g].data = 0 \/ get[g].data \in Done

ReadInv == HistoryInv /\ CurrentInv /\ RegularRead

LEMMA ReadInit == Init => ReadInv
  BY WebAssumption DEF Init, ReadInv, HistoryInv, CurrentInv, RegularRead,
     Outdated, NoPoll, Done, Posts

LEMMA ReadStep == ASSUME TypeOK, ReadInv, [Next]_vars PROVE ReadInv'
<1> USE WebAssumption
<1>1. CASE Send
  <2>1. sent + 1 \in Posts /\ sent \in Nat
    BY <1>1 DEF Send, TypeOK, Posts
  <2>2. post[sent + 1] = "unsent"
    BY <2>1 DEF ReadInv, HistoryInv
  <2>3. Done' = Done /\ sent + 1 \notin Done
    BY <1>1, <2>1, <2>2 DEF Send, TypeOK, Done
  <2>4. \A e \in Done : before'[e] = before[e]
    BY <1>1, <2>3 DEF Send, TypeOK, Done
  <2>5. HistoryInv'
    <3>1. ASSUME NEW p \in Posts, p > sent' PROVE post'[p] = "unsent"
      BY <1>1, <2>1, <3>1 DEF Send, TypeOK, ReadInv, HistoryInv, Posts
    <3>2. ASSUME NEW p \in Posts PROVE before'[p] \subseteq Done'
      BY <1>1, <2>1, <2>3, <3>2 DEF Send, TypeOK, ReadInv, HistoryInv
    <3>. QED BY <3>1, <3>2 DEF HistoryInv
  <2>6. \A d, e : e = 0 \/ e \in Done => (Outdated(d, e)' <=> Outdated(d, e))
    BY <2>4 DEF Outdated
  <2>7. current' = current /\ get' = get /\ page' = page
    BY <1>1 DEF Send
  <2>. QED BY <2>3, <2>5, <2>6, <2>7 DEF ReadInv, CurrentInv, RegularRead
<1>2. ASSUME NEW p \in Posts, SetCurrent(p) PROVE ReadInv'
  <2>1. Done' = Done \cup {p} /\ p \notin Done
    BY <1>2 DEF SetCurrent, TypeOK, Done
  <2>2. before' = before /\ sent' = sent /\ get' = get /\ page' = page /\ current' = p
    BY <1>2 DEF SetCurrent
  <2>3. \A e \in Posts : p \notin before[e]
    BY <2>1 DEF ReadInv, HistoryInv
  <2>4. p # 0
    BY DEF Posts
  <2>5. \A e \in Posts : ~Outdated(p, e)
    BY <2>3, <2>4 DEF Outdated
  <2>6. HistoryInv'
    BY <1>2, <2>1, <2>2 DEF SetCurrent, TypeOK, ReadInv, HistoryInv
  <2>7. CurrentInv'
    <3>1. ASSUME NEW e \in Done' PROVE ~Outdated(current, e)'
      BY <2>2, <2>5, <3>1 DEF Done, Outdated
    <3>. QED BY <2>1, <2>2, <3>1 DEF ReadInv, CurrentInv
  <2>. QED BY <2>2, <2>6, <2>7 DEF ReadInv, RegularRead, Outdated
<1>3. ASSUME Done' = Done, before' = before, sent' = sent, current' = current,
             \A p \in Posts : p > sent => post'[p] = post[p],
             page'.data = 0 \/ page'.data \in Done,
             \A g \in Requests :
                \/ get'[g] = NoPoll
                \/ /\ get'[g].since = get[g].since \/ get'[g].since = Done
                   /\ \/ get'[g].data = 0 /\ get'[g].phase # "answered"
                      \/ /\ get'[g].data = get[g].data
                         /\ \/ get'[g].phase # "answered"
                            \/ get'[g] = get[g]
                      \/ /\ get'[g].data = current
                         /\ get'[g].since = get[g].since
      PROVE  ReadInv'
  <2>1. \A d, e : Outdated(d, e)' <=> Outdated(d, e)
    BY <1>3 DEF Outdated
  <2>2. HistoryInv'
    BY <1>3 DEF ReadInv, HistoryInv
  <2>3. ASSUME NEW g \in Requests
        PROVE  /\ get'[g].since \subseteq Done
               /\ get'[g].data = 0 \/ get'[g].data \in Done
    BY <1>3, <2>3 DEF ReadInv, CurrentInv, NoPoll
  <2>4. CurrentInv'
    BY <1>3, <2>1, <2>3 DEF ReadInv, CurrentInv
  <2>5. ASSUME NEW g \in Requests, get'[g].phase = "answered"
        PROVE  \A e \in get'[g].since : ~Outdated(get'[g].data, e)
    <3>1. CASE get'[g] = get[g]
      BY <2>5, <3>1 DEF ReadInv, RegularRead
    <3>2. CASE get'[g].data = current /\ get'[g].since = get[g].since
      <4>1. \A e \in Done : ~Outdated(current, e)
        BY DEF ReadInv, CurrentInv
      <4>. QED BY <3>2, <4>1 DEF ReadInv, CurrentInv
    <3>. QED BY <1>3, <2>5, <3>1, <3>2 DEF NoPoll
  <2>. QED BY <2>1, <2>2, <2>4, <2>5 DEF ReadInv, RegularRead
<1>4. CASE Answer \/ GiveUp \/ Tick \/ UNCHANGED vars
  BY <1>3, <1>4 DEF Answer, GiveUp, Tick, vars, Done, ReadInv, CurrentInv
<1>5. ASSUME NEW p \in Posts, Convert(p) \/ SetLastUpdate(p) \/ Lose(p) PROVE ReadInv'
  <2>1. Done' = Done
    BY <1>5 DEF Convert, SetLastUpdate, Lose, TypeOK, Done
  <2>2. \A q \in Posts : q > sent => post'[q] = post[q]
    BY <1>5 DEF Convert, SetLastUpdate, Lose, TypeOK, ReadInv, HistoryInv
  <2>3. before' = before /\ sent' = sent /\ get' = get /\ page' = page /\ current' = current
    BY <1>5 DEF Convert, SetLastUpdate, Lose
  <2>. QED BY <1>3, <2>1, <2>2, <2>3 DEF ReadInv, CurrentInv
<1>6. ASSUME NEW g \in Requests, Ask(g) \/ Deliver(g) \/ Fail(g) PROVE ReadInv'
  <2>1. Done' = Done /\ before' = before /\ sent' = sent /\ current' = current /\ post' = post
    BY <1>6 DEF Ask, Poll, ReadLastUpdate, ReadCurrent, Deliver, Fail, Done
  <2>2. \A h \in Requests : h # g => get'[h] = get[h]
    BY <1>6 DEF Ask, Poll, ReadLastUpdate, ReadCurrent, Deliver, Fail, TypeOK
  <2>3. page'.data = 0 \/ page'.data \in Done
    <3>1. CASE Deliver(g)
      BY <3>1 DEF Deliver, Ui, ReadInv, CurrentInv
    <3>. QED BY <1>6, <3>1 DEF Ask, Poll, ReadLastUpdate, ReadCurrent, Fail, ReadInv, CurrentInv
  <2>4. CASE Poll(g)
    <3>1. get'[g] = [NoPoll EXCEPT !.phase = "open", !.since = Done]
      BY <2>4 DEF Poll, TypeOK
    <3>2. /\ get'[g].since = Done
          /\ get'[g].data = 0 /\ get'[g].phase = "open"
      BY <3>1 DEF NoPoll
    <3>. QED BY <1>3, <2>1, <2>2, <2>3, <3>2
  <2>5. CASE ReadLastUpdate(g)
    <3>1. /\ get'[g].since = get[g].since
          /\ get'[g].data = get[g].data /\ get'[g].phase = "half"
      BY <2>5 DEF ReadLastUpdate, TypeOK
    <3>. QED BY <1>3, <2>1, <2>2, <2>3, <3>1
  <2>6. CASE ReadCurrent(g)
    <3>1. get'[g].since = get[g].since /\ get'[g].data = current
      BY <2>6 DEF ReadCurrent, TypeOK
    <3>. QED BY <1>3, <2>1, <2>2, <2>3, <3>1
  <2>7. CASE Deliver(g) \/ Fail(g)
    <3>1. get'[g] = NoPoll
      BY <2>7 DEF Deliver, Fail, TypeOK
    <3>. QED BY <1>3, <2>1, <2>2, <2>3, <3>1
  <2>. QED BY <1>6, <2>4, <2>5, <2>6, <2>7 DEF Ask
<1>. QED BY <1>1, <1>2, <1>4, <1>5, <1>6 DEF Next, Handle

\* However POSTs, also given up ones, and GETs interleave, no poll is answered
\* with a dataset that had been replaced for good before the poll began.
THEOREM RegularReadHolds == Spec => []RegularRead
<1>1. ReadInv => RegularRead
  BY DEF ReadInv
<1>. QED BY <1>1, TypeInit, TypeStep, ReadInit, ReadStep, PTL DEF Spec

----------------------------------------------------------------------------
(* No answer is offline without reason *)

Clocked == {"clocked", "stamped", "done"}
Stamped == {"stamped", "done"}

\* Overlap, as far as it cannot be undone: the earlier POST arrived.
Overlapped == \E p, q \in 1 .. sent : p < q /\ p \notin before[q] /\ post[p] \in Clocked

\* A POST that was done when another was sent took its time before that one did.
StampInv ==
    \A p, q \in Posts : q \in before[p] /\ post[p] \in Clocked => stamp[p] <= stamp[q]

\* Unless POSTs overlapped, lastUpdate is as recent as every time that was ever
\* stored in it, and with it the answers that say offline.
OfflineInv ==
    Overlapped \/
        /\ \A p \in Posts : post[p] \in Stamped => lastUpdate <= stamp[p]
        /\ \A g \in Requests :
              get[g].phase \in {"half", "answered"} /\ ~get[g].online => get[g].fresh = {}

LEMMA OfflineInit == Init => StampInv /\ OfflineInv
  BY DEF Init, StampInv, OfflineInv, NoPoll, Clocked, Stamped

LEMMA OlderMonotonic == \A a, b \in Ages : a <= b => Older(a) <= Older(b)
  BY WebAssumption DEF Older, Ages

LEMMA StampStep ==
    ASSUME TypeOK, HistoryInv, StampInv, [Next]_vars PROVE StampInv'
<1> USE WebAssumption
<1> SUFFICES ASSUME NEW p \in Posts, NEW q \in Posts,
                    q \in before'[p], post'[p] \in Clocked
             PROVE  stamp'[p] <= stamp'[q]
  BY DEF StampInv
<1>1. stamp[p] \in Ages /\ stamp[q] \in Ages
  BY DEF TypeOK
<1>2. CASE Send
  <2>1. sent + 1 \in Posts
    BY <1>2 DEF Send, TypeOK, Posts
  <2>2. p # sent + 1
    BY <1>2, <2>1 DEF Send, TypeOK, Clocked
  <2>. QED BY <1>2, <2>2 DEF Send, TypeOK, StampInv
<1>3. ASSUME NEW r \in Posts, Convert(r) PROVE stamp'[p] <= stamp'[q]
  <2>1. before' = before /\ q \in Done
    BY <1>3 DEF Convert, HistoryInv
  <2>2. q # r
    BY <1>3, <2>1 DEF Convert, Done
  <2>3. stamp'[q] = stamp[q]
    BY <1>3, <2>2 DEF Convert, TypeOK
  <2>4. CASE p = r
    BY <1>1, <1>3, <2>3, <2>4 DEF Convert, TypeOK, Ages
  <2>5. CASE p # r
    BY <1>3, <2>1, <2>3, <2>5 DEF Convert, TypeOK, StampInv
  <2>. QED BY <2>4, <2>5
<1>4. CASE Tick
  <2>1. stamp'[p] = Older(stamp[p]) /\ stamp'[q] = Older(stamp[q])
    BY <1>4 DEF Tick
  <2>2. stamp[p] <= stamp[q]
    BY <1>4 DEF Tick, StampInv
  <2>. QED BY <1>1, <2>1, <2>2, OlderMonotonic
<1>5. ASSUME stamp' = stamp, before' = before,
             post[p] \in Clocked \/ post'[p] \notin Clocked
      PROVE  stamp'[p] <= stamp'[q]
  BY <1>5 DEF StampInv
<1>6. ASSUME NEW r \in Posts, SetLastUpdate(r) \/ SetCurrent(r) \/ Lose(r)
      PROVE  stamp'[p] <= stamp'[q]
  <2>1. post[p] \in Clocked
    BY <1>6 DEF SetLastUpdate, SetCurrent, Lose, TypeOK, Clocked
  <2>. QED BY <1>5, <1>6, <2>1 DEF SetLastUpdate, SetCurrent, Lose
<1>7. CASE UNCHANGED <<post, stamp, before>>
  BY <1>5, <1>7
<1>. QED BY <1>2, <1>3, <1>4, <1>6, <1>7
     DEF Next, Handle, Answer, GiveUp, Ask, Poll, ReadLastUpdate, ReadCurrent,
         Deliver, Fail, vars

LEMMA OverlappedStays ==
    ASSUME TypeOK, HistoryInv, Overlapped, [Next]_vars PROVE Overlapped'
<1> USE WebAssumption
<1>1. PICK p \in 1 .. sent, q \in 1 .. sent :
          p < q /\ p \notin before[q] /\ post[p] \in Clocked
  BY DEF Overlapped
<1>2. p \in Posts /\ q \in Posts /\ sent \in Nat
  BY DEF TypeOK, Posts
<1>3. CASE Send
  <2>1. p # sent + 1 /\ q # sent + 1
    BY <1>2
  <2>2. post'[p] = post[p] /\ before'[q] = before[q] /\ sent' = sent + 1
    BY <1>2, <1>3, <2>1 DEF Send, TypeOK
  <2>3. p \in 1 .. sent' /\ q \in 1 .. sent'
    BY <1>2, <2>2
  <2>. QED BY <1>1, <2>2, <2>3 DEF Overlapped
<1>4. ASSUME NEW r \in Posts, Handle(r) \/ Lose(r) PROVE Overlapped'
  <2>1. post'[p] \in Clocked /\ before' = before /\ sent' = sent
    BY <1>1, <1>2, <1>4 DEF Handle, Convert, SetLastUpdate, SetCurrent, Lose, TypeOK, Clocked
  <2>. QED BY <1>1, <2>1 DEF Overlapped
<1>5. CASE UNCHANGED <<sent, post, before>>
  BY <1>1, <1>5 DEF Overlapped
<1>. QED BY <1>3, <1>4, <1>5
     DEF Next, Answer, GiveUp, Tick, Ask, Poll, ReadLastUpdate, ReadCurrent,
         Deliver, Fail, vars

LEMMA OfflineStep ==
    ASSUME TypeOK, HistoryInv, StampInv, OfflineInv, [Next]_vars PROVE OfflineInv'
<1> USE WebAssumption
<1> DEFINE Recent == \A p \in Posts : post[p] \in Stamped => lastUpdate <= stamp[p]
           Sound(g) == get[g].phase \in {"half", "answered"} /\ ~get[g].online
                           => get[g].fresh = {}
<1> SUFFICES ASSUME ~Overlapped' PROVE Recent' /\ \A g \in Requests : Sound(g)'
  BY DEF OfflineInv
<1>1. ~Overlapped /\ Recent /\ \A g \in Requests : Sound(g)
  BY OverlappedStays DEF OfflineInv
<1>2. CASE Send
  <2>1. sent + 1 \in Posts
    BY <1>2 DEF Send, TypeOK, Posts
  <2>2. Recent'
    BY <1>1, <1>2, <2>1 DEF Send, TypeOK, Stamped
  <2>. QED BY <1>1, <1>2, <2>2 DEF Send
<1>3. ASSUME NEW r \in Posts, Convert(r) \/ SetCurrent(r) \/ Lose(r)
      PROVE  Recent' /\ \A g \in Requests : Sound(g)'
  <2>1. ASSUME NEW p \in Posts, post'[p] \in Stamped PROVE lastUpdate' <= stamp'[p]
    BY <1>1, <1>3, <2>1 DEF Convert, SetCurrent, Lose, TypeOK, Stamped
  <2>2. get' = get
    BY <1>3 DEF Convert, SetCurrent, Lose
  <2>. QED BY <1>1, <2>1, <2>2
<1>4. ASSUME NEW r \in Posts, SetLastUpdate(r)
      PROVE  Recent' /\ \A g \in Requests : Sound(g)'
  <2>1. post[r] = "clocked" /\ r <= sent /\ r \in Nat /\ sent \in Nat
    BY <1>4 DEF SetLastUpdate, HistoryInv, TypeOK, Posts
  <2>2. stamp' = stamp /\ lastUpdate' = stamp[r] /\ get' = get
    BY <1>4 DEF SetLastUpdate
  <2>3. ASSUME NEW p \in Posts, post'[p] \in Stamped PROVE stamp[r] <= stamp[p]
    <3>1. stamp[r] \in Ages /\ stamp[p] \in Ages
      BY DEF TypeOK
    <3>2. CASE p = r
      BY <3>1, <3>2 DEF Ages
    <3>3. CASE p # r
      <4>1. post[p] \in Stamped
        BY <1>4, <2>3, <3>3 DEF SetLastUpdate, TypeOK
      <4>2. p \in 1 .. sent /\ r \in 1 .. sent
        BY <2>1, <4>1 DEF HistoryInv, Posts, Stamped, TypeOK
      <4>3. CASE p < r
        <5>1. p \in before[r]
          BY <1>1, <4>1, <4>2, <4>3 DEF Overlapped, Clocked, Stamped
        <5>. QED BY <2>1, <5>1 DEF StampInv, Clocked
      <4>4. CASE r < p
        <5>1. r \in before[p]
          BY <1>1, <2>1, <4>2, <4>4 DEF Overlapped, Clocked
        <5>. QED BY <2>1, <5>1 DEF HistoryInv, Done
      <4>. QED BY <3>3, <4>2, <4>3, <4>4
    <3>. QED BY <3>2, <3>3
  <2>. QED BY <1>1, <2>2, <2>3
<1>5. CASE Tick
  <2>1. ASSUME NEW p \in Posts, post'[p] \in Stamped PROVE lastUpdate' <= stamp'[p]
    <3>1. lastUpdate \in Ages /\ stamp[p] \in Ages /\ lastUpdate <= stamp[p]
      BY <1>1, <1>5, <2>1 DEF Tick, TypeOK
    <3>2. lastUpdate' = Older(lastUpdate) /\ stamp'[p] = Older(stamp[p])
      BY <1>5 DEF Tick
    <3>. QED BY <3>1, <3>2, OlderMonotonic
  <2>. QED BY <1>1, <1>5, <2>1 DEF Tick
<1>6. ASSUME NEW g \in Requests, Ask(g) \/ Deliver(g) \/ Fail(g)
      PROVE  Recent' /\ \A h \in Requests : Sound(h)'
  <2>1. Recent'
    BY <1>1, <1>6 DEF Ask, Poll, ReadLastUpdate, ReadCurrent, Deliver, Fail
  <2>2. \A h \in Requests : h # g => get'[h] = get[h]
    BY <1>6 DEF Ask, Poll, ReadLastUpdate, ReadCurrent, Deliver, Fail, TypeOK
  <2>3. Sound(g)'
    <3>1. CASE Poll(g)
      <4>1. get'[g].phase = "open"
        BY <3>1 DEF Poll, TypeOK, NoPoll
      <4>. QED BY <4>1
    <3>2. CASE ReadLastUpdate(g)
      <4> DEFINE fresh == {p \in Posts : post[p] \in {"stamped", "done"} /\ stamp[p] < MAX_AGE}
      <4>1. get'[g].fresh = fresh /\ get'[g].online = Online(lastUpdate)
        BY <3>2 DEF ReadLastUpdate, TypeOK
      <4>2. ASSUME ~Online(lastUpdate), NEW p \in fresh PROVE FALSE
        <5>1. lastUpdate <= stamp[p] /\ stamp[p] < MAX_AGE
          BY <1>1 DEF Stamped
        <5>2. stamp[p] \in Ages /\ lastUpdate \in Ages
          BY DEF TypeOK
        <5>. QED BY <4>2, <5>1, <5>2 DEF Online, Ages
      <4>. QED BY <4>1, <4>2
    <3>3. CASE ReadCurrent(g)
      <4>1. /\ get'[g].online = get[g].online /\ get'[g].fresh = get[g].fresh
            /\ get[g].phase = "half"
        BY <3>3 DEF ReadCurrent, TypeOK
      <4>. QED BY <1>1, <4>1
    <3>4. CASE Deliver(g) \/ Fail(g)
      <4>1. get'[g].phase = "idle"
        BY <3>4 DEF Deliver, Fail, TypeOK, NoPoll
      <4>. QED BY <4>1
    <3>. QED BY <1>6, <3>1, <3>2, <3>3, <3>4 DEF Ask
  <2>. QED BY <1>1, <2>1, <2>2, <2>3
<1>7. CASE Answer \/ GiveUp \/ UNCHANGED vars
  BY <1>1, <1>7 DEF Answer, GiveUp, vars
<1>. QED BY <1>2, <1>3, <1>4, <1>5, <1>6, <1>7 DEF Next, Handle

\* As long as no two POSTs were handled at the same time, an answer says offline
\* only if no POST had updated the dataset within MAX_AGE.
THEOREM OfflineSoundHolds == Spec => []OfflineSound
<1>1. Overlapped => Overlap
  BY DEF Overlapped, Overlap, Clocked
<1>2. OfflineInv => OfflineSound
  BY <1>1 DEF OfflineInv, OfflineSound
<1>3. ReadInv => HistoryInv
  BY DEF ReadInv
<1>. QED BY <1>2, <1>3, TypeInit, TypeStep, ReadInit, ReadStep, OfflineInit,
            StampStep, OfflineStep, PTL DEF Spec

----------------------------------------------------------------------------
(* No answer is online without reason *)

\* lastUpdate is the time of a POST that stored it, or older than the limit.
LatestInv ==
    lastUpdate = MAX_AGE \/
        \E p \in Posts : post[p] \in Stamped /\ lastUpdate = stamp[p]

\* What a poll that has read lastUpdate knows: an online one that a POST is
\* within the limit, and with a POST the later ones that were done when it began.
FreshInv ==
    \A g \in Requests : get[g].phase \in {"half", "answered"} =>
        /\ get[g].online => get[g].fresh # {}
        /\ \A p \in get[g].fresh, d \in get[g].since :
              p \in before[d] => d \in get[g].fresh

\* OnlineSound, but for overlaps that cannot be undone.
FreshAnswer(g) ==
    get[g].phase = "answered" /\ get[g].online =>
        get[g].data \in get[g].fresh \/ Concurrent(g) \/ Overlapped

OnlineInv == LatestInv /\ FreshInv /\ \A g \in Requests : FreshAnswer(g)

LEMMA OnlineInit == Init => OnlineInv
  BY DEF Init, OnlineInv, LatestInv, FreshInv, FreshAnswer, NoPoll

\* The time in lastUpdate and that of the POST it came from age together.
LEMMA LatestStep == ASSUME TypeOK, HistoryInv, LatestInv, [Next]_vars PROVE LatestInv'
<1> USE WebAssumption
<1>1. ASSUME lastUpdate' = lastUpdate,
             \A p \in Posts : post[p] \in Stamped =>
                 post'[p] \in Stamped /\ stamp'[p] = stamp[p]
      PROVE  LatestInv'
  BY <1>1 DEF LatestInv
<1>2. CASE Send
  <2>1. sent + 1 \in Posts /\ post[sent + 1] = "unsent"
    BY <1>2 DEF Send, TypeOK, HistoryInv, Posts
  <2>2. \A p \in Posts : post[p] \in Stamped => post'[p] \in Stamped
    BY <1>2, <2>1 DEF Send, TypeOK, Stamped
  <2>. QED BY <1>1, <1>2, <2>2 DEF Send
<1>3. ASSUME NEW q \in Posts, Convert(q) \/ SetCurrent(q) \/ Lose(q) PROVE LatestInv'
  <2>1. \A p \in Posts : post[p] \in Stamped =>
                 post'[p] \in Stamped /\ stamp'[p] = stamp[p]
    BY <1>3 DEF Convert, SetCurrent, Lose, TypeOK, Stamped
  <2>2. lastUpdate' = lastUpdate
    BY <1>3 DEF Convert, SetCurrent, Lose
  <2>. QED BY <1>1, <2>1, <2>2
<1>4. ASSUME NEW q \in Posts, SetLastUpdate(q) PROVE LatestInv'
  BY <1>4 DEF SetLastUpdate, LatestInv, TypeOK, Stamped
<1>5. CASE Tick
  BY <1>5 DEF Tick, LatestInv, Older
<1>6. CASE Answer \/ GiveUp \/ UNCHANGED vars
  BY <1>1, <1>6 DEF Answer, GiveUp, vars
<1>7. ASSUME NEW g \in Requests, Ask(g) \/ Deliver(g) \/ Fail(g) PROVE LatestInv'
  BY <1>1, <1>7 DEF Ask, Poll, ReadLastUpdate, ReadCurrent, Deliver, Fail
<1>. QED BY <1>2, <1>3, <1>4, <1>5, <1>6, <1>7 DEF Next, Handle

\* The POSTs done before one that is done do not change any more.
LEMMA BeforeStays ==
    ASSUME TypeOK, HistoryInv, [Next]_vars, NEW d \in Done
    PROVE  before'[d] = before[d]
<1> USE WebAssumption
<1>1. CASE Send
  <2>1. sent + 1 \in Posts /\ post[sent + 1] = "unsent"
    BY <1>1 DEF Send, TypeOK, HistoryInv, Posts
  <2>2. d # sent + 1 /\ d \in Posts
    BY <2>1 DEF Done
  <2>. QED BY <1>1, <2>1, <2>2 DEF Send, TypeOK
<1>2. CASE Answer \/ GiveUp \/ Tick \/ UNCHANGED vars
  BY <1>2 DEF Answer, GiveUp, Tick, vars
<1>3. ASSUME NEW p \in Posts, Handle(p) \/ Lose(p) PROVE before' = before
  BY <1>3 DEF Handle, Convert, SetLastUpdate, SetCurrent, Lose
<1>4. ASSUME NEW g \in Requests, Ask(g) \/ Deliver(g) \/ Fail(g)
      PROVE  before' = before
  BY <1>4 DEF Ask, Poll, ReadLastUpdate, ReadCurrent, Deliver, Fail
<1>. QED BY <1>1, <1>2, <1>3, <1>4 DEF Next

\* A poll that reads current gets a dataset within the limit, if there was one
\* and no POST came in between.
LEMMA ReadsFresh ==
    ASSUME TypeOK, ReadInv, FreshInv, ~Overlapped, NEW g \in Requests,
           get[g].phase = "half", get[g].online,
           get[g].fresh \subseteq get[g].since,
           current = 0 \/ current \in get[g].since
    PROVE  current \in get[g].fresh
<1>1. PICK p \in get[g].fresh : p \in get[g].since
  BY DEF FreshInv
<1>2. p \in Done /\ ~Outdated(current, p)
  BY <1>1 DEF ReadInv, CurrentInv
<1>3. current # 0 /\ current \notin before[p] /\ current \in get[g].since
  BY <1>2 DEF Outdated, Done, Posts
<1>4. current \in Done
  BY <1>3 DEF ReadInv, CurrentInv
<1>5. CASE current = p
  BY <1>1, <1>5
<1>6. CASE current # p
  <2>1. p \in 1 .. sent /\ current \in 1 .. sent
    BY <1>2, <1>4 DEF ReadInv, HistoryInv, Done, Posts, TypeOK
  <2>2. post[p] \in Clocked /\ post[current] \in Clocked
    BY <1>2, <1>4 DEF Done, Clocked
  <2>3. p < current \/ current < p
    BY <1>6, <2>1
  <2>4. p \in before[current]
    BY <1>3, <2>1, <2>2, <2>3 DEF Overlapped
  <2>. QED BY <1>1, <1>3, <2>4 DEF FreshInv
<1>. QED BY <1>5, <1>6

LEMMA OnlineStep ==
    ASSUME TypeOK, ReadInv, StampInv, OnlineInv, [Next]_vars PROVE OnlineInv'
<1> USE WebAssumption
<1>1. LatestInv'
  BY LatestStep DEF OnlineInv, ReadInv
<1>2. ASSUME NEW g \in Requests, get'[g] = get[g]
      PROVE  /\ get'[g].phase \in {"half", "answered"} =>
                    /\ get'[g].online => get'[g].fresh # {}
                    /\ \A p \in get'[g].fresh, d \in get'[g].since :
                          p \in before'[d] => d \in get'[g].fresh
             /\ FreshAnswer(g)'
  <2>1. \A d \in get[g].since : before'[d] = before[d]
    BY BeforeStays DEF ReadInv, CurrentInv
  <2>2. Overlapped => Overlapped'
    BY OverlappedStays DEF ReadInv
  <2>3. FreshAnswer(g)
    BY DEF OnlineInv
  <2>4. FreshAnswer(g)'
    BY <1>2, <2>2, <2>3 DEF FreshAnswer, Concurrent
  <2>. QED BY <1>2, <2>1, <2>4 DEF OnlineInv, FreshInv
<1>3. ASSUME NEW g \in Requests, get'[g] # get[g]
      PROVE  /\ get'[g].phase \in {"half", "answered"} =>
                    /\ get'[g].online => get'[g].fresh # {}
                    /\ \A p \in get'[g].fresh, d \in get'[g].since :
                          p \in before'[d] => d \in get'[g].fresh
             /\ FreshAnswer(g)'
  <2>1. Ask(g) \/ Deliver(g) \/ Fail(g)
    <3>1. CASE UNCHANGED get
      BY <1>3, <3>1
    <3>2. ASSUME NEW h \in Requests, Ask(h) \/ Deliver(h) \/ Fail(h)
          PROVE  Ask(g) \/ Deliver(g) \/ Fail(g)
      <4>1. h # g => get'[g] = get[g]
        BY <3>2 DEF Ask, Poll, ReadLastUpdate, ReadCurrent, Deliver, Fail, TypeOK
      <4>. QED BY <1>3, <3>2, <4>1
    <3>. QED BY <3>1, <3>2
         DEF Next, Send, Handle, Convert, SetLastUpdate, SetCurrent, Lose, Answer,
             GiveUp, Tick, vars
  <2>2. CASE Poll(g) \/ Deliver(g) \/ Fail(g)
    <3>1. CASE Poll(g)
      <4>1. get'[g].phase = "open"
        BY <3>1 DEF Poll, TypeOK, NoPoll
      <4>. QED BY <4>1 DEF FreshAnswer
    <3>2. CASE Deliver(g) \/ Fail(g)
      <4>1. get'[g].phase = "idle"
        BY <3>2 DEF Deliver, Fail, TypeOK, NoPoll
      <4>. QED BY <4>1 DEF FreshAnswer
    <3>. QED BY <2>2, <3>1, <3>2
  <2>3. CASE ReadLastUpdate(g)
    <3> DEFINE fresh == {p \in Posts : post[p] \in {"stamped", "done"} /\ stamp[p] < MAX_AGE}
    <3>1. /\ get'[g].fresh = fresh /\ get'[g].online = Online(lastUpdate)
          /\ get'[g].since = get[g].since /\ get'[g].phase = "half"
          /\ before' = before
      BY <2>3 DEF ReadLastUpdate, TypeOK
    <3>2. ASSUME Online(lastUpdate) PROVE fresh # {}
      <4>1. PICK p \in Posts : post[p] \in Stamped /\ lastUpdate = stamp[p]
        BY <3>2 DEF OnlineInv, LatestInv, Online
      <4>. QED BY <3>2, <4>1 DEF Online, Stamped
    <3>3. ASSUME NEW p \in fresh, NEW d \in get[g].since, p \in before[d]
          PROVE  d \in fresh
      <4>1. d \in Done
        BY DEF ReadInv, CurrentInv
      <4>2. stamp[d] <= stamp[p]
        BY <3>3, <4>1 DEF StampInv, Done, Clocked
      <4>3. stamp[d] \in Ages /\ stamp[p] \in Ages
        BY <4>1 DEF TypeOK, Done
      <4>. QED BY <4>1, <4>2, <4>3 DEF Done, Ages
    <3> HIDE DEF fresh
    <3>. QED BY <3>1, <3>2, <3>3 DEF FreshAnswer
  <2>4. CASE ReadCurrent(g)
    <3>1. /\ get'[g].fresh = get[g].fresh /\ get'[g].online = get[g].online
          /\ get'[g].since = get[g].since /\ get'[g].data = current
          /\ get'[g].phase = "answered" /\ get[g].phase = "half"
          /\ before' = before
      BY <2>4 DEF ReadCurrent, TypeOK
    <3>2. Overlapped => Overlapped'
      BY OverlappedStays DEF ReadInv
    <3>3. FreshInv
      BY DEF OnlineInv
    <3>4. FreshAnswer(g)'
      BY <3>1, <3>2, <3>3, ReadsFresh DEF FreshAnswer, Concurrent
    <3>. QED BY <3>1, <3>3, <3>4 DEF FreshInv
  <2>. QED BY <2>1, <2>2, <2>3, <2>4 DEF Ask
<1>. QED BY <1>1, <1>2, <1>3 DEF OnlineInv, FreshInv

\* An answer says online only if a POST had updated the time within MAX_AGE, and
\* carries a dataset of no greater age unless a POST was handled meanwhile, or
\* two POSTs at the same time.
THEOREM OnlineSoundHolds == Spec => []OnlineSound
<1>1. Overlapped => Overlap
  BY DEF Overlapped, Overlap, Clocked
<1>2. OnlineInv => OnlineSound
  BY <1>1 DEF OnlineInv, FreshInv, FreshAnswer, OnlineSound
<1>3. ReadInv => HistoryInv
  BY DEF ReadInv
<1>. QED BY <1>2, <1>3, TypeInit, TypeStep, ReadInit, ReadStep, OfflineInit,
            StampStep, OnlineInit, OnlineStep, PTL DEF Spec

=============================================================================
