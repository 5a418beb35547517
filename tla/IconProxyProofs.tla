---------------------------- MODULE IconProxyProofs ----------------------------
(***************************************************************************)
(* Proofs about the icon proxy, for any tokens, GETs, icons and times to   *)
(* live: what it keeps and fetches is never filed under a time at which    *)
(* the source had something else, and so it implements FreshIcons.         *)
(***************************************************************************)
EXTENDS IconProxy, SequenceTheorems, TLAPS

Kept == [icon : Answers, age : Ages]
Fetches == [token : Tokens \cup {Nothing}, age : Ages, answer : Answers \cup {Unanswered},
            mine : BOOLEAN]

\* What the promise needs to know of the proxy's state; order does not matter to it.
IconTypeOK ==
    /\ published \in SUBSET Tokens
    /\ cache \in [Tokens -> Kept \cup {NotKept}]
    /\ fetch \in [Requests -> Fetches]
    /\ source \in [Tokens -> Answers]
    /\ since \in [Tokens -> [Answers -> Ages]]
    /\ allowed \in [Requests -> SUBSET Answers]

\* A source gives at this moment what it has.
SourceCurrent == \A t \in Tokens : since[t][source[t]] = 0

\* A GET may be given what the source has while it waits.
SourceAllowed ==
    \A r \in Requests : fetch[r].token # Nothing => source[fetch[r].token] \in allowed[r]

ProxyInv == IconTypeOK /\ SourceCurrent /\ SourceAllowed /\ NothingBackdated

-------------------------------------------------------------------------------
\* The constants, as the steps use them.
LEMMA Basics ==
    /\ Answers = Icons \cup {Missing}
    /\ Missing \in Answers /\ Unanswered \notin Answers /\ Nothing \notin Answers
    /\ Nothing \notin Tokens
    /\ Ages \subseteq Nat /\ 0 \in Ages /\ HitTTL \in Ages
    /\ \A a \in Ages : a <= HitTTL
    /\ \A v : TTL(v) \in Nat /\ 0 < TTL(v) /\ TTL(v) <= HitTTL
    /\ NotKept \notin Kept
<1>1. Answers = Icons \cup {Missing}
  BY DEF Answers, Browser!Answers
<1>2. /\ HitTTL \in Nat /\ MissTTL \in Nat /\ 0 < MissTTL /\ MissTTL <= HitTTL
      /\ Unanswered \notin Icons \cup {Missing} /\ Nothing \notin Tokens \cup Icons \cup {Missing}
  BY ProxyAssumption DEF ProxyAssumption
<1>3. \A v : TTL(v) \in Nat /\ 0 < TTL(v) /\ TTL(v) <= HitTTL
  BY <1>2 DEF TTL, Browser!TTL
<1>4. Ages \subseteq Nat /\ 0 \in Ages /\ HitTTL \in Ages /\ \A a \in Ages : a <= HitTTL
  BY <1>2 DEF Ages
<1>5. NotKept \notin Kept
  BY <1>1, <1>2 DEF NotKept, Kept
<1> QED BY <1>1, <1>2, <1>3, <1>4, <1>5

\* Ages stay ages, and the older of two stays the older.
LEMMA OlderAges ==
    ASSUME NEW a \in Ages
    PROVE  Older(a) \in Ages /\ \A b \in Ages : b <= a => Older(b) <= Older(a)
BY ProxyAssumption DEF ProxyAssumption, Ages, Older

\* When a source gives something, nothing it gave before is older than it was and
\* nothing a GET may be given is taken back.
LEMMA GivenEffect ==
    ASSUME IconTypeOK, NEW t \in Tokens, NEW v \in Answers, Browser!Given(t, v)
    PROVE  /\ since' \in [Tokens -> [Answers -> Ages]] /\ allowed' \in [Requests -> SUBSET Answers]
           /\ since'[t][v] = 0
           /\ \A u \in Tokens, w \in Answers : since'[u][w] <= since[u][w]
           /\ \A u \in Tokens, w \in Answers : <<u, w>> # <<t, v>> => since'[u][w] = since[u][w]
           /\ \A r \in Requests : allowed[r] \subseteq allowed'[r]
           /\ \A r \in Requests : fetch[r].token = t => v \in allowed'[r]
<1>1. since' = [since EXCEPT ![t][v] = 0]
  BY DEF Browser!Given
<1>2. since \in [Tokens -> [Answers -> Ages]] /\ 0 \in Ages /\ Ages \subseteq Nat
  BY Basics DEF IconTypeOK
<1>3. /\ since' \in [Tokens -> [Answers -> Ages]] /\ since'[t][v] = 0
      /\ \A u \in Tokens, w \in Answers : <<u, w>> # <<t, v>> => since'[u][w] = since[u][w]
  BY <1>1, <1>2
<1>4. \A u \in Tokens, w \in Answers : since'[u][w] <= since[u][w]
  <2> SUFFICES ASSUME NEW u \in Tokens, NEW w \in Answers PROVE since'[u][w] <= since[u][w]
    OBVIOUS
  <2>1. since[u][w] \in Nat
    BY <1>2
  <2> QED BY <1>3, <2>1
<1>5. allowed' = [r \in Requests |-> IF fetch[r].token = t THEN allowed[r] \cup {v} ELSE allowed[r]]
  BY DEF Browser!Given, pending
<1>6. allowed \in [Requests -> SUBSET Answers]
  BY DEF IconTypeOK
<1> QED BY <1>3, <1>4, <1>5, <1>6

\* The proxy starts with nothing kept and nothing under way.
LEMMA ProxyStart == ASSUME ProxyInit PROVE ProxyInv
<1>1. IconTypeOK
  BY Basics DEF ProxyInit, IconTypeOK, Fetches, Idle
<1>2. SourceCurrent
  BY Basics DEF ProxyInit, SourceCurrent
<1>3. SourceAllowed /\ NothingBackdated
  BY DEF ProxyInit, SourceAllowed, NothingBackdated, Idle
<1> QED BY <1>1, <1>2, <1>3 DEF ProxyInv

\* Steps that neither ask a source nor keep what one gave.
LEMMA QuietStep ==
    ASSUME ProxyInv,
           ReloadProxy \/ \E t \in Tokens : PublishIcon(t) \/ GetAtOnce(t)
    PROVE  ProxyInv'
<1>1. CASE \E t \in Tokens : PublishIcon(t) \/ GetAtOnce(t)
  BY <1>1 DEF PublishIcon, GetAtOnce, ProxyInv, IconTypeOK, SourceCurrent, SourceAllowed,
     NothingBackdated
<1>2. CASE ReloadProxy
  <2>1. /\ cache' = [t \in Tokens |-> NotKept] /\ published' = {}
        /\ fetch' = [r \in Requests |-> [fetch[r] EXCEPT !.mine = FALSE]]
        /\ UNCHANGED <<source, since, allowed>>
    BY <1>2 DEF ReloadProxy
  <2>2. /\ fetch' \in [Requests -> Fetches]
        /\ \A r \in Requests : fetch'[r].token = fetch[r].token /\ fetch'[r].age = fetch[r].age
                               /\ fetch'[r].answer = fetch[r].answer
    BY <2>1 DEF ProxyInv, IconTypeOK, Fetches
  <2> QED BY <2>1, <2>2 DEF ProxyInv, IconTypeOK, SourceCurrent, SourceAllowed, NothingBackdated
<1> QED BY <1>1, <1>2

\* A GET that has to wait may be given what the source has when it asks.
LEMMA AskStep ==
    ASSUME ProxyInv, NEW r \in Requests, NEW t \in Tokens, GetStarts(r, t)
    PROVE  ProxyInv'
<1>1. /\ fetch' = [fetch EXCEPT ![r] =
                      [token |-> t, age |-> 0, answer |-> Unanswered, mine |-> TRUE]]
      /\ allowed' = [allowed EXCEPT ![r] = Browser!Recent(t)]
      /\ UNCHANGED <<published, cache, source, since>>
  BY DEF GetStarts
<1>2. Browser!Recent(t) \in SUBSET Answers
  BY DEF Browser!Recent, Answers
<1>3. source[t] \in Browser!Recent(t)
  BY Basics DEF Browser!Recent, ProxyInv, SourceCurrent, IconTypeOK, Answers, TTL
<1>4. IconTypeOK'
  BY <1>1, <1>2, Basics DEF ProxyInv, IconTypeOK, Fetches
<1>5. SourceCurrent' /\ SourceAllowed'
  BY <1>1, <1>3 DEF ProxyInv, IconTypeOK, SourceCurrent, SourceAllowed
<1>6. NothingBackdated'
  BY <1>1 DEF ProxyInv, IconTypeOK, NothingBackdated
<1> QED BY <1>4, <1>5, <1>6 DEF ProxyInv

\* The answer that arrives is what the source has now, however long the fetch took.
LEMMA FetchedStep == ASSUME ProxyInv, NEW r \in Requests, Fetched(r) PROVE ProxyInv'
<1>1. /\ fetch[r].token # Nothing
      /\ fetch' = [fetch EXCEPT ![r].answer = source[fetch[r].token]]
      /\ UNCHANGED <<published, cache, source, since, allowed>>
  BY DEF Fetched
<1>2. /\ fetch[r].token \in Tokens /\ source[fetch[r].token] \in Answers /\ fetch[r].age \in Nat
  BY <1>1, Basics DEF ProxyInv, IconTypeOK, Fetches
<1>3. IconTypeOK'
  BY <1>1, <1>2 DEF ProxyInv, IconTypeOK, Fetches
<1>4. /\ \A q \in Requests : fetch'[q].token = fetch[q].token /\ fetch'[q].age = fetch[q].age
      /\ \A q \in Requests \ {r} : fetch'[q] = fetch[q]
      /\ fetch'[r].answer = source[fetch[r].token]
  BY <1>1 DEF ProxyInv, IconTypeOK, Fetches
<1>5. SourceCurrent' /\ SourceAllowed'
  BY <1>1, <1>4 DEF ProxyInv, SourceCurrent, SourceAllowed
<1>6. NothingBackdated'
  BY <1>1, <1>2, <1>4 DEF ProxyInv, SourceCurrent, SourceAllowed, NothingBackdated
<1> QED BY <1>3, <1>5, <1>6 DEF ProxyInv

\* What a source gives makes nothing older, so all that was filed stays rightly filed.
LEMMA GivenKeeps ==
    ASSUME ProxyInv, IconTypeOK', NEW t \in Tokens, NEW v \in Answers, Browser!Given(t, v),
           cache' = cache, \A r \in Requests : fetch'[r].token = fetch[r].token,
           \A r \in Requests : fetch'[r].age = fetch[r].age
    PROVE  /\ \A u \in Tokens : cache'[u] # NotKept => since'[u][cache'[u].icon] <= cache'[u].age
           /\ \A r \in Requests :
                 (fetch[r].token # Nothing /\ fetch[r].answer # Unanswered) =>
                     fetch[r].answer \in allowed'[r]
                     /\ since'[fetch[r].token][fetch[r].answer] <= fetch[r].age
<1>1. /\ \A u \in Tokens, w \in Answers : since'[u][w] <= since[u][w]
      /\ \A r \in Requests : allowed[r] \subseteq allowed'[r]
  BY GivenEffect DEF ProxyInv
<1>2. \A u \in Tokens, w \in Answers : since'[u][w] \in Nat /\ since[u][w] \in Nat
  <2>1. since \in [Tokens -> [Answers -> Ages]] /\ since' \in [Tokens -> [Answers -> Ages]]
    BY DEF ProxyInv, IconTypeOK
  <2>2. Ages \subseteq Nat
    BY Basics
  <2> QED BY <2>1, <2>2
<1>3. ASSUME NEW u \in Tokens, cache[u] # NotKept
      PROVE  since'[u][cache[u].icon] <= cache[u].age
  <2>1. cache[u].icon \in Answers /\ cache[u].age \in Nat
    BY <1>3, Basics DEF ProxyInv, IconTypeOK, Kept
  <2>2. since[u][cache[u].icon] <= cache[u].age
    BY <1>3 DEF ProxyInv, NothingBackdated
  <2> QED BY <1>1, <1>2, <2>1, <2>2
<1>4. ASSUME NEW r \in Requests, fetch[r].token # Nothing, fetch[r].answer # Unanswered
      PROVE  fetch[r].answer \in allowed'[r]
             /\ since'[fetch[r].token][fetch[r].answer] <= fetch[r].age
  <2>1. fetch[r].token \in Tokens /\ fetch[r].answer \in Answers /\ fetch[r].age \in Nat
    BY <1>4, Basics DEF ProxyInv, IconTypeOK, Fetches
  <2>2. fetch[r].answer \in allowed[r] /\ since[fetch[r].token][fetch[r].answer] <= fetch[r].age
    BY <1>4 DEF ProxyInv, NothingBackdated
  <2> QED BY <1>1, <1>2, <2>1, <2>2
<1> QED BY <1>3, <1>4

\* A fetch that fails answers that there is no icon, as of now.
LEMMA FailsStep == ASSUME ProxyInv, NEW r \in Requests, FetchFails(r) PROVE ProxyInv'
<1> DEFINE t == fetch[r].token
<1>1. /\ t # Nothing /\ Browser!Given(t, Missing)
      /\ fetch' = [fetch EXCEPT ![r].answer = Missing]
      /\ UNCHANGED <<published, cache, source>>
  BY DEF FetchFails
<1>2. t \in Tokens /\ Missing \in Answers /\ fetch[r].age \in Nat
  BY <1>1, Basics DEF ProxyInv, IconTypeOK, Fetches
<1>3. /\ since' \in [Tokens -> [Answers -> Ages]] /\ allowed' \in [Requests -> SUBSET Answers]
      /\ since'[t][Missing] = 0
      /\ \A u \in Tokens, w \in Answers : <<u, w>> # <<t, Missing>> => since'[u][w] = since[u][w]
      /\ \A q \in Requests : allowed[q] \subseteq allowed'[q]
      /\ \A q \in Requests : fetch[q].token = t => Missing \in allowed'[q]
  BY <1>1, <1>2, GivenEffect DEF ProxyInv
<1>4. /\ \A q \in Requests : fetch'[q].token = fetch[q].token /\ fetch'[q].age = fetch[q].age
      /\ \A q \in Requests \ {r} : fetch'[q] = fetch[q]
      /\ fetch'[r].answer = Missing
  BY <1>1 DEF ProxyInv, IconTypeOK, Fetches
<1>5. IconTypeOK'
  <2>1. fetch' \in [Requests -> Fetches]
    BY <1>1, <1>2 DEF ProxyInv, IconTypeOK, Fetches
  <2> QED BY <1>1, <1>3, <2>1 DEF ProxyInv, IconTypeOK
<1>6. SourceCurrent'
  <2> SUFFICES ASSUME NEW u \in Tokens PROVE since'[u][source[u]] = 0
    BY <1>1 DEF SourceCurrent
  <2>1. source[u] \in Answers /\ since[u][source[u]] = 0
    BY DEF ProxyInv, IconTypeOK, SourceCurrent
  <2> QED BY <1>3, <2>1
<1>7. SourceAllowed'
  BY <1>1, <1>3, <1>4 DEF ProxyInv, SourceAllowed
<1>8. NothingBackdated'
  <2>1. /\ \A u \in Tokens : cache'[u] # NotKept => since'[u][cache'[u].icon] <= cache'[u].age
        /\ \A q \in Requests :
              (fetch[q].token # Nothing /\ fetch[q].answer # Unanswered) =>
                  fetch[q].answer \in allowed'[q]
                  /\ since'[fetch[q].token][fetch[q].answer] <= fetch[q].age
    BY <1>1, <1>2, <1>4, <1>5, GivenKeeps
  <2>2. since'[t][Missing] <= fetch[r].age
    BY <1>2, <1>3
  <2> QED BY <1>3, <1>4, <2>1, <2>2 DEF NothingBackdated
<1> QED BY <1>5, <1>6, <1>7, <1>8 DEF ProxyInv

\* The artwork at a source changes.
LEMMA ChangeStep ==
    ASSUME ProxyInv, NEW t \in Tokens, NEW v \in Answers, SourceChanges(t, v)
    PROVE  ProxyInv'
<1>1. /\ source' = [source EXCEPT ![t] = v] /\ Browser!Given(t, v)
      /\ UNCHANGED <<published, cache, fetch>>
  BY DEF SourceChanges
<1>2. /\ since' \in [Tokens -> [Answers -> Ages]] /\ allowed' \in [Requests -> SUBSET Answers]
      /\ since'[t][v] = 0
      /\ \A u \in Tokens, w \in Answers : <<u, w>> # <<t, v>> => since'[u][w] = since[u][w]
      /\ \A r \in Requests : allowed[r] \subseteq allowed'[r]
      /\ \A r \in Requests : fetch[r].token = t => v \in allowed'[r]
  BY <1>1, GivenEffect DEF ProxyInv
<1>3. IconTypeOK'
  BY <1>1, <1>2 DEF ProxyInv, IconTypeOK
<1>4. SourceCurrent'
  <2> SUFFICES ASSUME NEW u \in Tokens PROVE since'[u][source'[u]] = 0
    BY DEF SourceCurrent
  <2>1. CASE u = t
    BY <1>1, <1>2, <2>1 DEF ProxyInv, IconTypeOK
  <2>2. CASE u # t
    <3>1. source'[u] = source[u] /\ source[u] \in Answers /\ since[u][source[u]] = 0
      BY <1>1, <2>2 DEF ProxyInv, IconTypeOK, SourceCurrent
    <3> QED BY <1>2, <2>2, <3>1
  <2> QED BY <2>1, <2>2
<1>5. SourceAllowed'
  <2> SUFFICES ASSUME NEW r \in Requests, fetch[r].token # Nothing
               PROVE  source'[fetch[r].token] \in allowed'[r]
    BY <1>1 DEF SourceAllowed
  <2>1. fetch[r].token \in Tokens /\ source[fetch[r].token] \in allowed[r]
    BY DEF ProxyInv, IconTypeOK, Fetches, SourceAllowed
  <2> QED BY <1>1, <1>2, <2>1 DEF ProxyInv, IconTypeOK
<1>6. NothingBackdated'
  <2>1. fetch' = fetch /\ cache' = cache
    BY <1>1
  <2> QED BY <1>1, <1>3, <2>1, GivenKeeps DEF NothingBackdated
<1> QED BY <1>3, <1>4, <1>5, <1>6 DEF ProxyInv

\* An entry is as old as its fetch was when it ended, counted from its start.
LEMMA EndsStep == ASSUME ProxyInv, NEW r \in Requests, GetEnds(r) PROVE ProxyInv'
<1> DEFINE f == fetch[r]
<1>1. /\ f.token # Nothing /\ f.answer # Unanswered
      /\ fetch' = [fetch EXCEPT ![r] = Idle] /\ allowed' = [allowed EXCEPT ![r] = {}]
      /\ UNCHANGED <<published, source, since>>
  BY DEF GetEnds
<1>2. /\ f.token \in Tokens /\ f.answer \in Answers /\ f.age \in Ages
      /\ since[f.token][f.answer] <= f.age
  BY <1>1 DEF ProxyInv, IconTypeOK, Fetches, NothingBackdated
<1>3. \/ cache' = cache
      \/ \E held \in SUBSET Tokens :
            cache' = [t \in Tokens |-> IF t \notin held THEN NotKept
                                       ELSE IF t = f.token THEN Keeps(f) ELSE cache[t]]
  <2>1. CASE ~f.mine
    BY <2>1 DEF GetEnds
  <2>2. CASE f.mine
    <3> DEFINE held == {t \in Tokens : ~ \A i \in DOMAIN order' : order'[i] # t}
    <3>1. cache' = [t \in Tokens |->
                        IF \A i \in DOMAIN order' : order'[i] # t THEN NotKept
                        ELSE IF t = f.token THEN Keeps(f) ELSE cache[t]]
      BY <2>2 DEF GetEnds
    <3>2. cache' = [t \in Tokens |-> IF t \notin held THEN NotKept
                                       ELSE IF t = f.token THEN Keeps(f) ELSE cache[t]]
      BY <3>1
    <3> QED BY <3>2
  <2> QED BY <2>1, <2>2
<1>4. Keeps(f) \in Kept /\ Keeps(f).icon = f.answer /\ Keeps(f).age = f.age
  BY <1>2 DEF Keeps, Kept
<1>5. cache' \in [Tokens -> Kept \cup {NotKept}]
      /\ \A t \in Tokens : \/ cache'[t] \in {NotKept, cache[t]}
                           \/ t = f.token /\ cache'[t] = Keeps(f)
  <2>1. cache \in [Tokens -> Kept \cup {NotKept}]
    BY DEF ProxyInv, IconTypeOK
  <2>2. CASE cache' = cache
    BY <2>1, <2>2
  <2>3. CASE \E held \in SUBSET Tokens :
                cache' = [t \in Tokens |-> IF t \notin held THEN NotKept
                                           ELSE IF t = f.token THEN Keeps(f) ELSE cache[t]]
    <3>1. PICK held \in SUBSET Tokens :
                cache' = [t \in Tokens |-> IF t \notin held THEN NotKept
                                           ELSE IF t = f.token THEN Keeps(f) ELSE cache[t]]
      BY <2>3
    <3> HIDE DEF f
    <3> QED BY <1>4, <2>1, <3>1
  <2> QED BY <1>3, <2>2, <2>3
<1>6. IconTypeOK'
  <2>1. Idle \in Fetches
    BY Basics DEF Idle, Fetches
  <2> QED BY <1>1, <1>5, <2>1 DEF ProxyInv, IconTypeOK
<1>7. SourceCurrent' /\ SourceAllowed'
  BY <1>1 DEF ProxyInv, IconTypeOK, SourceCurrent, SourceAllowed, Idle
<1>8. NothingBackdated'
  <2>1. \A t \in Tokens : cache'[t] # NotKept => since'[t][cache'[t].icon] <= cache'[t].age
    BY <1>1, <1>2, <1>4, <1>5 DEF ProxyInv, NothingBackdated
  <2>2. \A q \in Requests :
            fetch'[q].token # Nothing => fetch'[q] = fetch[q] /\ allowed'[q] = allowed[q]
    BY <1>1 DEF ProxyInv, IconTypeOK, Idle
  <2> QED BY <1>1, <2>1, <2>2 DEF ProxyInv, NothingBackdated
<1> QED BY <1>6, <1>7, <1>8 DEF ProxyInv

\* All that is kept or under way grows older together, up to the limit.
LEMMA TickStep == ASSUME ProxyInv, ProxyTick PROVE ProxyInv'
<1>1. /\ cache' = [t \in Tokens |-> [cache[t] EXCEPT !.age = Older(@)]]
      /\ fetch' = [r \in Requests |-> IF fetch[r].token = Nothing THEN fetch[r]
                                      ELSE [fetch[r] EXCEPT !.age = Older(@)]]
      /\ since' = [t \in Tokens |-> [v \in Answers |->
                      IF v = source[t] THEN 0 ELSE Older(since[t][v])]]
      /\ UNCHANGED <<published, source, allowed>>
  BY DEF ProxyTick
<1>2. since' \in [Tokens -> [Answers -> Ages]]
  <2>1. \A t \in Tokens, v \in Answers : Older(since[t][v]) \in Ages
    BY OlderAges DEF ProxyInv, IconTypeOK
  <2>2. 0 \in Ages
    BY Basics
  <2> QED BY <1>1, <2>1, <2>2
<1>3. \A t \in Tokens, v \in Answers :
          since'[t][v] = 0 \/ since'[t][v] = Older(since[t][v])
  BY <1>1
<1>4. ASSUME NEW t \in Tokens
      PROVE  /\ cache'[t] \in Kept \cup {NotKept}
             /\ cache'[t] # NotKept => since'[t][cache'[t].icon] <= cache'[t].age
  <2>1. CASE cache[t] = NotKept
    <3>1. Older(HitTTL) = HitTTL
      BY ProxyAssumption DEF ProxyAssumption, Older
    <3> QED BY <1>1, <2>1, <3>1 DEF NotKept
  <2>2. CASE cache[t] # NotKept
    <3>1. cache[t] \in Kept /\ since[t][cache[t].icon] <= cache[t].age
      BY <2>2 DEF ProxyInv, IconTypeOK, NothingBackdated
    <3>2. /\ cache[t].icon \in Answers /\ cache[t].age \in Ages
          /\ since[t][cache[t].icon] \in Ages
      BY <3>1 DEF Kept, ProxyInv, IconTypeOK
    <3>3. Older(cache[t].age) \in Ages /\ Older(since[t][cache[t].icon]) <= Older(cache[t].age)
      BY <3>1, <3>2, OlderAges
    <3>4. /\ cache'[t] \in Kept /\ cache'[t].icon = cache[t].icon
          /\ cache'[t].age = Older(cache[t].age)
      BY <1>1, <3>1, <3>3 DEF Kept
    <3>5. Older(cache[t].age) \in Nat
      BY <3>3, Basics
    <3> QED BY <1>3, <3>2, <3>3, <3>4, <3>5
  <2> QED BY <2>1, <2>2
<1>5. ASSUME NEW r \in Requests
      PROVE  /\ fetch'[r] \in Fetches /\ fetch'[r].token = fetch[r].token
             /\ fetch'[r].answer = fetch[r].answer
             /\ fetch[r].token # Nothing => fetch'[r].age = Older(fetch[r].age)
  <2>1. fetch[r] \in Fetches /\ Older(fetch[r].age) \in Ages
    BY OlderAges DEF ProxyInv, IconTypeOK, Fetches
  <2> QED BY <1>1, <2>1 DEF Fetches
<1>6. IconTypeOK'
  <2>1. cache' \in [Tokens -> Kept \cup {NotKept}]
    BY <1>1, <1>4
  <2>2. fetch' \in [Requests -> Fetches]
    BY <1>1, <1>5
  <2> QED BY <1>1, <1>2, <2>1, <2>2 DEF ProxyInv, IconTypeOK
<1>7. SourceCurrent' /\ SourceAllowed'
  BY <1>1, <1>5 DEF ProxyInv, IconTypeOK, SourceCurrent, SourceAllowed
<1>8. ASSUME NEW r \in Requests, fetch[r].token # Nothing, fetch[r].answer # Unanswered
      PROVE  since'[fetch[r].token][fetch[r].answer] <= Older(fetch[r].age)
  <2>1. /\ fetch[r].token \in Tokens /\ fetch[r].answer \in Answers /\ fetch[r].age \in Ages
        /\ since[fetch[r].token][fetch[r].answer] <= fetch[r].age
    BY <1>8 DEF ProxyInv, IconTypeOK, Fetches, NothingBackdated
  <2>2. since[fetch[r].token][fetch[r].answer] \in Ages
    BY <2>1 DEF ProxyInv, IconTypeOK
  <2>3. Older(fetch[r].age) \in Nat
        /\ Older(since[fetch[r].token][fetch[r].answer]) <= Older(fetch[r].age)
    BY <2>1, <2>2, OlderAges, Basics
  <2> QED BY <1>3, <2>1, <2>3
<1>9. NothingBackdated'
  BY <1>1, <1>4, <1>5, <1>8 DEF ProxyInv, NothingBackdated
<1> QED BY <1>6, <1>7, <1>9 DEF ProxyInv

LEMMA ProxyInvariant == ProxySpec => []ProxyInv
<1>1. ProxyInit => ProxyInv
  BY ProxyStart
<1>2. ProxyInv /\ [ProxyNext]_proxyVars => ProxyInv'
  <2> SUFFICES ASSUME ProxyInv, [ProxyNext]_proxyVars PROVE ProxyInv'
    OBVIOUS
  <2>1. CASE UNCHANGED proxyVars
    BY <2>1 DEF proxyVars, ProxyInv, IconTypeOK, SourceCurrent, SourceAllowed, NothingBackdated
  <2>2. CASE ProxyNext
    BY <2>2, QuietStep, AskStep, FetchedStep, FailsStep, ChangeStep, EndsStep, TickStep
    DEF ProxyNext
  <2> QED BY <2>1, <2>2
<1> QED BY <1>1, <1>2, PTL DEF ProxySpec

\* Of all that is kept or on its way, the source gave it no longer ago than the time
\* it is filed under: GETs that overlap each keep what they fetched under the time
\* they began (async_icon).
THEOREM NeverBackdated == ProxySpec => []NothingBackdated
<1>1. ProxyInv => NothingBackdated
  BY DEF ProxyInv
<1> QED BY <1>1, ProxyInvariant, PTL

-------------------------------------------------------------------------------
\* The proxy's steps that a browser sees nothing of, or whose response it gets at once.
LEMMA AtOnceImplements ==
    ASSUME ProxyInv,
           ReloadProxy \/ \E t \in Tokens : PublishIcon(t) \/ GetAtOnce(t)
    PROVE  Browser!PromiseNext
<1>1. CASE ReloadProxy
  <2>1. pending' = pending
    BY <1>1 DEF ReloadProxy, pending, ProxyInv, IconTypeOK, Fetches
  <2> QED BY <1>1, <2>1 DEF ReloadProxy, Browser!PromiseNext, Browser!Forget
<1>2. ASSUME NEW t \in Tokens, PublishIcon(t) PROVE Browser!PromiseNext
  BY <1>2 DEF PublishIcon, pending, Browser!PromiseNext, Browser!Publish
<1>3. ASSUME NEW t \in Tokens, GetAtOnce(t) PROVE Browser!PromiseNext
  <2> DEFINE v == IF t \in published THEN cache[t].icon ELSE Missing
  <2>1. v \in Answers /\ IF t \in published THEN v \in Browser!Recent(t) ELSE v = Missing
    <3>1. CASE t \notin published
      BY <3>1, Basics
    <3>2. CASE t \in published
      <4>1. cache[t].icon # Nothing /\ cache[t].age < TTL(cache[t].icon)
        BY <1>3, <3>2 DEF GetAtOnce, Holds
      <4>2. cache[t] \in Kept /\ since[t][cache[t].icon] <= cache[t].age
        BY <4>1 DEF NotKept, ProxyInv, IconTypeOK, NothingBackdated
      <4>3. cache[t].icon \in Answers /\ cache[t].age \in Nat /\ TTL(cache[t].icon) \in Nat
            /\ since[t][cache[t].icon] \in Nat
        BY <4>2, Basics DEF Kept, ProxyInv, IconTypeOK
      <4>4. since[t][cache[t].icon] < TTL(cache[t].icon)
        BY <4>1, <4>2, <4>3
      <4> QED BY <3>2, <4>3, <4>4 DEF Browser!Recent, Answers, TTL
    <3> QED BY <3>1, <3>2
  <2>2. /\ reply' = Browser!Response(t, v)
        /\ UNCHANGED <<published, source, since, pending, allowed>>
    BY <1>3 DEF GetAtOnce, pending
  <2>3. Browser!ServeAtOnce(t)
    BY <2>1, <2>2 DEF Browser!ServeAtOnce, Answers
  <2> QED BY <2>3 DEF Browser!PromiseNext
<1> QED BY <1>1, <1>2, <1>3

\* A GET that waits, from its question to its response.
LEMMA WaitImplements ==
    ASSUME ProxyInv, NEW r \in Requests,
           Fetched(r) \/ FetchFails(r) \/ GetEnds(r) \/ \E t \in Tokens : GetStarts(r, t)
    PROVE  Browser!PromiseNext
<1>1. ASSUME NEW t \in Tokens, GetStarts(r, t) PROVE Browser!PromiseNext
  <2>1. pending[r] = Nothing /\ pending' = [pending EXCEPT ![r] = t]
    BY <1>1 DEF GetStarts, pending, ProxyInv, IconTypeOK
  <2>2. Browser!Ask(r, t)
    BY <1>1, <2>1 DEF GetStarts, Browser!Ask
  <2> QED BY <2>2 DEF Browser!PromiseNext
<1>2. CASE Fetched(r)
  <2>1. pending' = pending
    BY <1>2 DEF Fetched, pending, ProxyInv, IconTypeOK, Fetches
  <2> QED BY <1>2, <2>1 DEF Fetched, Browser!PromiseNext, Browser!Quiet
<1>3. CASE FetchFails(r)
  <2>1. pending' = pending
    BY <1>3 DEF FetchFails, pending, ProxyInv, IconTypeOK, Fetches
  <2>2. fetch[r].token \in Tokens
    BY <1>3 DEF FetchFails, ProxyInv, IconTypeOK, Fetches
  <2>3. Browser!Hiccup(fetch[r].token)
    BY <1>3, <2>1 DEF FetchFails, Browser!Hiccup
  <2> QED BY <2>2, <2>3 DEF Browser!PromiseNext
<1>4. CASE GetEnds(r)
  <2>1. pending[r] = fetch[r].token /\ pending' = [pending EXCEPT ![r] = Nothing]
    BY <1>4 DEF GetEnds, pending, Idle, ProxyInv, IconTypeOK
  <2>2. fetch[r].answer \in allowed[r]
    BY <1>4 DEF GetEnds, ProxyInv, NothingBackdated
  <2>3. Browser!Serve(r)
    BY <1>4, <2>1, <2>2 DEF GetEnds, Browser!Serve
  <2> QED BY <2>3 DEF Browser!PromiseNext
<1> QED BY <1>1, <1>2, <1>3, <1>4

\* What happens at the source, and the clock.
LEMMA WorldImplements ==
    ASSUME ProxyInv, ProxyTick \/ \E t \in Tokens, v \in Answers : SourceChanges(t, v)
    PROVE  Browser!PromiseNext
<1>1. ASSUME NEW t \in Tokens, NEW v \in Answers, SourceChanges(t, v) PROVE Browser!PromiseNext
  <2>1. Browser!Change(t, v)
    BY <1>1 DEF SourceChanges, pending, Browser!Change
  <2> QED BY <2>1 DEF Browser!PromiseNext, Answers
<1>2. CASE ProxyTick
  <2>1. pending' = pending
    BY <1>2 DEF ProxyTick, pending, ProxyInv, IconTypeOK, Fetches
  <2>2. Browser!Tick
    BY <1>2, <2>1 DEF ProxyTick, Browser!Tick, Answers, Older
  <2> QED BY <2>2 DEF Browser!PromiseNext
<1> QED BY <1>1, <1>2

\* Whatever GETs overlap, sources change or fail, the clock passes and the entry is
\* loaded anew, the proxy's responses are those that FreshIcons promises.
THEOREM ProxyImplementsPromise == ProxySpec => ServesFreshIcons
<1>1. ProxyInit => Browser!PromiseInit
  BY Basics DEF ProxyInit, Browser!PromiseInit, pending, Idle, Answers
<1>2. ProxyInv /\ [ProxyNext]_proxyVars => [Browser!PromiseNext]_Browser!promised
  <2> SUFFICES ASSUME ProxyInv, [ProxyNext]_proxyVars
               PROVE  [Browser!PromiseNext]_Browser!promised
    OBVIOUS
  <2>1. CASE UNCHANGED proxyVars
    BY <2>1 DEF proxyVars, Browser!promised, pending
  <2>2. CASE ProxyNext
    BY <2>2, AtOnceImplements, WaitImplements, WorldImplements DEF ProxyNext
  <2> QED BY <2>1, <2>2
<1> QED BY <1>1, <1>2, ProxyInvariant, PTL DEF ProxySpec, ServesFreshIcons, Browser!Promise
-------------------------------------------------------------------------------
\* The cache and the order of its insertions: what CacheBounded needs to be inductive.
OrderInv == ProxyInv /\ order \in Seq(Tokens) /\ CacheBounded

Filed(s) == {s[i] : i \in DOMAIN s}
Once(s) == \A i, j \in DOMAIN s : s[i] = s[j] => i = j

\* What leaves the order leaves it entirely, and nothing else does.
LEMMA WithoutOne ==
    ASSUME order \in Seq(Tokens), Once(order), NEW t \in Tokens
    PROVE  /\ Without(t) \in Seq(Tokens) /\ Len(Without(t)) <= Len(order)
           /\ Once(Without(t)) /\ Filed(Without(t)) = Filed(order) \ {t}
<1>1. /\ Len(order) \in Nat /\ DOMAIN order = 1..Len(order)
      /\ \A i \in 1..Len(order) : order[i] \in Tokens
  BY LenProperties, ElementOfSeq
<1>2. CASE \A i \in DOMAIN order : order[i] # t
  <2>1. Without(t) = order /\ t \notin Filed(order)
    BY <1>2 DEF Without, Filed
  <2> QED BY <1>1, <2>1
<1>3. CASE ~ \A i \in DOMAIN order : order[i] # t
  <2> DEFINE at == CHOOSE i \in DOMAIN order : order[i] = t
             n == Len(order) - 1
             e(i) == IF i < at THEN order[i] ELSE order[i + 1]
             left == [i \in 1..n |-> e(i)]
  <2>1. at \in 1..Len(order) /\ order[at] = t
    BY <1>1, <1>3
  <2>2. Without(t) = left
    BY <1>3 DEF Without
  <2> HIDE DEF at
  <2>3. n \in Nat /\ \A i \in 1..n : e(i) \in Tokens
    BY <1>1, <2>1
  <2>4. left \in Seq(Tokens) /\ Len(left) = n /\ DOMAIN left = 1..n
    <3> HIDE DEF n, e
    <3>1. left \in Seq(Tokens)
      BY <2>3, IsASeq
    <3>2. DOMAIN left = 1..Len(left) /\ Len(left) \in Nat /\ DOMAIN left = 1..n
      BY <3>1, LenProperties
    <3> QED BY <2>3, <3>1, <3>2
  <2>5. Once(left)
    <3> SUFFICES ASSUME NEW i \in 1..n, NEW j \in 1..n, e(i) = e(j) PROVE i = j
      BY <2>4 DEF Once
    <3>1. \A a, b \in 1..Len(order) : order[a] = order[b] => a = b
      BY <1>1 DEF Once
    <3> QED BY <1>1, <2>1, <3>1
  <2>6. Filed(left) = Filed(order) \ {t}
    <3>1. ASSUME NEW i \in 1..n PROVE e(i) \in Filed(order) \ {t}
      <4>1. \A a \in 1..Len(order) : order[a] = t => a = at
        BY <1>1, <2>1 DEF Once
      <4> QED BY <1>1, <2>1, <4>1 DEF Filed
    <3>2. ASSUME NEW u \in Filed(order) \ {t} PROVE \E i \in 1..n : e(i) = u
      <4>1. PICK a \in 1..Len(order) : order[a] = u
        BY <1>1 DEF Filed
      <4>2. CASE a < at
        BY <1>1, <2>1, <4>1, <4>2
      <4>3. CASE ~(a < at)
        <5>1. a # at
          BY <2>1, <4>1
        <5>2. a - 1 \in 1..n /\ ~(a - 1 < at) /\ (a - 1) + 1 = a
          BY <1>1, <2>1, <4>3, <5>1
        <5> QED BY <4>1, <5>2
      <4> QED BY <4>2, <4>3
    <3> HIDE DEF e, n
    <3> QED BY <2>4, <3>1, <3>2 DEF Filed
  <2> HIDE DEF left
  <2>7. Len(left) <= Len(order)
    BY <1>1, <2>4
  <2> QED BY <2>2, <2>4, <2>5, <2>6, <2>7
<1> QED BY <1>2, <1>3

\* The insertion at the end, and the eviction of the first if that is one too many.
LEMMA ReorderedBounded ==
    ASSUME order \in Seq(Tokens), Once(order), Len(order) <= MaxCached, NEW t \in Tokens
    PROVE  /\ Reordered(t) \in Seq(Tokens) /\ Len(Reordered(t)) <= MaxCached
           /\ Once(Reordered(t)) /\ Filed(Reordered(t)) \subseteq Filed(order) \cup {t}
<1> DEFINE rest == Without(t)
           last == Append(rest, t)
<1>1. /\ rest \in Seq(Tokens) /\ Len(rest) <= Len(order) /\ Once(rest)
      /\ Filed(rest) = Filed(order) \ {t}
  BY WithoutOne
<1>2. MaxCached \in Nat /\ Len(order) \in Nat /\ Len(rest) \in Nat /\ DOMAIN rest = 1..Len(rest)
  BY <1>1, LenProperties, ProxyAssumption DEF ProxyAssumption
<1>3. Reordered(t) = IF Len(last) > MaxCached THEN Tail(last) ELSE last
  BY DEF Reordered
<1> HIDE DEF rest
<1>4. /\ last \in Seq(Tokens) /\ last # <<>> /\ Len(last) = Len(rest) + 1
      /\ \A i \in 1..Len(rest) : last[i] = rest[i]
      /\ last[Len(rest) + 1] = t
  BY <1>1, AppendProperties
<1> HIDE DEF last
<1>5. DOMAIN last = 1..(Len(rest) + 1)
  BY <1>4, LenProperties
<1>6. Once(last) /\ Filed(last) \subseteq Filed(order) \cup {t}
  <2>1. \A i \in 1..Len(rest) : last[i] \in Filed(order) \ {t}
    BY <1>1, <1>2, <1>4 DEF Filed
  <2>2. \A i \in 1..(Len(rest) + 1) : i \in 1..Len(rest) \/ i = Len(rest) + 1
    BY <1>2
  <2>3. Once(last)
    BY <1>1, <1>2, <1>4, <1>5, <2>1, <2>2 DEF Once
  <2>4. Filed(last) \subseteq Filed(order) \cup {t}
    BY <1>4, <1>5, <2>1, <2>2 DEF Filed
  <2> QED BY <2>3, <2>4
<1>7. CASE Len(last) > MaxCached
  <2>1. /\ Tail(last) \in Seq(Tokens) /\ Len(Tail(last)) = Len(rest)
        /\ \A i \in 1..Len(Tail(last)) : Tail(last)[i] = last[i + 1]
    BY <1>2, <1>4, HeadTailProperties
  <2>2. DOMAIN Tail(last) = 1..Len(rest)
    BY <2>1, LenProperties
  <2>3. \A i \in 1..Len(rest) : i + 1 \in DOMAIN last /\ Tail(last)[i] = last[i + 1]
    BY <1>2, <1>5, <2>1
  <2>4. Once(Tail(last))
    BY <1>2, <1>6, <2>2, <2>3 DEF Once
  <2>5. Filed(Tail(last)) \subseteq Filed(last)
    BY <2>2, <2>3 DEF Filed
  <2>6. Len(Tail(last)) <= MaxCached
    BY <1>1, <1>2, <2>1
  <2> QED BY <1>3, <1>6, <1>7, <2>1, <2>4, <2>5, <2>6
<1>8. CASE ~(Len(last) > MaxCached)
  BY <1>2, <1>3, <1>4, <1>6, <1>8
<1> QED BY <1>7, <1>8

\* What is in the order is what is kept, in the names of the lemmas above.
LEMMA OrderRestated ==
    CacheBounded <=> /\ Len(order) <= MaxCached /\ Once(order)
                     /\ {t \in Tokens : cache[t] # NotKept} = Filed(order)
BY DEF CacheBounded, Once, Filed

\* The end of a fetch is the only step that inserts and evicts.
LEMMA EndsBounded ==
    ASSUME OrderInv, NEW r \in Requests, GetEnds(r)
    PROVE  order' \in Seq(Tokens) /\ CacheBounded'
<1> DEFINE f == fetch[r]
<1>1. CASE ~f.mine
  BY <1>1 DEF GetEnds, OrderInv, CacheBounded
<1>2. CASE f.mine
  <2>1. f.token \in Tokens /\ f.answer \in Answers
    BY DEF GetEnds, OrderInv, ProxyInv, IconTypeOK, Fetches
  <2>2. /\ order' = Reordered(f.token)
        /\ cache' = [t \in Tokens |->
                        IF \A i \in DOMAIN order' : order'[i] # t THEN NotKept
                        ELSE IF t = f.token THEN Keeps(f) ELSE cache[t]]
    BY <1>2 DEF GetEnds
  <2>3. /\ order \in Seq(Tokens) /\ Len(order) <= MaxCached /\ Once(order)
        /\ {t \in Tokens : cache[t] # NotKept} = Filed(order)
    BY OrderRestated DEF OrderInv
  <2>4. /\ order' \in Seq(Tokens) /\ Len(order') <= MaxCached
        /\ Once(order') /\ Filed(order') \subseteq Filed(order) \cup {f.token}
    BY <2>1, <2>2, <2>3, ReorderedBounded
  <2>5. Keeps(f) # NotKept
    BY <2>1, Basics DEF Keeps, NotKept
  <2>6. Filed(order') \subseteq Tokens
    BY <2>4, LenProperties, ElementOfSeq DEF Filed
  <2>7. ASSUME NEW t \in Tokens PROVE cache'[t] # NotKept <=> t \in Filed(order')
    <3>1. CASE t \notin Filed(order')
      <4>1. \A i \in DOMAIN order' : order'[i] # t
        BY <3>1 DEF Filed
      <4> QED BY <2>2, <3>1, <4>1
    <3>2. CASE t \in Filed(order')
      <4>1. ~ \A i \in DOMAIN order' : order'[i] # t
        BY <3>2 DEF Filed
      <4>2. cache'[t] = IF t = f.token THEN Keeps(f) ELSE cache[t]
        BY <2>2, <4>1
      <4>3. t = f.token \/ cache[t] # NotKept
        BY <2>3, <2>4, <3>2
      <4> QED BY <2>5, <3>2, <4>2, <4>3
    <3> QED BY <3>1, <3>2
  <2>8. {t \in Tokens : cache'[t] # NotKept} = Filed(order')
    BY <2>6, <2>7
  <2> QED BY <2>4, <2>8 DEF CacheBounded, Once, Filed
<1> QED BY <1>1, <1>2

\* The other steps insert and evict nothing, or everything.
LEMMA OthersBounded ==
    ASSUME OrderInv,
           \/ \E t \in Tokens : PublishIcon(t) \/ GetAtOnce(t)
           \/ \E r \in Requests : Fetched(r) \/ FetchFails(r) \/ \E t \in Tokens : GetStarts(r, t)
           \/ \E t \in Tokens, v \in Answers : SourceChanges(t, v)
           \/ ReloadProxy \/ ProxyTick \/ UNCHANGED proxyVars
    PROVE  order' \in Seq(Tokens) /\ CacheBounded'
<1>1. CASE ReloadProxy
  <2>1. order' = <<>> /\ \A t \in Tokens : cache'[t] = NotKept
    BY <1>1 DEF ReloadProxy
  <2>2. order' \in Seq(Tokens) /\ Len(order') = 0
    BY <2>1, EmptySeq
  <2>3. DOMAIN order' = {}
    BY <2>2, LenProperties
  <2> QED BY <2>1, <2>2, <2>3, ProxyAssumption DEF CacheBounded, ProxyAssumption
<1>2. CASE ProxyTick
  <2>1. order' = order /\ cache' = [t \in Tokens |-> [cache[t] EXCEPT !.age = Older(@)]]
    BY <1>2 DEF ProxyTick
  <2>2. ASSUME NEW t \in Tokens PROVE cache'[t] # NotKept <=> cache[t] # NotKept
    <3>1. CASE cache[t] = NotKept
      <4>1. Older(HitTTL) = HitTTL
        BY ProxyAssumption DEF ProxyAssumption, Older
      <4> QED BY <2>1, <3>1, <4>1 DEF NotKept
    <3>2. CASE cache[t] # NotKept
      <4>1. cache[t] \in Kept
        BY <3>2 DEF OrderInv, ProxyInv, IconTypeOK
      <4>2. cache'[t].icon = cache[t].icon /\ cache[t].icon \in Answers
        BY <2>1, <4>1 DEF Kept
      <4> QED BY <3>2, <4>2, Basics DEF NotKept
    <3> QED BY <3>1, <3>2
  <2>3. {t \in Tokens : cache'[t] # NotKept} = {t \in Tokens : cache[t] # NotKept}
    BY <2>2
  <2> QED BY <2>1, <2>3 DEF OrderInv, CacheBounded
<1>3. ASSUME order' = order, cache' = cache PROVE order' \in Seq(Tokens) /\ CacheBounded'
  BY <1>3 DEF OrderInv, CacheBounded
<1>4. CASE \/ \E t \in Tokens : PublishIcon(t) \/ GetAtOnce(t)
           \/ \E r \in Requests : Fetched(r) \/ FetchFails(r) \/ \E t \in Tokens : GetStarts(r, t)
           \/ \E t \in Tokens, v \in Answers : SourceChanges(t, v)
           \/ UNCHANGED proxyVars
  <2>1. order' = order /\ cache' = cache
    BY <1>4 DEF PublishIcon, GetAtOnce, Fetched, FetchFails, GetStarts, SourceChanges, proxyVars
  <2> QED BY <1>3, <2>1
<1> QED BY <1>1, <1>2, <1>4

\* The cache never holds more than it may, and the order that evictions go by names
\* each token that is kept once and no other: an entry that is not in the order could
\* not be evicted (async_icon, whose fetches of one icon overlap).
THEOREM CacheAlwaysBounded == ProxySpec => []CacheBounded
<1>1. ProxyInit => OrderInv
  <2> SUFFICES ASSUME ProxyInit PROVE OrderInv
    OBVIOUS
  <2>1. order = <<>> /\ \A t \in Tokens : cache[t] = NotKept
    BY DEF ProxyInit
  <2>2. order \in Seq(Tokens) /\ Len(order) = 0
    BY <2>1, EmptySeq
  <2>3. DOMAIN order = {}
    BY <2>2, LenProperties
  <2> QED BY <2>1, <2>2, <2>3, ProxyStart, ProxyAssumption
       DEF OrderInv, CacheBounded, ProxyAssumption
<1>2. OrderInv /\ ProxyInv' /\ [ProxyNext]_proxyVars => OrderInv'
  BY EndsBounded, OthersBounded DEF ProxyNext, OrderInv
<1>3. OrderInv => CacheBounded
  BY DEF OrderInv
<1> QED BY <1>1, <1>2, <1>3, ProxyInvariant, PTL DEF ProxySpec
===============================================================================
