------------------------------- MODULE IconProxy -------------------------------
(***************************************************************************)
(* MOSIconProxy and its view (icon_proxy.py): browsers GET the artwork of  *)
(* an entry, and the proxy fetches it from the source and keeps it.        *)
(*                                                                         *)
(* A GET that finds nothing fresh enough fetches for itself, so several    *)
(* fetches of one icon may be under way, each with the time it began. An   *)
(* icon stands for its bytes and thus for its etag: a browser answered 304 *)
(* has the icon that the response would have carried.                      *)
(***************************************************************************)
EXTENDS Naturals, Sequences

CONSTANTS Tokens, Requests, Icons, Missing, Nothing, HitTTL, MissTTL,
    MaxCached,   \* ICON_PROXY_MAX_CACHED
    Unanswered   \* a fetch the source has not answered yet

ASSUME ProxyAssumption ==
    /\ Missing \notin Icons /\ Unanswered \notin Icons \cup {Missing}
    /\ Nothing \notin Tokens \cup Icons \cup {Missing}
    /\ HitTTL \in Nat /\ MissTTL \in Nat /\ MaxCached \in Nat
    /\ 0 < MissTTL /\ MissTTL <= HitTTL

VARIABLES
    published,   \* _sources
    cache,       \* _cache, and for each token the age of its entry
    order,       \* the tokens of _cache, oldest insertion first
    fetch,       \* per GET: what it fetches, since when, and the answer
    source, since, allowed, reply    \* as in FreshIcons

proxyVars == <<published, cache, order, fetch, source, since, allowed, reply>>

pending == [r \in Requests |-> fetch[r].token]

Browser == INSTANCE FreshIcons WITH pending <- pending

Answers == Browser!Answers
TTL(v) == Browser!TTL(v)
Ages == 0..HitTTL
Older(age) == IF age < HitTTL THEN age + 1 ELSE HitTTL

NotKept == [icon |-> Nothing, age |-> HitTTL]
Idle == [token |-> Nothing, age |-> 0, answer |-> Unanswered, mine |-> FALSE]

ProxyInit ==
    /\ published = {} /\ order = <<>>
    /\ cache = [t \in Tokens |-> NotKept]
    /\ fetch = [r \in Requests |-> Idle]
    /\ source = [t \in Tokens |-> Missing]
    /\ since = [t \in Tokens |-> [v \in Answers |-> IF v = Missing THEN 0 ELSE HitTTL]]
    /\ allowed = [r \in Requests |-> {}]
    /\ reply = Nothing

\* async_url, from the entity_picture of an entity.
PublishIcon(t) ==
    /\ published' = published \cup {t}
    /\ reply' = Nothing
    /\ UNCHANGED <<cache, order, fetch, source, since, allowed>>

\* The entry is unloaded, or loaded again: the next proxy starts empty, and what
\* is still being fetched for the last one is answered but no longer kept.
ReloadProxy ==
    /\ published' = {} /\ order' = <<>>
    /\ cache' = [t \in Tokens |-> NotKept]
    /\ fetch' = [r \in Requests |-> [fetch[r] EXCEPT !.mine = FALSE]]
    /\ reply' = Nothing
    /\ UNCHANGED <<source, since, allowed>>

\* Mutant: artwork and its absence are kept equally long.
HoldsAlways(t) == cache[t].icon # Nothing /\ cache[t].age < HitTTL

\* The cache has an answer for t that is still good.
Holds(t) == cache[t].icon # Nothing /\ cache[t].age < TTL(cache[t].icon)

\* get and async_icon, when they answer without a fetch.
GetAtOnce(t) ==
    /\ t \notin published \/ Holds(t)
    /\ reply' = Browser!Response(t, IF t \in published THEN cache[t].icon ELSE Missing)
    /\ UNCHANGED <<published, cache, order, fetch, source, since, allowed>>

\* async_icon up to the fetch, which takes its time before it.
GetStarts(r, t) ==
    /\ fetch[r].token = Nothing
    /\ t \in published /\ ~Holds(t)
    /\ fetch' = [fetch EXCEPT ![r] =
                    [token |-> t, age |-> 0, answer |-> Unanswered, mine |-> TRUE]]
    /\ allowed' = [allowed EXCEPT ![r] = Browser!Recent(t)]
    /\ reply' = Nothing
    /\ UNCHANGED <<published, cache, order, source, since>>

\* _async_fetch: the source sends what it has.
Fetched(r) ==
    /\ fetch[r].token # Nothing /\ fetch[r].answer = Unanswered
    /\ fetch' = [fetch EXCEPT ![r].answer = source[fetch[r].token]]
    /\ reply' = Nothing
    /\ UNCHANGED <<published, cache, order, source, since, allowed>>

\* _async_fetch: a timeout, an error, a redirect, no image, or too large a one.
FetchFails(r) ==
    /\ fetch[r].token # Nothing /\ fetch[r].answer = Unanswered
    /\ fetch' = [fetch EXCEPT ![r].answer = Missing]
    /\ Browser!Given(fetch[r].token, Missing)
    /\ reply' = Nothing
    /\ UNCHANGED <<published, cache, order, source>>

\* Mutant: the entry is as old as the end of its fetch.
KeepsFromEnd(f) == [icon |-> f.answer, age |-> 0]

\* The entry is as old as the start of its fetch.
Keeps(f) == [icon |-> f.answer, age |-> f.age]

\* The order without t, which has it once at most.
Without(t) ==
    IF \A i \in DOMAIN order : order[i] # t THEN order
    ELSE LET at == CHOOSE i \in DOMAIN order : order[i] = t
         IN  [i \in 1..(Len(order) - 1) |-> IF i < at THEN order[i] ELSE order[i + 1]]

\* Mutant: the one too many is looked for before the insertion.
ReorderedLate(t) ==
    Append(IF Len(order) > MaxCached THEN Tail(Without(t)) ELSE Without(t), t)

\* The token goes to the end of the order, and the first one goes if it is one
\* too many (async_icon's loop runs once at most, as one was inserted).
Reordered(t) ==
    LET last == Append(Without(t), t)
    IN  IF Len(last) > MaxCached THEN Tail(last) ELSE last

\* async_icon after the fetch, and the response of get.
GetEnds(r) ==
    LET f == fetch[r] IN
    /\ f.token # Nothing /\ f.answer # Unanswered
    /\ reply' = Browser!Response(f.token, f.answer)
    /\ fetch' = [fetch EXCEPT ![r] = Idle]
    /\ allowed' = [allowed EXCEPT ![r] = {}]
    /\ IF f.mine
       THEN /\ order' = Reordered(f.token)
            /\ cache' = [t \in Tokens |->
                            IF \A i \in DOMAIN order' : order'[i] # t THEN NotKept
                            ELSE IF t = f.token THEN Keeps(f) ELSE cache[t]]
       ELSE UNCHANGED <<order, cache>>
    /\ UNCHANGED <<published, source, since>>

\* The artwork at the source is added, replaced or taken away.
SourceChanges(t, v) ==
    /\ v # source[t]
    /\ source' = [source EXCEPT ![t] = v]
    /\ Browser!Given(t, v)
    /\ reply' = Nothing
    /\ UNCHANGED <<published, cache, order, fetch>>

\* time.monotonic moves on. What is older than HitTTL is of no more use.
ProxyTick ==
    /\ cache' = [t \in Tokens |-> [cache[t] EXCEPT !.age = Older(@)]]
    /\ fetch' = [r \in Requests |->
                    IF fetch[r].token = Nothing THEN fetch[r]
                    ELSE [fetch[r] EXCEPT !.age = Older(@)]]
    /\ since' = [t \in Tokens |-> [v \in Answers |->
                    IF v = source[t] THEN 0 ELSE Older(since[t][v])]]
    /\ reply' = Nothing
    /\ UNCHANGED <<published, order, source, allowed>>

ProxyNext ==
    \/ \E t \in Tokens : PublishIcon(t) \/ GetAtOnce(t)
    \/ \E r \in Requests, t \in Tokens : GetStarts(r, t)
    \/ \E r \in Requests : Fetched(r) \/ FetchFails(r) \/ GetEnds(r)
    \/ \E t \in Tokens, v \in Answers : SourceChanges(t, v)
    \/ ReloadProxy
    \/ ProxyTick

ProxySpec == ProxyInit /\ [][ProxyNext]_proxyVars

-------------------------------------------------------------------------------
\* The cache never holds more than it may, and what it holds it can find and evict: an
\* icon that is fetched again moves to the end of the order and is there once (async_icon).
CacheBounded ==
    /\ Len(order) <= MaxCached
    /\ \A i, j \in DOMAIN order : order[i] = order[j] => i = j
    /\ {t \in Tokens : cache[t] # NotKept} = {order[i] : i \in DOMAIN order}

\* What is kept, and what is on its way, is something its source gave no longer
\* ago than the time it is filed under, however the fetches overlap.
NothingBackdated ==
    /\ \A t \in Tokens : cache[t] # NotKept => since[t][cache[t].icon] <= cache[t].age
    /\ \A r \in Requests :
          LET f == fetch[r] IN
          (f.token # Nothing /\ f.answer # Unanswered) =>
              f.answer \in allowed[r] /\ since[f.token][f.answer] <= f.age

\* The proxy keeps its promise to browsers: no GET is answered with artwork that
\* had been replaced, or an absence that had ended, a time to live before it
\* asked (async_icon, whose entries are stamped before the fetch).
ServesFreshIcons == Browser!Promise
===============================================================================
