------------------------------ MODULE FreshIcons ------------------------------
(***************************************************************************)
(* What the icon proxy promises a browser, without saying how: every       *)
(* answer it gives is one the source itself gave less than that answer's   *)
(* time to live before the browser asked, or while the browser waited.     *)
(* Nothing is said of which, so an answer may be older than the last one.  *)
(* IconProxy implements this.                                              *)
(***************************************************************************)
EXTENDS Naturals

CONSTANTS
    Tokens,      \* path segments, one per icon source
    Requests,    \* GETs that can be under way at a time
    Icons,       \* artwork, told apart by its bytes
    Missing,     \* what a source without an icon answers
    Nothing,     \* no token
    HitTTL,      \* ICON_PROXY_HIT_TTL_SECONDS
    MissTTL      \* ICON_PROXY_MISS_TTL_SECONDS

VARIABLES
    published,   \* tokens that stand for a picture of the loaded entry
    source,      \* what each source has to offer
    since,       \* how long ago it last gave each answer, up to HitTTL
    pending,     \* the token each GET under way asks for
    allowed,     \* the answers that GET may be given
    reply        \* the response that leaves in this step, if one does

promised == <<published, source, since, pending, allowed, reply>>

Answers == Icons \cup {Missing}
Response(t, v) == [token |-> t, icon |-> v]

TTL(v) == IF v = Missing THEN MissTTL ELSE HitTTL

\* What the source gave less than a time to live ago.
Recent(t) == {v \in Answers : since[t][v] < TTL(v)}

\* The source of t gives answer v at this moment.
Given(t, v) ==
    /\ since' = [since EXCEPT ![t][v] = 0]
    /\ allowed' = [r \in Requests |->
                      IF pending[r] = t THEN allowed[r] \cup {v} ELSE allowed[r]]

PromiseInit ==
    /\ published = {}
    /\ source \in [Tokens -> Answers]
    /\ since = [t \in Tokens |-> [v \in Answers |-> IF v = source[t] THEN 0 ELSE HitTTL]]
    /\ pending = [r \in Requests |-> Nothing]
    /\ allowed = [r \in Requests |-> {}]
    /\ reply = Nothing

Change(t, v) ==
    /\ source' = [source EXCEPT ![t] = v]
    /\ Given(t, v)
    /\ reply' = Nothing
    /\ UNCHANGED <<published, pending>>

\* A source that is not reached, or not in time, answers that it has none.
Hiccup(t) ==
    /\ Given(t, Missing)
    /\ reply' = Nothing
    /\ UNCHANGED <<published, source, pending>>

Tick ==
    /\ since' = [t \in Tokens |-> [v \in Answers |->
                    IF v = source[t] THEN 0
                    ELSE IF since[t][v] < HitTTL THEN since[t][v] + 1 ELSE HitTTL]]
    /\ reply' = Nothing
    /\ UNCHANGED <<published, source, pending, allowed>>

Ask(r, t) ==
    /\ pending[r] = Nothing
    /\ pending' = [pending EXCEPT ![r] = t]
    /\ allowed' = [allowed EXCEPT ![r] = Recent(t)]
    /\ reply' = Nothing
    /\ UNCHANGED <<published, source, since>>

Serve(r) ==
    /\ pending[r] # Nothing
    /\ \E v \in allowed[r] : reply' = Response(pending[r], v)
    /\ pending' = [pending EXCEPT ![r] = Nothing]
    /\ allowed' = [allowed EXCEPT ![r] = {}]
    /\ UNCHANGED <<published, source, since>>

\* An answer without waiting; a token nobody published has no icon.
ServeAtOnce(t) ==
    /\ \E v \in Answers :
          /\ IF t \in published THEN v \in Recent(t) ELSE v = Missing
          /\ reply' = Response(t, v)
    /\ UNCHANGED <<published, source, since, pending, allowed>>

\* An entity publishes its picture; or the entry is loaded anew and none has yet.
Publish(t) ==
    /\ published' = published \cup {t}
    /\ reply' = Nothing
    /\ UNCHANGED <<source, since, pending, allowed>>

Forget ==
    /\ published' = {}
    /\ reply' = Nothing
    /\ UNCHANGED <<source, since, pending, allowed>>

\* Steps that a browser does not see, but for a response that is over.
Quiet ==
    /\ reply' = Nothing
    /\ UNCHANGED <<published, source, since, pending, allowed>>

PromiseNext ==
    \/ \E t \in Tokens : Hiccup(t) \/ ServeAtOnce(t) \/ Publish(t)
    \/ \E t \in Tokens, v \in Answers : Change(t, v)
    \/ \E r \in Requests, t \in Tokens : Ask(r, t)
    \/ \E r \in Requests : Serve(r)
    \/ Forget
    \/ Tick
    \/ Quiet

Promise == PromiseInit /\ [][PromiseNext]_promised
===============================================================================
