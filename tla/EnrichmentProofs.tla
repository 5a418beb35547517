--------------------------- MODULE EnrichmentProofs ----------------------------
(***************************************************************************)
(* Proofs about what a poll adds to the containers, the stacks and the     *)
(* guests it lists: templates, web links, engine state, CPU figures and    *)
(* icons. The parts share no variable; each has a section, an inductive    *)
(* invariant and theorems of its own.                                      *)
(***************************************************************************)
EXTENDS DockerTemplates, WebLinks, ComposeStacks, DockerStats, GuestIcons,
    FiniteSetTheorems, TLAPS

-------------------------------------------------------------------------------
(***************************************************************************)
(* Templates, for any containers and however often each is made: none is   *)
(* filed under an id it is older than, none is fetched without cause, and  *)
(* after a calm poll all are the server's.                                 *)
(***************************************************************************)

Lists == {Waiting, Failed} \cup SUBSET Names
EngineLists == {Waiting, Failed} \cup [Names -> Ids]
Rows == [Names -> Ids \cup {Absent}]

DockerTypeOK ==
    /\ made \in [Names -> Ids] /\ there \in SUBSET Names
    /\ phase \in {"idle", "asking", "templates"}
    /\ listed \in Lists /\ engine \in EngineLists
    /\ rows \in Rows /\ data \in Rows
    /\ todo \in SUBSET Names /\ todo \subseteq In(rows)
    /\ templates \in [Names -> [id : Ids, version : Ids \cup {Absent}]]
    /\ heard \in [Names -> Ids] /\ news \in SUBSET Names
    /\ calm \in BOOLEAN
    /\ phase # "templates" => todo = {}

\* No id is from the future, wherever it is kept, and no template either.
IdsPast ==
    \A n \in Names :
        /\ rows[n] # Absent => rows[n] <= made[n]
        /\ data[n] # Absent => data[n] <= made[n]
        /\ engine \notin {Waiting, Failed} => engine[n] <= made[n]
        /\ templates[n].version # Absent => templates[n].version <= made[n]
        /\ templates[n].version = Absent => templates[n] = NoTemplate
        /\ n \in there => made[n] > 0

\* The template of a container that is no news is there under the id last heard, and
\* so is the container.
KnownIds ==
    \A n \in Names \ news :
        /\ templates[n].version # Absent /\ templates[n].id = heard[n]
        /\ heard[n] = IF phase = "templates" THEN rows[n] ELSE data[n]

\* While nothing fails or changes, the poll has the server's own state.
CalmPoll ==
    calm =>
        /\ phase = "asking" =>
              /\ listed \in {Waiting, there}
              /\ engine \in {Waiting, [n \in Names |-> IF n \in there THEN made[n] ELSE NoId]}
        /\ phase = "templates" =>
              \A n \in In(rows) :
                  rows[n] = made[n] /\ (n \notin todo => templates[n].version = made[n])
        /\ phase = "idle" => \A n \in In(data) : templates[n].version = made[n]

DockerInv ==
    /\ DockerTypeOK /\ IdsPast /\ TemplateNotOlder /\ NoNeedlessFetch /\ KnownIds /\ CalmPoll

-------------------------------------------------------------------------------
\* What a poll merges is of the right kind and is nothing but what was heard: the
\* engine's id, or the one that the data has.
LEMMA MergedRows ==
    ASSUME DockerTypeOK, listed # Waiting, engine # Waiting
    PROVE  /\ Shown \in SUBSET Names
           /\ Merged \in Rows
           /\ In(Merged) = Shown
           /\ \A n \in Shown : Merged[n] = IF engine # Failed THEN engine[n]
                                           ELSE IF data[n] # Absent THEN data[n] ELSE NoId
<1>1. Shown \in SUBSET Names
  BY DEF DockerTypeOK, Lists, Shown, In
<1>2. NoId \in Ids /\ Absent \notin Ids
  BY DockerAssumption DEF NoId, Ids
<1>3. engine # Failed => engine \in [Names -> Ids]
  BY DEF DockerTypeOK, EngineLists
<1>4. ASSUME NEW n \in Names
      PROVE  /\ n \in Shown => /\ Merged[n] \in Ids
                               /\ Merged[n] = IF engine # Failed THEN engine[n]
                                              ELSE IF data[n] # Absent THEN data[n] ELSE NoId
             /\ n \notin Shown => Merged[n] = Absent
  BY <1>1, <1>2, <1>3 DEF Merged, CarriedId, DockerTypeOK, Rows
<1>5. Merged \in Rows
  <2>1. Merged = [n \in Names |-> Merged[n]]
    BY DEF Merged
  <2> QED BY <1>4, <2>1 DEF Rows
<1> QED BY <1>1, <1>2, <1>4, <1>5 DEF In

LEMMA DockerInitial == DockerInit => DockerInv
<1> SUFFICES ASSUME DockerInit PROVE DockerInv
  OBVIOUS
<1>1. 0 \in Ids /\ Absent \notin Nat /\ Ids \subseteq Nat
  BY DockerAssumption DEF Ids
<1>2. DockerTypeOK
  BY <1>1 DEF DockerInit, DockerTypeOK, Lists, EngineLists, Rows, NoRows, In, NoTemplate, NoId
<1> QED
  BY <1>1, <1>2 DEF DockerInit, DockerInv, IdsPast, TemplateNotOlder, NoNeedlessFetch, KnownIds,
     CalmPoll, NoRows, NoTemplate, NoId, In

\* The two lists are asked for, answer, fail or are forgotten: no row changes.
LEMMA ListStep ==
    ASSUME DockerInv,
           AskLists \/ ListAnswers \/ EngineAnswers \/ ListFails \/ EngineFails \/ PollDies
    PROVE  DockerInv'
<1> DEFINE Now == [n \in Names |-> IF n \in there THEN made[n] ELSE NoId]
<1>0. /\ Absent \notin Nat /\ Waiting # Failed /\ Ids \subseteq Nat /\ NoId \in Ids
      /\ \A list \in SUBSET Names : list \notin {Waiting, Failed}
  BY DockerAssumption DEF Ids, NoId
<1>1. Now \in [Names -> Ids] /\ \A n \in Names : Now[n] <= made[n]
  BY <1>0 DEF DockerInv, DockerTypeOK, NoId, Ids
<1>2. DockerTypeOK'
  BY <1>0, <1>1 DEF DockerInv, DockerTypeOK, Lists, EngineLists, In, AskLists, ListAnswers,
     EngineAnswers, ListFails, EngineFails, PollDies
<1>3. IdsPast'
  BY <1>0, <1>1 DEF DockerInv, IdsPast, AskLists, ListAnswers, EngineAnswers, ListFails,
     EngineFails, PollDies
<1>4. (TemplateNotOlder /\ NoNeedlessFetch)'
  BY DEF DockerInv, TemplateNotOlder, NoNeedlessFetch, AskLists, ListAnswers, EngineAnswers,
     ListFails, EngineFails, PollDies
<1>5. KnownIds'
  BY DEF DockerInv, KnownIds, AskLists, ListAnswers, EngineAnswers, ListFails, EngineFails,
     PollDies
<1>6. CalmPoll'
  BY DEF DockerInv, CalmPoll, AskLists, ListAnswers, EngineAnswers, ListFails, EngineFails,
     PollDies
<1> QED BY <1>2, <1>3, <1>4, <1>5, <1>6 DEF DockerInv

\* The lists are merged, and the cache says what is due.
LEMMA MergeStep == ASSUME DockerInv, MergeLists PROVE DockerInv'
<1>0. /\ Absent \notin Nat /\ Waiting # Failed /\ Ids \subseteq Nat
      /\ NoId \in Ids /\ \A i \in Ids : i >= NoId
      /\ \A list \in SUBSET Names : list \notin {Waiting, Failed}
      /\ \A list \in [Names -> Ids] : list \notin {Waiting, Failed}
  BY DockerAssumption DEF Ids, NoId
<1>1. /\ Shown \in SUBSET Names
      /\ Merged \in Rows
      /\ In(Merged) = Shown
      /\ \A n \in Shown : Merged[n] = IF engine # Failed THEN engine[n]
                                       ELSE IF data[n] # Absent THEN data[n] ELSE NoId
  BY MergedRows DEF MergeLists, DockerInv
<1>2. engine # Failed => engine \in [Names -> Ids]
  BY DEF MergeLists, DockerInv, DockerTypeOK, EngineLists
<1>3. Due(Merged) \in SUBSET Names /\ Due(Merged) \subseteq In(Merged)
  BY <1>1 DEF Due
<1>4. NoTemplate \in [id : Ids, version : Ids \cup {Absent}]
  BY <1>0 DEF NoTemplate
<1>5. DockerTypeOK'
  <2>1. heard' \in [Names -> Ids]
    BY <1>2 DEF MergeLists, DockerInv, DockerTypeOK
  <2>2. templates' \in [Names -> [id : Ids, version : Ids \cup {Absent}]]
    BY <1>4 DEF MergeLists, DockerInv, DockerTypeOK
  <2>3. news' \in SUBSET Names
    BY DEF MergeLists, DockerInv, DockerTypeOK
  <2>4. todo' \subseteq In(rows') /\ todo' \in SUBSET Names
    BY <1>3 DEF MergeLists
  <2> QED BY <1>1, <2>1, <2>2, <2>3, <2>4
          DEF MergeLists, DockerInv, DockerTypeOK, Lists, EngineLists, In
\* What the merge says of a container that is no news afterwards.
<1>6. ASSUME NEW n \in Names \ news'
      PROVE  /\ n \notin news /\ n \in Shown
             /\ heard'[n] = heard[n] /\ Merged[n] = heard[n]
  <2>1. n \notin news /\ heard'[n] = heard[n]
    BY DEF MergeLists
  <2>2. templates[n].id = heard[n] /\ heard[n] = data[n] /\ heard[n] \in Ids
    BY <2>1 DEF DockerInv, KnownIds, DockerTypeOK, MergeLists
  <2>3. n \in Shown
    BY <1>0, <2>2 DEF MergeLists, Shown, In
  <2>4. Merged[n] = heard[n]
    BY <1>0, <1>1, <2>2, <2>3 DEF MergeLists
  <2> QED BY <2>1, <2>3, <2>4
<1>7. IdsPast'
  <2>1. ASSUME NEW n \in Names, Merged[n] # Absent PROVE Merged[n] <= made[n]
    <3>1. n \in Shown
      BY <1>1, <2>1 DEF In
    <3> QED BY <1>0, <1>1, <3>1 DEF MergeLists, DockerInv, DockerTypeOK, IdsPast
  <2>2. \A n \in Names : templates'[n] \in {templates[n], NoTemplate}
    BY DEF MergeLists, DockerInv, DockerTypeOK
  <2> QED BY <1>0, <2>1, <2>2 DEF MergeLists, DockerInv, IdsPast, NoTemplate
<1>8. TemplateNotOlder'
  <2>1. \A n \in Names : templates'[n] \in {templates[n], NoTemplate}
    BY DEF MergeLists, DockerInv, DockerTypeOK
  <2> QED BY <2>1 DEF DockerInv, TemplateNotOlder
<1>9. NoNeedlessFetch'
  <2>1. ASSUME NEW n \in Due(Merged), n \notin news' PROVE FALSE
    <3>1. n \in Names \ news'
      BY <1>3, <2>1
    <3>2. templates[n].id = Merged[n] /\ templates[n].version # Absent
      BY <1>6, <3>1 DEF DockerInv, KnownIds
    <3> QED BY <2>1, <3>2 DEF Due, NoTemplate
  <2> QED BY <2>1 DEF MergeLists, NoNeedlessFetch
<1>10. KnownIds'
  <2>1. ASSUME NEW n \in Names \ news'
        PROVE  templates'[n] = templates[n]
    BY <1>6, <2>1 DEF MergeLists, DockerInv, DockerTypeOK
  <2> QED BY <1>6, <2>1 DEF MergeLists, DockerInv, KnownIds
<1>11. CalmPoll'
  <2> SUFFICES ASSUME calm, NEW n \in In(Merged)
               PROVE  /\ Merged[n] = made[n]
                      /\ n \notin Due(Merged) => templates'[n].version = made[n]
    BY DEF MergeLists, CalmPoll, In
  <2>1. /\ listed = there
        /\ engine = [m \in Names |-> IF m \in there THEN made[m] ELSE NoId]
    BY DEF MergeLists, DockerInv, CalmPoll
  <2>2. engine # Failed /\ engine \in [Names -> Ids]
    <3>1. [m \in Names |-> IF m \in there THEN made[m] ELSE NoId] \in [Names -> Ids]
      BY <1>0 DEF DockerInv, DockerTypeOK
    <3> QED BY <1>0, <2>1, <3>1
  <2>3. n \in there /\ n \in Shown /\ n \in Names
    BY <1>0, <1>1, <2>1 DEF DockerInv, DockerTypeOK, Shown
  <2>4. Merged[n] = made[n]
    BY <1>1, <2>1, <2>2, <2>3
  <2>5. ASSUME n \notin Due(Merged) PROVE templates'[n].version = made[n]
    <3>1. templates[n] # NoTemplate /\ templates[n].id = made[n]
      BY <2>3, <2>4, <2>5, <1>1 DEF Due
    <3>2. made[n] # NoId /\ made[n] \in Nat
      <4>1. made[n] \in Ids /\ made[n] > 0
        BY <2>3 DEF DockerInv, IdsPast, DockerTypeOK
      <4> QED BY <4>1, DockerAssumption DEF NoId, Ids
    <3>3. templates[n].version >= made[n]
      BY <2>3, <3>1, <3>2 DEF DockerInv, TemplateNotOlder
    <3>4. templates[n].version \in Ids
      <4>1. templates[n] \in [id : Ids, version : Ids \cup {Absent}]
        BY <2>3 DEF DockerInv, DockerTypeOK
      <4>2. templates[n].version # Absent
        BY <2>3, <3>1 DEF DockerInv, IdsPast
      <4> QED BY <4>1, <4>2
    <3>5. templates'[n] = templates[n]
      BY <2>3 DEF MergeLists, DockerInv, DockerTypeOK
    <3>6. templates[n].version <= made[n]
      BY <1>0, <2>3, <3>4 DEF DockerInv, IdsPast
    <3>7. templates[n].version \in Nat
      BY <3>4, DockerAssumption DEF Ids
    <3> QED BY <3>2, <3>3, <3>5, <3>6, <3>7
  <2> QED BY <2>4, <2>5
<1> QED BY <1>5, <1>7, <1>8, <1>9, <1>10, <1>11 DEF DockerInv

\* A template arrives, or its request fails.
LEMMA TemplateStep ==
    ASSUME DockerInv, NEW n \in Names, TemplateAnswers(n) \/ TemplateFails(n)
    PROVE  DockerInv'
<1>0. Absent \notin Nat /\ Ids \subseteq Nat
  BY DockerAssumption DEF Ids
<1>1. n \in todo /\ phase = "templates" /\ rows[n] \in Ids /\ made[n] \in Ids
      /\ rows[n] <= made[n]
  BY DEF DockerInv, DockerTypeOK, IdsPast, In, Rows, TemplateAnswers, TemplateFails
<1>2. CASE TemplateAnswers(n)
  <2>1. /\ templates' = [templates EXCEPT ![n] = [id |-> rows[n], version |-> made[n]]]
        /\ heard' = [heard EXCEPT ![n] = rows[n]] /\ news' = news \ {n} /\ todo' = todo \ {n}
        /\ UNCHANGED <<made, there, phase, listed, engine, rows, data, calm>>
    BY <1>2 DEF TemplateAnswers
  <2>2. /\ templates'[n] = [id |-> rows[n], version |-> made[n]] /\ heard'[n] = rows[n]
        /\ \A m \in Names \ {n} : templates'[m] = templates[m] /\ heard'[m] = heard[m]
    BY <2>1 DEF DockerInv, DockerTypeOK
  <2>3. DockerTypeOK'
    <3>1. templates' \in [Names -> [id : Ids, version : Ids \cup {Absent}]]
      BY <1>1, <2>1 DEF DockerInv, DockerTypeOK
    <3>2. heard' \in [Names -> Ids] /\ news' \in SUBSET Names
      BY <1>1, <2>1 DEF DockerInv, DockerTypeOK
    <3>3. todo' \in SUBSET Names /\ todo' \subseteq In(rows')
      BY <2>1 DEF DockerInv, DockerTypeOK, In
    <3> QED BY <1>1, <2>1, <3>1, <3>2, <3>3 DEF DockerInv, DockerTypeOK
  <2>4. IdsPast'
    <3>1. made[n] \in Nat /\ made[n] # Absent /\ made[n] <= made[n]
      BY <1>1, DockerAssumption DEF Ids
    <3> QED BY <1>0, <1>1, <2>1, <2>2, <3>1 DEF DockerInv, IdsPast
  <2>5. TemplateNotOlder'
    BY <1>0, <1>1, <2>2 DEF DockerInv, TemplateNotOlder
  <2>6. (NoNeedlessFetch /\ KnownIds)'
    BY <1>0, <1>1, <2>1, <2>2 DEF DockerInv, DockerTypeOK, NoNeedlessFetch, KnownIds
  <2>7. CalmPoll'
    BY <1>1, <2>1, <2>2 DEF DockerInv, DockerTypeOK, CalmPoll, In
  <2> QED BY <2>3, <2>4, <2>5, <2>6, <2>7 DEF DockerInv
<1>3. CASE TemplateFails(n)
  <2>1. /\ todo' = todo \ {n} /\ calm' = FALSE
        /\ UNCHANGED <<made, there, phase, listed, engine, rows, templates, data, heard, news>>
    BY <1>3 DEF TemplateFails
  <2> QED BY <1>1, <2>1 DEF DockerInv, DockerTypeOK, In, IdsPast, TemplateNotOlder,
          NoNeedlessFetch, KnownIds, CalmPoll
<1> QED BY <1>2, <1>3

\* The enrichment is over: the rows become the data.
LEMMA PublishStep == ASSUME DockerInv, PublishContainers PROVE DockerInv'
<1>0. NoRows \in Rows
  BY DEF NoRows, Rows
<1>1. DockerTypeOK'
  BY <1>0 DEF DockerInv, DockerTypeOK, In, PublishContainers
<1>2. (IdsPast /\ TemplateNotOlder /\ NoNeedlessFetch)'
  BY DEF DockerInv, DockerTypeOK, IdsPast, TemplateNotOlder, NoNeedlessFetch,
     PublishContainers, NoRows
<1>3. (KnownIds /\ CalmPoll)'
  BY DEF DockerInv, KnownIds, CalmPoll, In, PublishContainers
<1> QED BY <1>1, <1>2, <1>3 DEF DockerInv

\* The server's containers change, which no calm poll survives.
LEMMA ServerStep ==
    ASSUME DockerInv, NEW n \in Names, MakeContainer(n) \/ RemoveContainer(n)
    PROVE  DockerInv'
<1>0. Absent \notin Nat /\ Ids \subseteq Nat /\ MaxMade \in Nat
  BY DockerAssumption DEF Ids
<1>1. /\ made' \in [Names -> Ids]
      /\ \A m \in Names : made'[m] >= made[m]
      /\ \A m \in there' : made'[m] > 0
  BY <1>0 DEF DockerInv, DockerTypeOK, IdsPast, Ids, MakeContainer, RemoveContainer
<1>2. /\ there' \in SUBSET Names /\ calm' = FALSE
      /\ UNCHANGED <<phase, listed, engine, rows, todo, templates, data, heard, news>>
  BY DEF DockerInv, DockerTypeOK, MakeContainer, RemoveContainer
<1>3. DockerTypeOK'
  BY <1>1, <1>2 DEF DockerInv, DockerTypeOK, In
<1>4. IdsPast'
  <2>1. \A m \in Names : /\ made[m] \in Nat /\ made'[m] \in Nat
                         /\ rows[m] # Absent => rows[m] \in Nat
                         /\ data[m] # Absent => data[m] \in Nat
                         /\ templates[m].version # Absent => templates[m].version \in Nat
                         /\ engine \notin {Waiting, Failed} => engine[m] \in Nat
    BY <1>0, <1>1 DEF DockerInv, DockerTypeOK, Rows, EngineLists
  <2> QED BY <1>1, <1>2, <2>1 DEF DockerInv, IdsPast
<1>5. (TemplateNotOlder /\ NoNeedlessFetch /\ KnownIds /\ CalmPoll)'
  BY <1>2 DEF DockerInv, TemplateNotOlder, NoNeedlessFetch, KnownIds, CalmPoll
<1> QED BY <1>3, <1>4, <1>5 DEF DockerInv

LEMMA DockerStep == DockerInv /\ [DockerNext]_dockerVars => DockerInv'
<1> SUFFICES ASSUME DockerInv, [DockerNext]_dockerVars PROVE DockerInv'
  OBVIOUS
<1>1. CASE AskLists \/ ListAnswers \/ EngineAnswers \/ ListFails \/ EngineFails \/ PollDies
  BY <1>1, ListStep
<1>2. CASE MergeLists
  BY <1>2, MergeStep
<1>3. CASE PublishContainers
  BY <1>3, PublishStep
<1>4. ASSUME NEW n \in Names,
             \/ TemplateAnswers(n) \/ TemplateFails(n)
             \/ MakeContainer(n) \/ RemoveContainer(n)
      PROVE  DockerInv'
  BY <1>4, TemplateStep, ServerStep
<1>5. CASE UNCHANGED dockerVars
  BY <1>5 DEF dockerVars, DockerInv, DockerTypeOK, IdsPast, TemplateNotOlder, NoNeedlessFetch,
     KnownIds, CalmPoll, In
<1> QED BY <1>1, <1>2, <1>3, <1>4, <1>5 DEF DockerNext

\* Whatever happens to the containers and the requests, the invariant holds.
LEMMA DockerInvariant == DockerSpec => []DockerInv
<1> QED BY DockerInitial, DockerStep, PTL DEF DockerSpec

-------------------------------------------------------------------------------
\* No template is filed under an id it is older than, however the lists, the template
\* requests and the making of containers interleave (async_refresh).
THEOREM TemplateNeverOlder == DockerSpec => []TemplateNotOlder
<1>1. DockerInv => TemplateNotOlder
  BY DEF DockerInv
<1> QED BY <1>1, DockerInvariant, PTL

\* No outage of either list makes the poll fetch a template that it has
\* (async_refresh, _carry_forward_docker_engine_state).
THEOREM NeverFetchedNeedlessly == DockerSpec => []NoNeedlessFetch
<1>1. DockerInv => NoNeedlessFetch
  BY DEF DockerInv
<1> QED BY <1>1, DockerInvariant, PTL

\* A calm poll ends with the server's own templates, whatever came before it.
THEOREM TemplatesCatchUp == DockerSpec => []TemplatesCurrent
<1>1. DockerInv => TemplatesCurrent
  BY DEF DockerInv, CalmPoll, TemplatesCurrent
<1> QED BY <1>1, DockerInvariant, PTL

-------------------------------------------------------------------------------
(***************************************************************************)
(* Web links, for lists of ports of any length: what is proved of a link   *)
(* is what the first match of each loop of _resolve_port amounts to.       *)
(***************************************************************************)

\* What each poll leaves: the link is the one of the container as it was found.
LinkInv ==
    /\ live \in ListsOf(Published) /\ pairs \in ListsOf(Configured) /\ onHost \in BOOLEAN
    /\ link = LinkOf(live)

\* A loop that finds something returns what it found.
LEMMA EarliestFound == ASSUME NEW S \in SUBSET Nat, S # {} PROVE Earliest(S) \in S
<1> DEFINE Less == {p \in Nat \X Nat : p[1] < p[2]}
<1>1. OpToRel(<, Nat) = Less
  BY DEF OpToRel
<1>2. PICK i \in S : \A j \in S : <<j, i>> \notin Less
  BY <1>1, NatLessThanWellFounded, WFMin
<1>3. ASSUME NEW j \in S PROVE i <= j
  <2>1. i \in Nat /\ j \in Nat /\ <<j, i>> \notin Less
    BY <1>2
  <2>2. ~(j < i)
    BY <2>1
  <2> QED BY <2>1, <2>2
<1> QED BY <1>3 DEF Earliest

LEMMA ListFacts ==
    ASSUME NEW S, NEW list \in ListsOf(S)
    PROVE  DOMAIN list \subseteq Nat /\ \A i \in DOMAIN list : list[i] \in S
<1>1. PICK n \in 0..MaxPorts : list \in [1..n -> S]
  BY DEF ListsOf
<1> QED BY <1>1

\* What the live ports lead to, of a list of any length.
LEMMA FromLiveFacts ==
    ASSUME NEW ports \in ListsOf(Published), NEW n \in Ports
    PROVE  LET ends == {ports[i].public : i \in {j \in Tcp(ports) : ports[j].private = n}} \ {Unset}
               shown == {ports[i].public : i \in Tcp(ports)}
           IN  /\ ends # {} => FromLive(n, ports) \in ends
               /\ (ends = {} /\ n \in shown) => FromLive(n, ports) = n
               /\ (ends = {} /\ n \notin shown) => FromLive(n, ports) = Unset
               /\ FromLive(n, ports) \in Ports => FromLive(n, ports) \in shown
<1> DEFINE named == {i \in Tcp(ports) : ports[i].private = n /\ ports[i].public # Unset}
           ends == {ports[i].public : i \in {j \in Tcp(ports) : ports[j].private = n}} \ {Unset}
           shown == {ports[i].public : i \in Tcp(ports)}
<1>1. Tcp(ports) \subseteq Nat
  BY ListFacts DEF Tcp
<1>2. n # Unset
  BY LinkAssumption DEF LinkAssumption
<1>3. CASE named # {}
  <2>1. Earliest(named) \in named
    BY <1>1, <1>3, EarliestFound
  <2>2. FromLive(n, ports) = ports[Earliest(named)].public
    BY <1>3 DEF FromLive
  <2> QED BY <2>1, <2>2
<1>4. CASE named = {}
  <2>1. FromLive(n, ports) = IF n \in shown THEN n ELSE Unset
    BY <1>4 DEF FromLive
  <2>2. ends = {}
    BY <1>4
  <2> QED BY <1>2, <2>1, <2>2, LinkAssumption DEF LinkAssumption
<1> QED BY <1>3, <1>4

\* What the template leads to: the TCP host port of one of its pairs, or nothing.
LEMMA FromTemplateFacts ==
    ASSUME NEW list \in ListsOf(Configured), NEW n \in Ports
    PROVE  FromTemplate(n, list) \in Ports
              => \E i \in DOMAIN list : list[i].host = FromTemplate(n, list) /\ ~list[i].udp
<1> DEFINE named == {i \in Tcp(list) : /\ n \in {list[i].container, list[i].host}
                                       /\ list[i].host # Unset}
<1>1. CASE named # {}
  <2>1. Earliest(named) \in named
    BY <1>1, ListFacts, EarliestFound DEF Tcp
  <2>2. FromTemplate(n, list) = list[Earliest(named)].host
    BY <1>1 DEF FromTemplate
  <2> QED BY <2>1, <2>2 DEF Tcp
<1>2. CASE named = {}
  <2>1. FromTemplate(n, list) = Garbled
    BY <1>2 DEF FromTemplate
  <2> QED BY <2>1, LinkAssumption DEF LinkAssumption
<1> QED BY <1>1, <1>2

\* What Docker reports of a container that it starts is a list of ports.
LEMMA AppliedIsList == ASSUME LinkInv PROVE Applied \in ListsOf(Published)
<1>1. CASE onHost
  <2>1. Applied = <<>> /\ <<>> \in [1..0 -> Published]
    BY <1>1 DEF Applied
  <2> QED BY <2>1, LinkAssumption DEF LinkAssumption, ListsOf
<1>2. CASE ~onHost
  <2>1. PICK n \in 0..MaxPorts : pairs \in [1..n -> Configured]
    BY DEF LinkInv, ListsOf
  <2>2. Applied \in [1..n -> Published]
    BY <1>2, <2>1 DEF Applied, Published, Configured
  <2> QED BY <2>1, <2>2 DEF ListsOf
<1> QED BY <1>1, <1>2

LEMMA LinkInvariant == LinkSpec => []LinkInv
<1>1. LinkInit => LinkInv
  BY DEF LinkInit, LinkInv
<1>2. LinkInv /\ [LinkNext]_linkVars => LinkInv'
  <2> SUFFICES ASSUME LinkInv, [LinkNext]_linkVars PROVE LinkInv'
    OBVIOUS
  <2>1. CASE LinkStopped
    <3>1. <<>> \in [1..0 -> Published]
      OBVIOUS
    <3>2. <<>> \in ListsOf(Published)
      BY <3>1, LinkAssumption DEF LinkAssumption, ListsOf
    <3> QED BY <2>1, <3>2 DEF LinkStopped, LinkInv, LinkOf
  <2>2. CASE LinkStarted
    BY <2>2, AppliedIsList DEF LinkStarted, LinkInv, LinkOf
  <2>3. CASE UNCHANGED linkVars
    BY <2>3 DEF linkVars, LinkInv, LinkOf
  <2> QED BY <2>1, <2>2, <2>3 DEF LinkNext
<1> QED BY <1>1, <1>2, PTL DEF LinkSpec

\* The link leads to a TCP port that Docker publishes for what its placeholder names,
\* or may name, and to the template's or the host's own only when there is none,
\* whatever the lists of ports are and in whatever order (_resolve_port).
THEOREM LinkAlwaysLeadsToPort == LinkSpec => []LinkLeadsToPort
<1>1. LinkInv => LinkLeadsToPort
  <2> SUFFICES ASSUME LinkInv PROVE LinkLeadsToPort
    OBVIOUS
  <2> DEFINE n == Placeholder
             inTcp == {j \in DOMAIN live : ~live[j].udp}
             tcp == {live[i] : i \in inTcp}
             ends == {m.public : m \in {k \in tcp : k.private = n}} \ {Unset}
             shown == {m.public : m \in tcp}
             now == FromLive(n, live)
  <2>1. /\ n \in Ports /\ n # Unset /\ Garbled # Unset
        /\ live \in ListsOf(Published) /\ pairs \in ListsOf(Configured) /\ onHost \in BOOLEAN
    BY LinkAssumption DEF LinkAssumption, LinkInv
  <2>2. /\ shown = {live[i].public : i \in Tcp(live)}
        /\ ends = {live[i].public : i \in {j \in Tcp(live) : live[j].private = n}} \ {Unset}
    BY DEF Tcp
  <2>3. /\ ends # {} => now \in ends
        /\ (ends = {} /\ n \in shown) => now = n
        /\ (ends = {} /\ n \notin shown) => now = Unset
        /\ now \in Ports => now \in shown
    <3> DEFINE found == {live[i].public : i \in {j \in Tcp(live) : live[j].private = n}} \ {Unset}
               seen == {live[i].public : i \in Tcp(live)}
    <3>1. /\ found # {} => now \in found
          /\ (found = {} /\ n \in seen) => now = n
          /\ (found = {} /\ n \notin seen) => now = Unset
          /\ now \in Ports => now \in seen
      BY <2>1, FromLiveFacts
    <3>2. shown = seen /\ ends = found
      BY <2>2
    <3> HIDE DEF now, ends, shown, found, seen
    <3> QED BY <3>1, <3>2
  <2>4. link = IF now # Unset THEN now ELSE IF onHost THEN n ELSE FromTemplate(n, pairs)
    BY DEF LinkInv, LinkOf, PortOf
  <2>5. FromTemplate(n, pairs) \in Ports
           => \E i \in DOMAIN pairs : pairs[i].host = FromTemplate(n, pairs) /\ ~pairs[i].udp
    BY <2>1, FromTemplateFacts
  <2>6. Unset \notin ends
    OBVIOUS
  <2> HIDE DEF now, ends, shown, n
  <2>7. /\ ends # {} => link \in ends
        /\ (ends = {} /\ n \in shown) => link = n
        /\ (ends = {} /\ onHost) => link = n
        /\ link \in Ports => \/ link \in shown
                             \/ onHost /\ link = n
                             \/ \E i \in DOMAIN pairs : pairs[i].host = link /\ ~pairs[i].udp
    BY <2>1, <2>3, <2>4, <2>5, <2>6
  <2> QED BY <2>7 DEF LinkLeadsToPort, ends, shown, n
<1> QED BY <1>1, LinkInvariant, PTL

-------------------------------------------------------------------------------
(***************************************************************************)
(* Compose stacks, for any stacks and containers: what is carried forward  *)
(* when the engine or the group list fails still agrees with itself.       *)
(***************************************************************************)

Counts == Nat \cup {None}

StackRecords ==
    [count : Counts, running : Counts, unhealthy : BOOLEAN \cup {None}, own : BOOLEAN,
     figure : SUBSET (Members \cup {Own})]

\* The counters are from one source, and agree.
Counted(stack) ==
    /\ stack.running = None <=> stack.count = None
    /\ stack.running # None => stack.running <= stack.count

\* And so does the verdict: the source that gives one gives the counters.
Agrees(stack) ==
    /\ Counted(stack)
    /\ stack.unhealthy # None => stack.running # None /\ stack.running > 0

StackInv ==
    /\ stacks \in [Stacks -> {None} \cup StackRecords]
    /\ \A s \in Stacks : stacks[s] # None =>
          /\ Agrees(stacks[s])
          /\ stacks[s].figure \notin {{}, {Own}} =>
                up # Down /\ stacks[s].figure \subseteq up[s]

\* A stack that has just been listed shows nothing yet.
LEMMA FreshAgrees ==
    ASSUME NEW own \in BOOLEAN
    PROVE  /\ Fresh(own) \in StackRecords /\ Agrees(Fresh(own))
           /\ Fresh(own).unhealthy = None
  BY DEF Fresh, StackRecords, Counts, Agrees, Counted

\* The counters of a group, or those that are carried in their place.
LEMMA GroupedFacts ==
    ASSUME NEW stack \in StackRecords, Counted(stack),
           NEW before \in {None} \cup StackRecords, before # None => Counted(before),
           NEW running \in {Down, None} \cup 0..Cardinality(Members)
    PROVE  LET grouped == IF running = Down THEN GroupCarried(stack, before)
                          ELSE FromGroup(stack, running)
           IN  /\ grouped \in StackRecords /\ Counted(grouped)
               /\ grouped.unhealthy = stack.unhealthy
  <1>1. Cardinality(Members) \in Nat
    BY StackAssumption, FS_CardinalityType
  <1>2. None \notin Nat
    BY StackAssumption
  <1>3. CASE running = Down
    <2>1. CASE before = None
      BY <1>3, <2>1 DEF GroupCarried
    <2>2. CASE before # None
      <3>1. GroupCarried(stack, before) =
               [stack EXCEPT !.count = Carry(stack.count, before.count),
                             !.running = Carry(stack.running, before.running)]
        BY <2>2 DEF GroupCarried
      <3>2. GroupCarried(stack, before) \in StackRecords
        BY <2>2, <3>1 DEF StackRecords, Carry
      <3>3. Counted(GroupCarried(stack, before))
        BY <2>2, <3>1 DEF StackRecords, Carry, Counted
      <3>4. GroupCarried(stack, before).unhealthy = stack.unhealthy
        BY <3>1 DEF StackRecords
      <3> QED BY <1>3, <3>2, <3>3, <3>4
    <2> QED BY <2>1, <2>2
  <1>4. CASE running # Down
    <2>1. CASE running = None
      BY <1>4, <2>1 DEF FromGroup
    <2>2. CASE running # None
      <3>1. FromGroup(stack, running) =
               [stack EXCEPT !.count = Cardinality(Members), !.running = running]
        BY <2>2 DEF FromGroup
      <3>2. running \in Nat /\ running <= Cardinality(Members)
        BY <1>1, <1>4, <2>2
      <3>3. FromGroup(stack, running) \in StackRecords
        BY <1>1, <3>1, <3>2 DEF StackRecords, Counts
      <3>4. /\ Counted(FromGroup(stack, running))
            /\ FromGroup(stack, running).unhealthy = stack.unhealthy
        BY <1>1, <1>2, <3>1, <3>2 DEF StackRecords, Counted
      <3> QED BY <1>4, <3>3, <3>4
    <2> QED BY <2>1, <2>2
  <1> QED BY <1>3, <1>4

\* What the engine says of the members agrees in itself.
LEMMA EngineAgrees ==
    ASSUME NEW stack \in StackRecords, NEW members \in [Members -> Services]
    PROVE  FromEngine(stack, members) \in StackRecords /\ Agrees(FromEngine(stack, members))
  <1>1. /\ IsFiniteSet(Members) /\ Cardinality(Members) \in Nat /\ None \notin Nat
        /\ Up(members) \subseteq Members
    BY StackAssumption, FS_CardinalityType DEF Up
  <1>2. /\ IsFiniteSet(Up(members)) /\ Cardinality(Up(members)) \in Nat
        /\ Cardinality(Up(members)) <= Cardinality(Members)
    BY <1>1, FS_Subset, FS_CardinalityType
  <1>3. Unhealthy(members) # None => Up(members) # {}
    BY DEF Unhealthy
  <1>4. Up(members) # {} => Cardinality(Up(members)) > 0
    BY <1>2, FS_EmptySet
  <1>5. Unhealthy(members) \in BOOLEAN \cup {None}
    BY DEF Unhealthy
  <1>6. FromEngine(stack, members) =
           [stack EXCEPT !.count = Cardinality(Members), !.running = Cardinality(Up(members)),
                         !.unhealthy = Unhealthy(members)]
    BY DEF FromEngine
  <1>7. FromEngine(stack, members) \in StackRecords
    BY <1>1, <1>2, <1>5, <1>6 DEF StackRecords, Counts
  <1>8. Agrees(FromEngine(stack, members))
    BY <1>1, <1>2, <1>3, <1>4, <1>6 DEF StackRecords, Agrees, Counted
  <1> QED BY <1>7, <1>8

\* What is carried forward agrees, even over the counters of this poll's group: the
\* verdict never goes without the counters that it came with.
LEMMA CarriedAgrees ==
    ASSUME NEW stack \in StackRecords, Counted(stack),
           NEW before \in {None} \cup StackRecords, before # None => Agrees(before),
           stack.unhealthy # None => before # None /\ before.unhealthy # None
    PROVE  /\ EngineCarried(stack, before) \in StackRecords
           /\ Agrees(EngineCarried(stack, before))
  <1>1. CASE before = None
    BY <1>1 DEF EngineCarried, Agrees
  <1>2. CASE before # None
    <2>1. EngineCarried(stack, before) =
             [stack EXCEPT !.count = Carry(stack.count, before.count),
                           !.running = Carry(stack.running, before.running),
                           !.unhealthy = Carry(stack.unhealthy, before.unhealthy)]
      BY <1>2 DEF EngineCarried
    <2>2. EngineCarried(stack, before) \in StackRecords
      BY <1>2, <2>1 DEF StackRecords, Carry
    <2>3. Agrees(EngineCarried(stack, before))
      BY <1>2, <2>1 DEF StackRecords, Carry, Agrees, Counted
    <2> QED BY <2>2, <2>3
  <1> QED BY <1>1, <1>2

\* A stack of a poll agrees, and its sum is of what runs.
LEMMA EnrichedFacts ==
    ASSUME NEW before \in {None} \cup StackRecords, before # None => Agrees(before),
           NEW stack \in StackRecords, Agrees(stack),
           stack = before \/ stack.unhealthy = None, stack # None,
           NEW running \in {Down, None} \cup 0..Cardinality(Members),
           NEW members \in {Down} \cup [Members -> Services], NEW measured \in SUBSET Members
    PROVE  LET new == Enriched(stack, before, running, members, measured)
           IN  /\ new \in StackRecords /\ Agrees(new)
               /\ new.figure \notin {{}, {Own}} =>
                     members # Down /\ new.figure \subseteq Up(members)
  <1> DEFINE grouped == IF running = Down THEN GroupCarried(stack, before)
                        ELSE FromGroup(stack, running)
             merged == IF members = Down THEN EngineCarried(grouped, before)
                       ELSE FromEngine(grouped, members)
             sum == IF merged.own THEN {Own} ELSE Summed(members, measured)
             new == Enriched(stack, before, running, members, measured)
  <1>1. /\ grouped \in StackRecords /\ Counted(grouped)
        /\ grouped.unhealthy = stack.unhealthy
    BY GroupedFacts DEF Agrees
  <1> HIDE DEF grouped
  <1>2. merged \in StackRecords /\ Agrees(merged)
    <2>1. CASE members = Down
      BY <1>1, <2>1, CarriedAgrees
    <2>2. CASE members # Down
      BY <1>1, <2>2, EngineAgrees
    <2> QED BY <2>1, <2>2
  <1>3. new = [merged EXCEPT !.figure = sum]
    BY DEF Enriched, Figured, grouped
  <1> HIDE DEF merged, new
  <1>4. Summed(members, measured) \in SUBSET Members
    BY DEF Summed
  <1>5. sum \in SUBSET (Members \cup {Own})
    BY <1>4
  <1>6. new \in StackRecords /\ Agrees(new) /\ new.figure = sum
    <2> HIDE DEF sum
    <2> QED BY <1>2, <1>3, <1>5 DEF StackRecords, Agrees, Counted
  <1>7. sum \notin {{}, {Own}} => members # Down /\ sum \subseteq Up(members)
    BY DEF Summed
  <1> QED BY <1>6, <1>7 DEF new

\* There are no stacks before the first poll.
LEMMA StackStart == StackInit => StackInv
  BY DEF StackInit, StackInv

\* The invariant of the stacks is inductive: a poll keeps it, whatever it is answered.
LEMMA StackStep == StackInv /\ [StackNext]_stackVars => StackInv'
  <1> SUFFICES ASSUME StackInv, [StackNext]_stackVars PROVE StackInv'
    OBVIOUS
  <1>1. ASSUME NEW answered \in {Down} \cup [Stacks -> {None} \cup {Fresh(own) : own \in BOOLEAN}],
               NEW groups \in {Down} \cup [Stacks -> {None} \cup 0..Cardinality(Members)],
               NEW reported \in {Down} \cup [Stacks -> [Members -> Services]],
               NEW measured \in SUBSET Members,
               PollStacks(answered, groups, reported, measured)
        PROVE  StackInv'
    <2> DEFINE given == IF answered = Down THEN stacks ELSE answered
               Of(s, answer) == IF answer = Down THEN Down ELSE answer[s]
               New(s) == Enriched(given[s], stacks[s], Of(s, groups), Of(s, reported), measured)
    <2>1. /\ stacks' = [s \in Stacks |-> IF given[s] = None THEN None ELSE New(s)]
          /\ up' = IF reported = Down THEN Down ELSE [s \in Stacks |-> Up(reported[s])]
      BY <1>1 DEF PollStacks
    <2>2. ASSUME NEW s \in Stacks, given[s] # None
          PROVE  /\ New(s) \in StackRecords /\ Agrees(New(s))
                 /\ New(s).figure \notin {{}, {Own}} =>
                       up' # Down /\ New(s).figure \subseteq up'[s]
      <3>1. /\ stacks[s] \in {None} \cup StackRecords
            /\ stacks[s] # None => Agrees(stacks[s])
        BY DEF StackInv
      <3>2. /\ given[s] \in StackRecords /\ Agrees(given[s])
            /\ given[s] = stacks[s] \/ given[s].unhealthy = None
        <4>1. CASE answered = Down
          BY <2>2, <3>1, <4>1
        <4>2. CASE answered # Down
          <5>1. \E own \in BOOLEAN : given[s] = Fresh(own)
            BY <2>2, <4>2
          <5> QED BY <5>1, FreshAgrees
        <4> QED BY <4>1, <4>2
      <3>3. Of(s, groups) \in {Down, None} \cup 0..Cardinality(Members)
        OBVIOUS
      <3>4. Of(s, reported) \in {Down} \cup [Members -> Services]
        OBVIOUS
      <3>5. /\ New(s) \in StackRecords /\ Agrees(New(s))
            /\ New(s).figure \notin {{}, {Own}} =>
                  Of(s, reported) # Down /\ New(s).figure \subseteq Up(Of(s, reported))
        <4> HIDE DEF given, Of
        <4> QED BY <2>2, <3>1, <3>2, <3>3, <3>4, EnrichedFacts
      <3>6. Of(s, reported) # Down => up' # Down /\ up'[s] = Up(Of(s, reported))
        <4> SUFFICES ASSUME Of(s, reported) # Down PROVE up' # Down /\ up'[s] = Up(Of(s, reported))
          OBVIOUS
        <4>1. /\ reported # Down /\ Of(s, reported) = reported[s]
              /\ up' = [t \in Stacks |-> Up(reported[t])]
          BY <2>1
        <4>2. \A t \in Stacks : Up(reported[t]) \in SUBSET Members
          BY DEF Up
        <4>3. up' \in [Stacks -> SUBSET Members]
          BY <4>1, <4>2
        <4> QED BY <4>1, <4>3, StackAssumption
      <3> HIDE DEF New, Of
      <3> QED BY <3>5, <3>6
    <2> HIDE DEF New, given
    <2>3. stacks' \in [Stacks -> {None} \cup StackRecords]
      BY <2>1, <2>2
    <2>4. \A s \in Stacks : stacks'[s] # None => given[s] # None /\ stacks'[s] = New(s)
      BY <2>1
    <2> QED BY <2>2, <2>3, <2>4 DEF StackInv
  <1>2. CASE UNCHANGED stackVars
    BY <1>2 DEF stackVars, StackInv
  <1> QED BY <1>1, <1>2 DEF StackNext

\* For any stacks with any number of services, and any order in which the lists fail and
\* come back, what a stack's entities show agrees (merge_engine_state,
\* carry_forward_engine_state, merge_stats).
THEOREM StacksAlwaysAgree == StackSpec => []StacksAgree
  <1>1. StackInv => StacksAgree
    BY DEF StackInv, StacksAgree, Agrees, Counted
  <1> QED BY <1>1, StackStart, StackStep, PTL DEF StackSpec

-------------------------------------------------------------------------------
(***************************************************************************)
(* CPU figures. What makes their honesty inductive: a counter is ahead of  *)
(* a sample by no more than was used since the sample was taken, whether   *)
(* or not it started again in between.                                     *)
(***************************************************************************)

StatsTypeOK ==
    /\ used \in 0..MaxUsed /\ spent \in 0..MaxUsed
    /\ DOMAIN sample = {"usage", "since"}
    /\ sample.usage \in Nat \cup {NoFigure} /\ sample.since \in Nat

SampleBehind == sample.usage # NoFigure => used - sample.usage <= spent

StatsInv == StatsTypeOK /\ SampleBehind /\ FiguresHonest

\* No sample is behind anything.
LEMMA NoSampleTyped ==
    /\ DOMAIN NoSample = {"usage", "since"}
    /\ NoSample.usage = NoFigure /\ NoSample.since = 0
    /\ Pruned \in {sample, NoSample}
  BY DEF NoSample, Pruned

\* Work is counted in the counter and in what was spent; time counts in the sample.
LEMMA ComputesStep ==
    ASSUME StatsInv, NEW work \in {0, 1}, Computes(work)
    PROVE  StatsInv'
  <1>1. /\ used \in Nat /\ spent \in Nat /\ MaxUsed \in Nat /\ SampleTTL \in Nat
        /\ used <= MaxUsed /\ spent <= MaxUsed
    BY StatsAssumption DEF StatsInv, StatsTypeOK
  <1>2. /\ used' = used + work /\ used' <= MaxUsed
        /\ spent' = Capped(spent + work, MaxUsed)
        /\ sample' = IF sample = NoSample THEN sample
                     ELSE [sample EXCEPT !.since = Capped(@ + 1, SampleTTL + 1)]
        /\ UNCHANGED <<figure, fair>>
    BY <1>1 DEF Computes
  <1>3. /\ DOMAIN sample' = {"usage", "since"}
        /\ sample'.usage = sample.usage /\ sample'.since \in Nat
    BY <1>1, <1>2 DEF StatsInv, StatsTypeOK, Capped
  <1>4. spent' \in 0..MaxUsed /\ (spent' = spent + work \/ spent' = MaxUsed)
    BY <1>1, <1>2 DEF Capped
  <1>5. StatsTypeOK'
    BY <1>1, <1>2, <1>3, <1>4 DEF StatsInv, StatsTypeOK
  <1>6. SampleBehind'
    <2> SUFFICES ASSUME sample.usage # NoFigure PROVE used' - sample.usage <= spent'
      BY <1>3 DEF SampleBehind
    <2>1. sample.usage \in Nat /\ used - sample.usage <= spent
      BY DEF StatsInv, StatsTypeOK, SampleBehind
    <2> QED BY <1>1, <1>2, <1>4, <2>1
  <1> QED BY <1>2, <1>5, <1>6 DEF StatsInv, FiguresHonest

\* A measurement makes its figure of what was used since the sample, and starts over.
LEMMA MeasuredStep == ASSUME StatsInv, Measured PROVE StatsInv'
  <1>1. /\ figure' = Percent(sample.usage, sample.since)
        /\ sample' = [usage |-> used, since |-> 0]
        /\ fair' = spent /\ spent' = 0 /\ used' = used
    BY DEF Measured
  <1>2. /\ used \in Nat /\ spent \in Nat /\ MaxUsed \in Nat /\ used <= MaxUsed
        /\ sample.since \in Nat
    BY StatsAssumption DEF StatsInv, StatsTypeOK
  <1>3. StatsTypeOK' /\ SampleBehind'
    BY <1>1, <1>2 DEF StatsTypeOK, SampleBehind
  <1>4. FiguresHonest'
    <2> SUFFICES ASSUME figure' # NoFigure
                 PROVE  figure'.system > 0 /\ figure'.cpu >= 0 /\ figure'.cpu <= spent
      BY <1>1 DEF FiguresHonest
    <2>1. /\ sample.usage # NoFigure /\ sample.since # 0 /\ ~(used < sample.usage)
          /\ figure' = [cpu |-> used - sample.usage, system |-> sample.since]
      BY <1>1 DEF Percent
    <2>2. sample.usage \in Nat /\ used - sample.usage <= spent
      BY <2>1 DEF StatsInv, StatsTypeOK, SampleBehind
    <2> QED BY <1>2, <2>1, <2>2
  <1> QED BY <1>3, <1>4 DEF StatsInv

\* Whatever else happens keeps a sample or drops it, and a figure or blanks it.
LEMMA OtherStatsSteps ==
    ASSUME StatsInv, used' \in {used, 0}, spent' = spent, fair' = fair,
           sample' \in {sample, Pruned}, figure' \in {figure, NoFigure, Reported}
    PROVE  StatsInv'
  <1>1. /\ used \in Nat /\ spent \in Nat /\ MaxUsed \in Nat /\ used <= MaxUsed
        /\ sample.usage \in Nat \cup {NoFigure}
    BY StatsAssumption DEF StatsInv, StatsTypeOK
  <1>2. StatsTypeOK'
    BY <1>1, NoSampleTyped DEF StatsInv, StatsTypeOK
  <1>3. SampleBehind'
    BY <1>1, NoSampleTyped DEF StatsInv, SampleBehind
  <1> QED BY <1>2, <1>3 DEF StatsInv, FiguresHonest

\* Every step keeps the invariant of the figures.
LEMMA StatsStep == StatsInv /\ [StatsNext]_statsVars => StatsInv'
  <1> SUFFICES ASSUME StatsInv, [StatsNext]_statsVars PROVE StatsInv'
    OBVIOUS
  <1>1. ASSUME NEW work \in {0, 1}, Computes(work)
        PROVE  StatsInv'
    BY <1>1, ComputesStep
  <1>2. CASE StopContainer \/ StartContainer \/ UpdateServer
    BY <1>2, OtherStatsSteps DEF StopContainer, StartContainer, UpdateServer
  <1>3. ASSUME NEW inList \in BOOLEAN, NEW inEngine \in BOOLEAN, NEW wanted \in BOOLEAN,
               NEW stale \in BOOLEAN, PollFigures(inList, inEngine, wanted, stale)
        PROVE  StatsInv'
    <2>1. figure' \in {figure, NoFigure, Reported}
      BY <1>3 DEF PollFigures, Blank
    <2> QED BY <1>3, <2>1, OtherStatsSteps DEF PollFigures
  <1>4. CASE Measured
    BY <1>4, MeasuredStep
  <1>5. CASE NotMeasured \/ OthersMeasured
    BY <1>5, OtherStatsSteps DEF NotMeasured, OthersMeasured, Blank
  <1>6. CASE UNCHANGED statsVars
    BY <1>6, OtherStatsSteps DEF statsVars
  <1> QED BY <1>1, <1>2, <1>3, <1>4, <1>5, <1>6 DEF StatsNext

\* No CPU figure claims more than the container used between its two readings, or a
\* negative amount, or divides by nothing, however often the container restarted and
\* measurements failed in between (_cpu_percent, _prune_cpu_samples).
THEOREM FiguresAlwaysHonest == StatsSpec => []FiguresHonest
  <1>1. StatsInit => StatsInv
    BY StatsAssumption, NoSampleTyped
    DEF StatsInit, StatsInv, StatsTypeOK, SampleBehind, FiguresHonest
  <1>2. StatsInv => FiguresHonest
    BY DEF StatsInv
  <1> QED BY <1>1, <1>2, StatsStep, PTL DEF StatsSpec

\* Between two polls a figure that was measured is the last poll's own: no path
\* through a poll leaves the one before in place (NO_DOCKER_STATS).
THEOREM AlwaysMeasuredThisPoll == StatsSpec => []MeasuredThisPoll
  <1>1. StatsInit => MeasuredThisPoll
    BY DEF StatsInit, MeasuredThisPoll
  <1>2. MeasuredThisPoll /\ [StatsNext]_statsVars => MeasuredThisPoll'
    <2> SUFFICES ASSUME MeasuredThisPoll, [StatsNext]_statsVars PROVE MeasuredThisPoll'
      OBVIOUS
    <2>1. CASE \E inList, inEngine, wanted, stale \in BOOLEAN :
                 PollFigures(inList, inEngine, wanted, stale)
      BY <2>1 DEF PollFigures, Blank, MeasuredThisPoll
    <2>2. CASE Measured \/ NotMeasured
      BY <2>2 DEF Measured, NotMeasured, Blank, MeasuredThisPoll
    <2>3. CASE \/ \E work \in {0, 1} : Computes(work)
               \/ StopContainer \/ StartContainer \/ UpdateServer \/ OthersMeasured
      BY <2>3
      DEF Computes, StopContainer, StartContainer, UpdateServer, OthersMeasured,
          MeasuredThisPoll
    <2>4. CASE UNCHANGED statsVars
      BY <2>4 DEF statsVars, MeasuredThisPoll
    <2> QED BY <2>1, <2>2, <2>3, <2>4 DEF StatsNext
  <1> QED BY <1>1, <1>2, PTL DEF StatsSpec

-------------------------------------------------------------------------------
(***************************************************************************)
(* Guests' icons, for any guests and lifetimes: a picture that is on       *)
(* display is there, and what has changed shows once the probes that knew  *)
(* better have expired.                                                    *)
(***************************************************************************)

Verdicts == {TRUE, FALSE, NoIcon}
Pictures == Paths \cup {NoIcon}

GuestTypeOK ==
    /\ config \in [Guests -> Pictures] /\ details \in [Guests -> Pictures]
    /\ icons \in [Guests -> Pictures]
    /\ files \in SUBSET Paths
    /\ detailAge \in 0..DetailTTL /\ sinceAsked \in 0..DetailTTL
    /\ denied \in BOOLEAN /\ unsupported \in BOOLEAN /\ probing \in BOOLEAN
    /\ probes \in [Paths -> [exists : Verdicts, age : 0..ProbeTTL]]
    /\ sincePoll \in 0..PollGap /\ quiet \in 0..Settled

\* The endpoint was asked when its answer, or its failure, was stamped.
AskedWhenStamped == sinceAsked = detailAge

\* A picture on display was found, and what was found is there.
ShownFound ==
    /\ \A g \in Guests : icons[g] # NoIcon => probes[icons[g]].exists = TRUE
    /\ \A p \in Paths : probes[p].exists = TRUE => p \in files

\* The longer of the two times to live.
Longest == IF DetailTTL > ProbeTTL THEN DetailTTL ELSE ProbeTTL

\* What was read in quiet times is still so.
ReadQuietly ==
    /\ detailAge < DetailTTL /\ detailAge < quiet => details = config
    /\ \A p \in Paths :
          (probes[p].exists = FALSE /\ probes[p].age < ProbeTTL /\ probes[p].age < quiet)
             => p \notin files

\* A poll in quiet times works with the configuration there is, and leaves the icons
\* right until there is trouble.
PollRight ==
    ~denied =>
        /\ probing /\ quiet >= Longest => details = config
        /\ quiet >= Longest + sincePoll =>
              \A g \in Guests :
                 icons[g] = IF PathOf(g, config) \in files THEN PathOf(g, config) ELSE NoIcon

GuestInv == GuestTypeOK /\ AskedWhenStamped /\ ShownFound /\ ReadQuietly /\ PollRight

\* Lifetimes, and the marker that is no verdict and no path.
LEMMA GuestFacts ==
    /\ DetailTTL \in Nat \ {0} /\ ProbeTTL \in Nat \ {0} /\ PollGap \in Nat \ {0}
    /\ RetryTTL \in Nat /\ RetryTTL <= DetailTTL
    /\ Longest \in Nat \ {0} /\ DetailTTL <= Longest /\ ProbeTTL <= Longest
    /\ Settled = Longest + PollGap
    /\ NoIcon # TRUE /\ NoIcon # FALSE /\ NoIcon \notin Paths
  <1>1. NoIcon \notin Guests /\ NoIcon # OsIcon /\ NoIcon \notin BOOLEAN
    BY GuestAssumption
  <1>2. NoIcon # TRUE /\ NoIcon # FALSE
    BY <1>1
  <1>3. NoIcon \notin Paths
    BY <1>1 DEF Paths
  <1>4. /\ Longest \in Nat \ {0} /\ DetailTTL <= Longest /\ ProbeTTL <= Longest
        /\ Settled = Longest + PollGap
    BY GuestAssumption DEF Longest, Settled
  <1> QED BY <1>2, <1>3, <1>4, GuestAssumption

\* A guest's icon is looked for at a path.
LEMMA PathTyped ==
    ASSUME NEW known \in [Guests -> Pictures], NEW g \in Guests
    PROVE  PathOf(g, known) \in Paths
  BY DEF PathOf, Pictures, Paths

\* A time that passes stays within its bound and grows by one at most.
LEMMA LaterFacts ==
    ASSUME NEW cap \in Nat, NEW n \in 0..cap
    PROVE  /\ Later(n, cap) \in 0..cap /\ n <= Later(n, cap)
           /\ Later(n, cap) = n + 1 \/ (n = cap /\ Later(n, cap) = cap)
  BY DEF Later

\* What is younger than a time that grows by one at most was so before.
LEMMA LaterYounger ==
    ASSUME NEW cap \in Nat, NEW n \in 0..cap, NEW a \in Nat, NEW b \in Nat, b <= a + 1,
           Later(n, cap) < cap, Later(n, cap) < b
    PROVE  n < cap /\ n < a
  <1>1. Later(n, cap) = n + 1 /\ n \in Nat
    BY LaterFacts
  <1> QED BY <1>1

\* Trouble leaves nothing to be claimed of quiet times.
LEMMA AfterTrouble ==
    ASSUME quiet' = 0, GuestTypeOK', AskedWhenStamped', ShownFound'
    PROVE  GuestInv'
  <1>1. /\ sincePoll' \in Nat /\ detailAge' \in Nat
        /\ \A p \in Paths : probes'[p].age \in Nat
    BY GuestFacts DEF GuestTypeOK
  <1>2. ~(detailAge' < 0) /\ ~(0 >= Longest) /\ ~(0 >= Longest + sincePoll')
    <2>1. Longest \in Nat /\ Longest > 0
      BY GuestFacts
    <2>2. ~(detailAge' < 0)
      BY <1>1
    <2>3. \A a \in Nat, b \in Nat : a > 0 => ~(0 >= a) /\ ~(0 >= a + b)
      OBVIOUS
    <2> QED BY <1>1, <2>1, <2>2, <2>3
  <1>3. \A p \in Paths : ~(probes'[p].age < 0)
    BY <1>1
  <1>4. ReadQuietly' /\ PollRight'
    BY <1>2, <1>3 DEF ReadQuietly, PollRight
  <1> QED BY <1>4 DEF GuestInv

\* The cache is empty at first and nothing is on display.
LEMMA GuestStart == GuestInit => GuestInv
  <1> SUFFICES ASSUME GuestInit PROVE GuestInv
    OBVIOUS
  <1>1. probes \in [Paths -> [exists : Verdicts, age : 0..ProbeTTL]]
        /\ \A p \in Paths : probes[p].exists = NoIcon
    BY GuestFacts DEF GuestInit, NoProbe, Verdicts
  <1>2. NoDetails \in [Guests -> Pictures] /\ \A g \in Guests : NoDetails[g] = NoIcon
    BY DEF NoDetails, Pictures
  <1>3. config \in [Guests -> Pictures] /\ files \in SUBSET Paths
    BY DEF GuestInit, Pictures
  <1>4. GuestTypeOK
    <2>1. /\ detailAge \in 0..DetailTTL /\ sinceAsked \in 0..DetailTTL
          /\ sincePoll \in 0..PollGap /\ quiet \in 0..Settled
      BY GuestFacts DEF GuestInit
    <2>2. denied \in BOOLEAN /\ unsupported \in BOOLEAN /\ probing \in BOOLEAN
      BY DEF GuestInit
    <2>3. details \in [Guests -> Pictures] /\ icons \in [Guests -> Pictures]
      BY <1>2 DEF GuestInit
    <2> QED BY <1>1, <1>3, <2>1, <2>2, <2>3 DEF GuestTypeOK
  <1>5. AskedWhenStamped /\ ShownFound
    BY <1>1, <1>2, GuestFacts DEF GuestInit, AskedWhenStamped, ShownFound
  <1>6. ReadQuietly
    BY <1>1, GuestFacts DEF GuestInit, ReadQuietly
  <1>7. PollRight
    BY GuestFacts DEF GuestInit, PollRight
  <1> QED BY <1>4, <1>5, <1>6, <1>7 DEF GuestInv

\* The configuration that does for another poll in quiet times is the present one.
LEMMA UseStep == ASSUME GuestInv, UseDetails PROVE GuestInv'
  <1>1. /\ DetailsKept /\ probing' = TRUE
        /\ UNCHANGED <<config, files, details, detailAge, denied, unsupported, probes, icons,
                       sincePoll, quiet, sinceAsked, spared>>
    BY DEF UseDetails
  <1>2. GuestTypeOK' /\ AskedWhenStamped' /\ ShownFound' /\ ReadQuietly'
    BY <1>1 DEF GuestInv, GuestTypeOK, AskedWhenStamped, ShownFound, ReadQuietly
  <1>3. ~denied /\ quiet >= Longest => details = config
    <2> SUFFICES ASSUME ~denied, quiet >= Longest PROVE details = config
      OBVIOUS
    <2>1. detailAge < DetailTTL
      <3>1. detailAge < (IF Unknown THEN RetryTTL ELSE DetailTTL)
        BY <1>1 DEF DetailsKept
      <3> QED BY <3>1, GuestFacts DEF GuestInv, GuestTypeOK
    <2>2. detailAge < quiet
      BY <2>1, GuestFacts DEF GuestInv, GuestTypeOK
    <2> QED BY <2>1, <2>2 DEF GuestInv, ReadQuietly
  <1>4. PollRight'
    BY <1>1, <1>3 DEF GuestInv, PollRight, PathOf
  <1> QED BY <1>2, <1>4 DEF GuestInv

\* What asking leaves typed.
LEMMA AskTypes ==
    ASSUME GuestInv, NEW fetched, AskDetails(fetched),
           details' \in {config, details}, denied' \in BOOLEAN, unsupported' \in BOOLEAN,
           quiet' \in {quiet, 0}
    PROVE  GuestTypeOK' /\ AskedWhenStamped' /\ ShownFound'
  <1>1. /\ detailAge' = 0 /\ sinceAsked' = 0 /\ probing' = TRUE
        /\ UNCHANGED <<config, files, probes, icons, sincePoll>>
    BY DEF AskDetails, Stamped
  <1> QED
    BY <1>1, GuestFacts DEF GuestInv, GuestTypeOK, AskedWhenStamped, ShownFound

\* An answer is the present configuration.
LEMMA AnswerStep == ASSUME GuestInv, DetailsAnswer PROVE GuestInv'
  <1>1. /\ AskDetails(TRUE) /\ details' = config /\ config' = config
        /\ UNCHANGED <<denied, quiet, icons, sincePoll, probes, files>>
        /\ unsupported' = FALSE
    BY DEF DetailsAnswer, AskDetails
  <1>2. GuestTypeOK' /\ AskedWhenStamped' /\ ShownFound'
    BY <1>1, AskTypes DEF GuestInv, GuestTypeOK
  <1>3. ReadQuietly' /\ PollRight'
    BY <1>1 DEF GuestInv, ReadQuietly, PollRight, PathOf
  <1> QED BY <1>2, <1>3 DEF GuestInv

\* A failure is trouble.
LEMMA FailStep ==
    ASSUME GuestInv, NEW denial \in BOOLEAN, NEW missing \in BOOLEAN,
           DetailsFail(denial, missing)
    PROVE  GuestInv'
  <1>1. /\ AskDetails(FALSE) /\ details' = details /\ denied' = denial
        /\ unsupported' = (unsupported \/ missing) /\ quiet' = 0
    BY DEF DetailsFail, Previous
  <1>2. GuestTypeOK' /\ AskedWhenStamped' /\ ShownFound'
    BY <1>1, AskTypes
  <1> QED BY <1>1, <1>2, AfterTrouble

\* The verdict on a path that a poll need not look at, or has looked at.
LEMMA ProbeVerdicts ==
    ASSUME GuestInv, NEW failing \in SUBSET Paths, ProbeIcons(failing)
    PROVE  /\ probes' \in [Paths -> [exists : Verdicts, age : 0..ProbeTTL]]
           /\ \A p \in Paths : probes[p].exists = TRUE => probes'[p] = probes[p]
           /\ \A p \in Paths : probes'[p].exists = TRUE => p \in files
           /\ \A p \in Paths :
                 (failing = {} /\ probes'[p].exists = FALSE /\ probes'[p].age < ProbeTTL
                    /\ probes'[p].age < quiet) => p \notin files
           /\ \A g \in Guests : probes'[PathOf(g, details)].exists \in BOOLEAN
           /\ \A g \in Guests : probes'[PathOf(g, details)].exists = FALSE
                                   => probes'[PathOf(g, details)].age < ProbeTTL
  <1> DEFINE looked == {p \in Paths : ~ProbeKept(p)
                                       /\ \E g \in Guests : PathOf(g, details) = p}
  <1>1. probes' = [p \in Paths |->
                     IF p \in looked THEN [exists |-> Exists(p, failing), age |-> 0]
                     ELSE probes[p]]
    BY DEF ProbeIcons
  <1>2. /\ probes \in [Paths -> [exists : Verdicts, age : 0..ProbeTTL]]
        /\ ProbeTTL \in Nat /\ 0 < ProbeTTL /\ 0 \in 0..ProbeTTL
    BY GuestFacts DEF GuestInv, GuestTypeOK
  <1>3. ASSUME NEW p \in Paths
        PROVE  Exists(p, failing) \in BOOLEAN /\ Exists(p, failing) \in Verdicts
    <2>1. Exists(p, failing) \in BOOLEAN
      BY DEF Exists
    <2> QED BY <2>1 DEF Verdicts
  <1>4. ASSUME NEW p \in looked
        PROVE  /\ probes'[p].exists = Exists(p, failing) /\ probes'[p].age = 0
               /\ probes[p].exists # TRUE
    BY <1>1, <1>4 DEF ProbeKept
  <1>5. ASSUME NEW p \in Paths \ looked
        PROVE  probes'[p] = probes[p]
    BY <1>1, <1>5
  <1>6. probes' \in [Paths -> [exists : Verdicts, age : 0..ProbeTTL]]
    BY <1>1, <1>2, <1>3
  <1>7. \A p \in Paths : probes[p].exists = TRUE => probes'[p] = probes[p]
    BY <1>4, <1>5
  <1>8. \A p \in Paths : probes'[p].exists = TRUE => p \in files
    BY <1>4, <1>5 DEF Exists, GuestInv, ShownFound
  <1>9. \A p \in Paths :
           (failing = {} /\ probes'[p].exists = FALSE /\ probes'[p].age < ProbeTTL
              /\ probes'[p].age < quiet) => p \notin files
    BY <1>4, <1>5 DEF Exists, GuestInv, ReadQuietly
  <1>10. ASSUME NEW g \in Guests
         PROVE  /\ probes'[PathOf(g, details)].exists \in BOOLEAN
                /\ probes'[PathOf(g, details)].exists = FALSE
                      => probes'[PathOf(g, details)].age < ProbeTTL
    <2>1. PathOf(g, details) \in Paths
      BY PathTyped DEF GuestInv, GuestTypeOK
    <2>2. CASE PathOf(g, details) \in looked
      BY <1>2, <1>3, <1>4, <2>1, <2>2
    <2>3. CASE PathOf(g, details) \notin looked
      <3>1. ProbeKept(PathOf(g, details))
        BY <2>1, <2>3
      <3> QED BY <1>5, <2>1, <2>3, <3>1 DEF ProbeKept
    <2> QED BY <2>2, <2>3
  <1> QED BY <1>6, <1>7, <1>8, <1>9, <1>10

\* A poll shows what the details it works with give.
LEMMA ProbeStep ==
    ASSUME GuestInv, NEW failing \in SUBSET Paths, ProbeIcons(failing)
    PROVE  GuestInv'
  <1>1. /\ probing /\ probing' = FALSE /\ sincePoll' = 0
        /\ icons' = [g \in Guests |->
                LET p == PathOf(g, details) IN IF probes'[p].exists THEN p ELSE NoIcon]
        /\ quiet' = IF failing = {} THEN quiet ELSE 0
        /\ UNCHANGED <<config, files, details, detailAge, denied, unsupported,
                       sinceAsked, spared>>
    BY DEF ProbeIcons
  <1>2. \A g \in Guests : PathOf(g, details) \in Paths
    BY PathTyped DEF GuestInv, GuestTypeOK
  <1>3. \A g \in Guests :
           \/ probes'[PathOf(g, details)].exists = TRUE /\ icons'[g] = PathOf(g, details)
           \/ probes'[PathOf(g, details)].exists = FALSE /\ icons'[g] = NoIcon
    BY <1>1, ProbeVerdicts
  <1>4. icons' \in [Guests -> Pictures]
    BY <1>1, <1>2, <1>3 DEF Pictures
  <1>5. GuestTypeOK'
    <2>1. probes' \in [Paths -> [exists : Verdicts, age : 0..ProbeTTL]]
      BY ProbeVerdicts
    <2>2. sincePoll' \in 0..PollGap /\ quiet' \in 0..Settled
      BY <1>1, GuestFacts DEF GuestInv, GuestTypeOK
    <2>3. /\ detailAge' \in 0..DetailTTL /\ sinceAsked' \in 0..DetailTTL
          /\ denied' \in BOOLEAN /\ unsupported' \in BOOLEAN /\ probing' \in BOOLEAN
          /\ config' \in [Guests -> Pictures] /\ details' \in [Guests -> Pictures]
          /\ files' \in SUBSET Paths
      BY <1>1 DEF GuestInv, GuestTypeOK
    <2> QED BY <1>4, <2>1, <2>2, <2>3 DEF GuestTypeOK
  <1>6. AskedWhenStamped' /\ ShownFound'
    BY <1>1, <1>3, ProbeVerdicts DEF GuestInv, AskedWhenStamped, ShownFound
  <1>7. CASE failing # {}
    BY <1>1, <1>5, <1>6, <1>7, AfterTrouble
  <1>8. CASE failing = {}
    <2>1. ReadQuietly'
      BY <1>1, <1>8, ProbeVerdicts DEF GuestInv, ReadQuietly
    <2>2. ASSUME ~denied, quiet >= Longest, NEW g \in Guests
          PROVE  icons'[g] = IF PathOf(g, config) \in files
                             THEN PathOf(g, config) ELSE NoIcon
      <3>1. details = config
        BY <1>1, <2>2 DEF GuestInv, PollRight
      <3>2. CASE probes'[PathOf(g, details)].exists = TRUE
        BY <1>2, <1>3, <3>1, <3>2, ProbeVerdicts
      <3>3. CASE probes'[PathOf(g, details)].exists = FALSE
        <4>1. /\ probes'[PathOf(g, details)].age < ProbeTTL
              /\ probes'[PathOf(g, details)].age \in 0..ProbeTTL
          BY <1>2, <3>3, ProbeVerdicts
        <4>2. probes'[PathOf(g, details)].age < quiet
          BY <2>2, <4>1, GuestFacts DEF GuestInv, GuestTypeOK
        <4>3. PathOf(g, details) \notin files
          BY <1>2, <1>8, <3>3, <4>1, <4>2, ProbeVerdicts
        <4> QED BY <1>3, <3>1, <3>3, <4>3
      <3> QED BY <1>3, <3>2, <3>3
    <2>3. PollRight'
      <3>1. quiet' = quiet /\ Longest + sincePoll' = Longest
        BY <1>1, <1>8, GuestFacts
      <3> QED BY <1>1, <2>2, <3>1 DEF PollRight, PathOf
    <2> QED BY <1>5, <1>6, <2>1, <2>3 DEF GuestInv
  <1> QED BY <1>7, <1>8

\* What the user and the server do is trouble as well, until a poll has seen it.
LEMMA ChangeSteps ==
    ASSUME GuestInv,
           \/ \E g \in Guests, p \in {NoIcon} \cup Paths : EditGuest(g, p)
           \/ \E p \in Paths : Upload(p)
    PROVE  GuestInv'
  <1>1. /\ quiet' = 0
        /\ UNCHANGED <<details, detailAge, denied, unsupported, probes, probing, icons,
                       sincePoll, sinceAsked, spared>>
        /\ files \subseteq files' /\ files' \in SUBSET Paths
        /\ config' \in [Guests -> Pictures]
    BY DEF EditGuest, Upload, GuestInv, GuestTypeOK, Pictures
  <1>2. GuestTypeOK' /\ AskedWhenStamped' /\ ShownFound'
    BY <1>1, GuestFacts DEF GuestInv, GuestTypeOK, AskedWhenStamped, ShownFound
  <1> QED BY <1>1, <1>2, AfterTrouble

\* Time passing takes nothing from what was read quietly, and polls come in time or
\* it was not quiet.
LEMMA GuestTickStep == ASSUME GuestInv, GuestTick PROVE GuestInv'
  <1>1. /\ detailAge' = Later(detailAge, DetailTTL)
        /\ sinceAsked' = Later(sinceAsked, DetailTTL)
        /\ sincePoll' = Later(sincePoll, PollGap)
        /\ quiet' = IF sincePoll = PollGap THEN 0 ELSE Later(quiet, Settled)
        /\ UNCHANGED <<config, files, details, denied, unsupported, probing, icons, spared>>
        /\ probing = FALSE
    BY DEF GuestTick, GuestInv, GuestTypeOK
  <1>2. /\ detailAge \in 0..DetailTTL /\ sincePoll \in 0..PollGap /\ quiet \in 0..Settled
        /\ sinceAsked = detailAge /\ Settled \in Nat
        /\ \A p \in Paths : probes[p] \in [exists : Verdicts, age : 0..ProbeTTL]
    BY GuestFacts DEF GuestInv, GuestTypeOK, AskedWhenStamped
  <1>3. ASSUME NEW p \in Paths
        PROVE  /\ probes'[p] \in [exists : Verdicts, age : 0..ProbeTTL]
               /\ probes'[p].exists = probes[p].exists
               /\ probes[p].exists = FALSE => probes'[p].age = Later(probes[p].age, ProbeTTL)
    <2>1. probes'[p] = IF probes[p].exists = FALSE
                       THEN [probes[p] EXCEPT !.age = Later(@, ProbeTTL)]
                       ELSE probes[p]
      BY DEF GuestTick
    <2>2. Later(probes[p].age, ProbeTTL) \in 0..ProbeTTL
      BY <1>2, LaterFacts, GuestFacts
    <2> QED BY <1>2, <2>1, <2>2
  <1>4. GuestTypeOK'
    <2>1. /\ detailAge' \in 0..DetailTTL /\ sinceAsked' \in 0..DetailTTL
          /\ sincePoll' \in 0..PollGap /\ quiet' \in 0..Settled
      BY <1>1, <1>2, LaterFacts, GuestFacts
    <2>2. probes' \in [Paths -> [exists : Verdicts, age : 0..ProbeTTL]]
      BY <1>3 DEF GuestTick
    <2> QED BY <1>1, <2>1, <2>2 DEF GuestInv, GuestTypeOK
  <1>5. AskedWhenStamped' /\ ShownFound'
    BY <1>1, <1>2, <1>3 DEF GuestInv, AskedWhenStamped, ShownFound, GuestTypeOK, Pictures
  <1>6. CASE sincePoll = PollGap
    BY <1>1, <1>4, <1>5, <1>6, AfterTrouble
  <1>7. CASE sincePoll # PollGap
    <2>1. quiet' <= quiet + 1 /\ quiet' \in Nat /\ sincePoll' = sincePoll + 1
      <3>1. quiet' = Later(quiet, Settled)
        BY <1>1, <1>7
      <3>2. Later(quiet, Settled) \in 0..Settled /\ Later(quiet, Settled) <= quiet + 1
        BY <1>2, LaterFacts
      <3>3. sincePoll' = sincePoll + 1
        BY <1>1, <1>2, <1>7, GuestFacts DEF Later
      <3> QED BY <1>2, <3>1, <3>2, <3>3
    <2>2. detailAge' < DetailTTL /\ detailAge' < quiet'
             => detailAge < DetailTTL /\ detailAge < quiet
      BY <1>1, <1>2, <2>1, LaterYounger, GuestFacts
    <2>3. ASSUME NEW p \in Paths, probes'[p].exists = FALSE, probes'[p].age < ProbeTTL,
                 probes'[p].age < quiet'
          PROVE  p \notin files
      <3>1. probes[p].exists = FALSE /\ probes'[p].age = Later(probes[p].age, ProbeTTL)
        BY <1>3, <2>3
      <3>2. probes[p].age \in 0..ProbeTTL
        BY <1>2
      <3>3. probes[p].age < ProbeTTL /\ probes[p].age < quiet
        <4>1. ProbeTTL \in Nat /\ quiet \in Nat
          BY <1>2, GuestFacts
        <4> QED BY <2>1, <2>3, <3>1, <3>2, <4>1, LaterYounger
      <3> QED BY <3>1, <3>3 DEF GuestInv, ReadQuietly
    <2>4. ReadQuietly'
      BY <1>1, <2>2, <2>3 DEF GuestInv, ReadQuietly
    <2>5. quiet' >= Longest + sincePoll' => quiet >= Longest + sincePoll
      BY <1>2, <2>1, GuestFacts
    <2>6. PollRight'
      BY <1>1, <2>5 DEF GuestInv, PollRight, PathOf
    <2> QED BY <1>4, <1>5, <2>4, <2>6 DEF GuestInv
  <1> QED BY <1>6, <1>7

\* The invariant of the guests' icons is inductive.
LEMMA GuestStep == GuestInv /\ [GuestNext]_guestVars => GuestInv'
  <1> SUFFICES ASSUME GuestInv, [GuestNext]_guestVars PROVE GuestInv'
    OBVIOUS
  <1>1. CASE UseDetails
    BY <1>1, UseStep
  <1>2. CASE DetailsAnswer
    BY <1>2, AnswerStep
  <1>3. CASE DetailsFail(TRUE, FALSE) \/ DetailsFail(FALSE, TRUE) \/ DetailsFail(FALSE, FALSE)
    BY <1>3, FailStep
  <1>4. CASE \E failing \in SUBSET Paths : ProbeIcons(failing)
    BY <1>4, ProbeStep
  <1>5. CASE \/ \E g \in Guests, p \in {NoIcon} \cup Paths : EditGuest(g, p)
             \/ \E p \in Paths : Upload(p)
    BY <1>5, ChangeSteps
  <1>6. CASE GuestTick
    BY <1>6, GuestTickStep
  <1>7. CASE UNCHANGED guestVars
    BY <1>7
    DEF guestVars, GuestInv, GuestTypeOK, AskedWhenStamped, ShownFound, ReadQuietly,
        PollRight, PathOf
  <1> QED BY <1>1, <1>2, <1>3, <1>4, <1>5, <1>6, <1>7 DEF GuestNext

\* The invariant of the guests' icons holds throughout.
LEMMA GuestInvariant == GuestSpec => []GuestInv
  BY GuestStart, GuestStep, PTL DEF GuestSpec

\* A changed icon appears within the longer of the two times to live and one poll
\* more, for any guests and lifetimes, unless something changed or failed or polls
\* stayed away: no cached configuration or verdict outlasts it (GuestIconCache).
THEOREM IconsAlwaysCatchUp == GuestSpec => []IconsCatchUp
  <1>1. GuestInv => IconsCatchUp
    <2> SUFFICES ASSUME GuestInv, ~denied, quiet = Settled, NEW g \in Guests
                 PROVE  icons[g] = IF PathOf(g, config) \in files
                                   THEN PathOf(g, config) ELSE NoIcon
      BY DEF IconsCatchUp
    <2>1. quiet >= Longest + sincePoll
      BY GuestFacts DEF GuestInv, GuestTypeOK
    <2> QED BY <2>1 DEF GuestInv, PollRight
  <1> QED BY <1>1, GuestInvariant, PTL

\* A picture that is right stays, whatever fails, for any guests (_async_details keeps
\* its entry, and async_icon_url never asks again for what it has found).
THEOREM PicturesAlwaysStay == GuestSpec => PicturesStay
  <1> DEFINE Stays == \A g \in Guests :
          (icons[g] = PathOf(g, config) /\ details[g] = config[g] /\ config'[g] = config[g])
              => icons'[g] = icons[g] /\ details'[g] = config'[g]
  <1>1. GuestInv /\ [GuestNext]_guestVars => [Stays]_guestVars
    <2> SUFFICES ASSUME GuestInv, GuestNext, NEW g \in Guests,
                        icons[g] = PathOf(g, config), details[g] = config[g],
                        config'[g] = config[g]
                 PROVE  icons'[g] = icons[g] /\ details'[g] = config'[g]
      OBVIOUS
    <2>1. CASE UseDetails \/ GuestTick \/ \E p \in Paths : Upload(p)
      BY <2>1 DEF UseDetails, GuestTick, Upload
    <2>2. CASE DetailsAnswer
      BY <2>2 DEF DetailsAnswer, AskDetails
    <2>3. CASE DetailsFail(TRUE, FALSE) \/ DetailsFail(FALSE, TRUE) \/ DetailsFail(FALSE, FALSE)
      BY <2>3 DEF DetailsFail, AskDetails, Previous
    <2>4. CASE \E h \in Guests, p \in {NoIcon} \cup Paths : EditGuest(h, p)
      BY <2>4 DEF EditGuest
    <2>5. ASSUME NEW failing \in SUBSET Paths, ProbeIcons(failing)
          PROVE  icons'[g] = icons[g] /\ details'[g] = config'[g]
      <3>1. PathOf(g, details) = icons[g] /\ icons[g] \in Paths
        BY PathTyped DEF PathOf, GuestInv, GuestTypeOK
      <3>2. probes[icons[g]].exists = TRUE
        BY <3>1, GuestFacts DEF GuestInv, ShownFound
      <3>3. probes'[icons[g]].exists = TRUE
        BY <2>5, <3>1, <3>2, ProbeVerdicts
      <3>4. icons'[g] = IF probes'[PathOf(g, details)].exists
                        THEN PathOf(g, details) ELSE NoIcon
        BY <2>5 DEF ProbeIcons
      <3> QED BY <2>5, <3>1, <3>3, <3>4 DEF ProbeIcons
    <2> QED BY <2>1, <2>2, <2>3, <2>4, <2>5 DEF GuestNext
  <1> QED BY <1>1, GuestInvariant, PTL DEF GuestSpec, PicturesStay

\* The floor holds over failures, denials and guests that are never listed, for any
\* lifetimes, because an attempt is stamped whatever comes of it (_async_details).
THEOREM EndpointAlwaysSpared == GuestSpec => []EndpointSpared
  <1>1. GuestInit => EndpointSpared
    BY DEF GuestInit, EndpointSpared
  <1>2. GuestInv /\ EndpointSpared /\ [GuestNext]_guestVars => EndpointSpared'
    <2> SUFFICES ASSUME GuestInv, EndpointSpared, [GuestNext]_guestVars
                 PROVE  EndpointSpared'
      OBVIOUS
    <2>1. ASSUME NEW fetched, AskDetails(fetched)
          PROVE  EndpointSpared'
      <3>1. ~denied /\ ~(detailAge < (IF Unknown THEN RetryTTL ELSE DetailTTL))
        BY <2>1 DEF AskDetails, DetailsKept
      <3>2. unsupported => ~Unknown
        BY DEF Unknown
      <3>3. sinceAsked >= (IF unsupported THEN DetailTTL ELSE RetryTTL)
        BY <3>1, <3>2, GuestFacts DEF GuestInv, GuestTypeOK, AskedWhenStamped
      <3> QED BY <2>1, <3>1, <3>3 DEF AskDetails, EndpointSpared
    <2>2. CASE \/ DetailsAnswer \/ DetailsFail(TRUE, FALSE)
               \/ DetailsFail(FALSE, TRUE) \/ DetailsFail(FALSE, FALSE)
      BY <2>1, <2>2 DEF DetailsAnswer, DetailsFail
    <2>3. CASE \/ UseDetails \/ GuestTick
               \/ \E failing \in SUBSET Paths : ProbeIcons(failing)
               \/ \E g \in Guests, p \in {NoIcon} \cup Paths : EditGuest(g, p)
               \/ \E p \in Paths : Upload(p)
               \/ UNCHANGED guestVars
      BY <2>3
      DEF UseDetails, GuestTick, ProbeIcons, EditGuest, Upload, guestVars, EndpointSpared
    <2> QED BY <2>2, <2>3 DEF GuestNext
  <1> QED BY <1>1, <1>2, GuestInvariant, PTL DEF GuestSpec
===============================================================================
