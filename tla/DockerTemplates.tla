---------------------------- MODULE DockerTemplates ----------------------------
(***************************************************************************)
(* The Docker containers of a poll (coordinator/base.py) and the cache of  *)
(* their templates (coordinator/docker_templates.py): the container list   *)
(* and the engine's list are asked for together and answer or fail on      *)
(* their own, are merged or carried forward, and the id that the engine    *)
(* gives a container decides whether its template is fetched again.        *)
(*                                                                         *)
(* MOS makes a container anew when its template is edited, so the number   *)
(* of times it was made stands for its id, for the rest of what the engine *)
(* says of it, and for its template's version.                             *)
(***************************************************************************)
EXTENDS Naturals

CONSTANTS
    Names,       \* names of containers
    MaxMade,     \* how often a container is made
    Absent,      \* no such container in a list
    Waiting, Failed    \* a list not answered yet, and one that failed

ASSUME DockerAssumption ==
    /\ MaxMade \in Nat
    /\ Absent \notin Nat
    /\ Waiting # Failed
    /\ \A list \in SUBSET Names : list \notin {Waiting, Failed}
    /\ \A list \in [Names -> 0..MaxMade] : list \notin {Waiting, Failed}

VARIABLES
    made,        \* how often the server made each container; 0: never
    there,       \* the containers the server has
    phase,       \* of the poll: idle, asking for lists, or fetching templates
    listed,      \* the names of /docker/mos/containers
    engine,      \* the ids of /docker/containers/json
    rows,        \* the containers of the poll under way, with their ids
    todo,        \* those whose templates async_refresh is about to fetch
    templates,   \* _entries: the id and the version of each cached template
    data,        \* self.data["docker_containers"], with their ids
    heard,       \* history: the id of each container in the last engine list that
                 \* answered, or under which its template was answered since
    news,        \* history: containers such a list gave another id, or that the
                 \* container list left out, since their template was answered
    calm         \* history: nothing failed or changed since the poll started

dockerVars == <<made, there, phase, listed, engine, rows, todo, templates, data,
                heard, news, calm>>

NoId == 0
Ids == 0..MaxMade
NoTemplate == [id |-> NoId, version |-> Absent]
NoRows == [n \in Names |-> Absent]
In(list) == {n \in Names : list[n] # Absent}

DockerInit ==
    /\ made = [n \in Names |-> 0] /\ there = {}
    /\ phase = "idle" /\ listed = Waiting /\ engine = Waiting
    /\ rows = NoRows /\ todo = {}
    /\ templates = [n \in Names |-> NoTemplate]
    /\ data = NoRows
    /\ heard = [n \in Names |-> NoId] /\ news = Names /\ calm = FALSE

\* _build_update_tasks: both lists are asked for.
AskLists ==
    /\ phase = "idle"
    /\ phase' = "asking" /\ listed' = Waiting /\ engine' = Waiting
    /\ calm' = TRUE
    /\ UNCHANGED <<made, there, rows, todo, templates, data, heard, news>>

ListAnswers ==
    /\ phase = "asking" /\ listed = Waiting
    /\ listed' = there
    /\ UNCHANGED <<made, there, phase, engine, rows, todo, templates, data, heard, news, calm>>

EngineAnswers ==
    /\ phase = "asking" /\ engine = Waiting
    /\ engine' = [n \in Names |-> IF n \in there THEN made[n] ELSE NoId]
    /\ UNCHANGED <<made, there, phase, listed, rows, todo, templates, data, heard, news, calm>>

ListFails ==
    /\ phase = "asking" /\ listed = Waiting
    /\ listed' = Failed /\ calm' = FALSE
    /\ UNCHANGED <<made, there, phase, engine, rows, todo, templates, data, heard, news>>

EngineFails ==
    /\ phase = "asking" /\ engine = Waiting
    /\ engine' = Failed /\ calm' = FALSE
    /\ UNCHANGED <<made, there, phase, listed, rows, todo, templates, data, heard, news>>

\* Another resource takes the poll down; what the lists said is forgotten.
PollDies ==
    /\ phase = "asking" /\ listed # Waiting /\ engine # Waiting
    /\ phase' = "idle" /\ listed' = Waiting /\ engine' = Waiting
    /\ calm' = FALSE
    /\ UNCHANGED <<made, there, rows, todo, templates, data, heard, news>>

\* The containers to show: a list that failed is retained (_retain_last_known_good).
Shown == IF listed = Failed THEN In(data) ELSE listed

\* Mutant: the id is not among the fields that are carried forward.
MergedWithoutId ==
    [n \in Names |->
        IF n \notin Shown THEN Absent
        ELSE IF engine # Failed THEN engine[n]
        ELSE NoId]

\* _carry_forward_docker_engine_state, over a new row that has no id.
CarriedId(n) == IF data[n] # Absent THEN data[n] ELSE NoId

\* _merge_docker_engine_state, or the ids carried forward without the engine's list.
Merged ==
    [n \in Names |->
        IF n \notin Shown THEN Absent
        ELSE IF engine # Failed THEN engine[n]
        ELSE CarriedId(n)]

\* Mutant: the cache goes by the names alone.
DueByName(row) ==
    {n \in In(row) : templates[n] = NoTemplate}

\* async_refresh: containers that are new or have been made anew.
Due(row) ==
    {n \in In(row) : templates[n] = NoTemplate \/ templates[n].id # row[n]}

\* _async_update_data up to the templates. The cache is not looked at when there
\* are no containers at all (_async_add_docker_template_data).
MergeLists ==
    /\ phase = "asking" /\ listed # Waiting /\ engine # Waiting
    /\ phase' = "templates"
    /\ rows' = Merged
    /\ todo' = Due(Merged)
    /\ templates' = IF Shown = {} THEN templates
                    ELSE [n \in Names |-> IF n \in Shown THEN templates[n] ELSE NoTemplate]
    /\ heard' = IF engine = Failed THEN heard ELSE engine
    /\ news' = news
         \cup (IF engine = Failed THEN {} ELSE {n \in Names : engine[n] # heard[n]})
         \cup (IF listed = Failed THEN {} ELSE Names \ listed)
    /\ listed' = Waiting /\ engine' = Waiting
    /\ UNCHANGED <<made, there, data, calm>>

\* The template, or the news that there is none.
TemplateAnswers(n) ==
    /\ n \in todo
    /\ todo' = todo \ {n}
    /\ templates' = [templates EXCEPT ![n] = [id |-> rows[n], version |-> made[n]]]
    /\ heard' = [heard EXCEPT ![n] = rows[n]] /\ news' = news \ {n}
    /\ UNCHANGED <<made, there, phase, listed, engine, rows, data, calm>>

\* Mutant: the failure is filed under the new id.
TemplateFailsFiled(n) ==
    /\ n \in todo
    /\ todo' = todo \ {n}
    /\ templates' = IF templates[n] = NoTemplate THEN templates
                    ELSE [templates EXCEPT ![n].id = rows[n]]
    /\ calm' = FALSE
    /\ UNCHANGED <<made, there, phase, listed, engine, rows, data, heard, news>>

\* Any other error: the entry stays as it is, to be fetched next time.
TemplateFails(n) ==
    /\ n \in todo
    /\ todo' = todo \ {n}
    /\ calm' = FALSE
    /\ UNCHANGED <<made, there, phase, listed, engine, rows, templates, data, heard, news>>

\* The enrichment is over and Home Assistant assigns the data.
PublishContainers ==
    /\ phase = "templates" /\ todo = {}
    /\ phase' = "idle"
    /\ data' = rows /\ rows' = NoRows
    /\ UNCHANGED <<made, there, listed, engine, todo, templates, heard, news, calm>>

\* A container is created, or recreated with an edited template.
MakeContainer(n) ==
    /\ made[n] < MaxMade
    /\ made' = [made EXCEPT ![n] = @ + 1]
    /\ there' = there \cup {n}
    /\ calm' = FALSE
    /\ UNCHANGED <<phase, listed, engine, rows, todo, templates, data, heard, news>>

RemoveContainer(n) ==
    /\ n \in there
    /\ there' = there \ {n}
    /\ calm' = FALSE
    /\ UNCHANGED <<made, phase, listed, engine, rows, todo, templates, data, heard, news>>

DockerNext ==
    \/ AskLists \/ ListAnswers \/ EngineAnswers \/ ListFails \/ EngineFails
    \/ PollDies \/ MergeLists \/ PublishContainers
    \/ \E n \in Names :
          \/ TemplateAnswers(n)
          \/ TemplateFails(n)
          \/ MakeContainer(n)
          \/ RemoveContainer(n)

DockerSpec == DockerInit /\ [][DockerNext]_dockerVars

-------------------------------------------------------------------------------
\* The template filed under an id is never one from before that id, however the
\* container is made anew between the lists and the template request, and
\* whichever of them fail: an older one would keep its port mapping for good, as
\* nothing would fetch it again (async_refresh).
TemplateNotOlder ==
    \A n \in Names :
        (templates[n] # NoTemplate /\ templates[n].id # NoId)
            => templates[n].version >= templates[n].id

\* A template is asked for again only if a list that answered gave cause, or the
\* last request failed: neither an outage of the engine's proxy nor one of the
\* container list makes the poll fetch what it has (async_refresh,
\* _carry_forward_docker_engine_state).
NoNeedlessFetch == todo \subseteq news

\* After a poll in which nothing failed or changed, every container's template is
\* the one the server has, whatever happened before.
TemplatesCurrent ==
    (phase = "idle" /\ calm) => \A n \in In(data) : templates[n].version = made[n]
===============================================================================
