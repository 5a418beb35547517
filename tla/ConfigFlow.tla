------------------------------ MODULE ConfigFlow ------------------------------
(***************************************************************************)
(* The config flows (config_flow_handler): a form asks for connection      *)
(* details, validate_connection tries them on the server, and what worked  *)
(* becomes an entry, or the data of the entry the flow was started for.    *)
(*                                                                         *)
(* Flows run side by side, each waiting for its form or for the server.    *)
(* Everything a flow does between two waits happens at once. An entry's    *)
(* unique id stands for its name and its title as well.                    *)
(***************************************************************************)
EXTENDS FiniteSets

CONSTANTS
    Flows,       \* flows that can be in progress at a time
    Slots,       \* entries there is room for
    Names,       \* names, by their slug
    Hosts, Secrets,   \* host with port and TLS settings; API tokens
    NoFlow,      \* no flow is in progress
    Unfilled     \* no entry, and a form that is not filled in

VARIABLES
    entries,     \* the config entries: unique id, host and token
    flows,       \* what each flow is for, and what it is trying
    accepts,     \* the connections the server accepts
    validated    \* history: those it has accepted when a flow asked

flowVars == <<entries, flows, accepts, validated>>

Connections == [host : Hosts, token : Secrets]
Entries == [id : Names, host : Hosts, token : Secrets]
Kinds == {"user", "reconfigure", "reauth"}
FlowStates ==
    [kind : Kinds, target : Slots \cup {Unfilled}, name : Names \cup {Unfilled},
     trying : Connections \cup {Unfilled}]

ASSUME FlowAssumption ==
    /\ Unfilled \notin Names \cup Slots \cup Connections \cup Entries
    /\ NoFlow \notin FlowStates

Connection(entry) == [host |-> entry.host, token |-> entry.token]
Taken == {s \in Slots : entries[s] # Unfilled}

FlowInit ==
    /\ entries = [s \in Slots |-> Unfilled]
    /\ flows = [f \in Flows |-> NoFlow]
    /\ accepts = Connections
    /\ validated = {}

\* A flow that shows its form; target is the entry it is for, if there is one.
Form(kind, target) == [kind |-> kind, target |-> target, name |-> Unfilled, trying |-> Unfilled]

\* The user adds an entry or reconfigures one, or the coordinator's
\* ConfigEntryAuthFailed asks for a new token, which it does once at a time.
StartFlow(f, kind, target) ==
    /\ flows[f] = NoFlow
    /\ IF kind = "user" THEN target = Unfilled ELSE target \in Taken
    /\ kind = "reauth" => Form(kind, target) \notin {[flows[g] EXCEPT !.trying = Unfilled] :
                                                     g \in {h \in Flows : flows[h] # NoFlow}}
    /\ flows' = [flows EXCEPT ![f] = Form(kind, target)]
    /\ UNCHANGED <<entries, accepts, validated>>

\* The details to be tried. Reauthentication asks for a token only, and merges it
\* into the entry's data as that is now (async_step_reauth_confirm).
Merged(f, input) ==
    IF flows[f].kind = "reauth" THEN [input EXCEPT !.host = entries[flows[f].target].host]
    ELSE input

\* The form is sent; _validate begins.
Submit(f, name, input) ==
    /\ flows[f] # NoFlow /\ flows[f].trying = Unfilled
    /\ flows' = [flows EXCEPT ![f].name = IF @ = Unfilled /\ flows[f].kind = "user" THEN name ELSE @,
                              ![f].trying = Merged(f, input)]
    /\ UNCHANGED <<entries, accepts, validated>>

\* validate_connection: the server answers /osinfo with these details.
Validates(f) == flows[f].trying \in accepts

\* Any exception: the form is shown again (_map_exception_to_error).
ValidateFails(f) ==
    /\ flows[f] # NoFlow /\ flows[f].trying # Unfilled
    /\ flows' = [flows EXCEPT ![f] = Form(@.kind, @.target)]
    /\ UNCHANGED <<entries, accepts, validated>>

\* Mutant: the token is merged into the entry's data when it has been tried.
StoredLate(f) ==
    IF flows[f].kind = "reauth"
    THEN [flows[f].trying EXCEPT !.host = entries[flows[f].target].host]
    ELSE flows[f].trying

\* async_update_reload_and_abort(entry, data=...): what was tried.
Stored(f) == flows[f].trying

\* Mutant: a name that is taken is not looked for.
NotConfigured(name) == TRUE

\* _abort_if_unique_id_configured lets the flow go on.
NameFree(name) == \A s \in Taken : entries[s].id # name

\* The connection works, and the flow ends: async_step_user with a new entry, or
\* none if the name is taken, the other steps with new data for theirs.
ValidateSucceeds(f) ==
    LET flow == flows[f]
    IN  /\ flow # NoFlow /\ Validates(f)
        /\ validated' = validated \cup {flow.trying}
        /\ flows' = [flows EXCEPT ![f] = NoFlow]
        /\ IF flow.kind # "user"
           THEN entries' = [entries EXCEPT
                    ![flow.target] = [@ EXCEPT !.host = Stored(f).host, !.token = Stored(f).token]]
           ELSE IF NameFree(flow.name)
           THEN \E s \in Slots \ Taken :
                    entries' = [entries EXCEPT
                        ![s] = [id |-> flow.name, host |-> Stored(f).host, token |-> Stored(f).token]]
           ELSE UNCHANGED entries
        /\ UNCHANGED accepts

\* The user closes the form, even while the details are being tried.
CloseFlow(f) ==
    /\ flows[f] # NoFlow
    /\ flows' = [flows EXCEPT ![f] = NoFlow]
    /\ UNCHANGED <<entries, accepts, validated>>

\* An entry is deleted; Home Assistant ends the flows that are for it.
DeleteEntry(s) ==
    /\ s \in Taken
    /\ entries' = [entries EXCEPT ![s] = Unfilled]
    /\ flows' = [f \in Flows |-> IF flows[f] # NoFlow /\ flows[f].target = s THEN NoFlow
                                ELSE flows[f]]
    /\ UNCHANGED <<accepts, validated>>

\* A token is revoked on the server, or made anew.
TokenChanges(connection) ==
    /\ accepts' = IF connection \in accepts THEN accepts \ {connection}
                  ELSE accepts \cup {connection}
    /\ UNCHANGED <<entries, flows, validated>>

FlowNext ==
    \/ \E f \in Flows, target \in Slots \cup {Unfilled}, kind \in Kinds :
          StartFlow(f, kind, target)
    \/ \E f \in Flows, name \in Names, input \in Connections : Submit(f, name, input)
    \/ \E f \in Flows : ValidateFails(f) \/ ValidateSucceeds(f) \/ CloseFlow(f)
    \/ \E s \in Slots : DeleteEntry(s)
    \/ \E connection \in Connections : TokenChanges(connection)

FlowSpec == FlowInit /\ [][FlowNext]_flowVars

-------------------------------------------------------------------------------
\* No entry has a host and a token that the server has not accepted together,
\* however reconfiguring and reauthenticating it overlap (async_step_reauth_confirm).
StoredWasAccepted == \A s \in Taken : Connection(entries[s]) \in validated

\* No two entries have the same identity, whichever flows were under way at once
\* (async_step_user, which takes the identity only when the details have been tried).
IdentityUnique ==
    \A s, t \in Taken : entries[s].id = entries[t].id => s = t
===============================================================================
