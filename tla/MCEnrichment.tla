---------------------------- MODULE MCEnrichment ----------------------------
(***************************************************************************)
(* The enrichment of a poll, for TLC: the templates of the containers, the *)
(* port of a web link, the stacks, the CPU figures, the guests' icons and  *)
(* the proxy they are shown through. These share no state, so a behaviour  *)
(* is of one part, and the others stand still; their product would show    *)
(* nothing more.                                                           *)
(***************************************************************************)
EXTENDS DockerTemplates, WebLinks, ComposeStacks, DockerStats, GuestIcons, IconProxy, TLC

VARIABLE part   \* the part that moves

MCInit ==
    /\ part \in {"templates", "link", "stacks", "stats", "guests", "proxy"}
    /\ DockerInit /\ StackInit /\ ProxyInit
    /\ StatsInit /\ (part # "stats" => ~modern)
    /\ GuestInit /\ (part # "guests" => config = NoDetails /\ files = {})
    /\ IF part = "link" THEN LinkInit
       ELSE live = <<>> /\ onHost = FALSE /\ pairs = <<>> /\ link = LinkOf(live)

MCNext ==
    /\ UNCHANGED part
    /\ \/ part = "templates" /\ DockerNext /\ UNCHANGED <<linkVars, stackVars, statsVars, guestVars, proxyVars>>
       \/ part = "link" /\ LinkNext /\ UNCHANGED <<dockerVars, stackVars, statsVars, guestVars, proxyVars>>
       \/ part = "stacks" /\ StackNext /\ UNCHANGED <<dockerVars, linkVars, statsVars, guestVars, proxyVars>>
       \/ part = "stats" /\ StatsNext /\ UNCHANGED <<dockerVars, linkVars, stackVars, guestVars, proxyVars>>
       \/ part = "guests" /\ GuestNext /\ UNCHANGED <<dockerVars, linkVars, stackVars, statsVars, proxyVars>>
       \/ part = "proxy" /\ ProxyNext /\ UNCHANGED <<dockerVars, linkVars, stackVars, statsVars, guestVars>>

MCSpec ==
    MCInit /\ [][MCNext]_<<part, dockerVars, linkVars, stackVars, statsVars, guestVars, proxyVars>>

\* The cfg gives Names and Tokens the same elements: they never meet, and one swap
\* of them does for both.
MCSymmetry == Permutations(Names) \cup Permutations(Requests)
===============================================================================
