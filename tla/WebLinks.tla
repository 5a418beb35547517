------------------------------- MODULE WebLinks -------------------------------
(***************************************************************************)
(* The port a container's web link leads to (coordinator/                  *)
(* docker_templates.py). MOS stores the link with a placeholder that names *)
(* either side of a port mapping; every poll looks it up in the live ports *)
(* of the engine's list and in the pairs of the template.                  *)
(*                                                                         *)
(* The container is what it is at first; then it stops, and starts with    *)
(* the ports its template configures.                                      *)
(***************************************************************************)
EXTENDS Naturals, Sequences

CONSTANTS
    Ports,       \* port numbers
    Placeholder, \* the port in the link's [PORT:n]
    Unset,       \* a port that is not there
    Garbled,     \* one that is no number; a link that cannot be resolved
    MaxPorts     \* bound of a list of ports

ASSUME LinkAssumption ==
    /\ Placeholder \in Ports /\ MaxPorts \in Nat
    /\ Unset \notin Ports /\ Garbled \notin Ports \cup {Unset}

VARIABLES
    live,        \* "ports": what the engine reports while the container runs
    onHost,      \* network_mode = "host"
    pairs,       \* the ports of the template
    link         \* where the web link leads: a port, or Garbled for no link

linkVars == <<live, onHost, pairs, link>>

Published == [private : Ports, public : Ports \cup {Unset}, udp : BOOLEAN]
Configured == [container : Ports, host : Ports \cup {Unset, Garbled}, udp : BOOLEAN]
ListsOf(S) == UNION {[1..n -> S] : n \in 0..MaxPorts}

\* The places in a list, but for those of entries that say they are UDP (_is_udp).
Tcp(list) == {i \in DOMAIN list : ~list[i].udp}

\* Where a loop ends that returns at the first of these places.
Earliest(places) == CHOOSE i \in places : \A j \in places : i <= j

\* Mutant: the public side is tried first.
PublicFirst(n, ports) ==
    LET named == {i \in Tcp(ports) : ports[i].private = n /\ ports[i].public # Unset}
    IN  IF \E i \in Tcp(ports) : ports[i].public = n THEN n
        ELSE IF named = {} THEN Unset ELSE ports[Earliest(named)].public

\* The two loops of _resolve_port over the live ports.
FromLive(n, ports) ==
    LET named == {i \in Tcp(ports) : ports[i].private = n /\ ports[i].public # Unset}
    IN  IF named # {} THEN ports[Earliest(named)].public
        ELSE IF \E i \in Tcp(ports) : ports[i].public = n THEN n
        ELSE Unset

\* Its loop over the template, which takes the first pair with either side.
FromTemplate(n, configured) ==
    LET named == {i \in Tcp(configured) : /\ n \in {configured[i].container, configured[i].host}
                                          /\ configured[i].host # Unset}
    IN  IF named = {} THEN Garbled ELSE configured[Earliest(named)].host

\* _resolve_port.
PortOf(n, ports, host, configured) ==
    LET now == FromLive(n, ports)
    IN  IF now # Unset THEN now
        ELSE IF host THEN n
        ELSE FromTemplate(n, configured)

\* resolve_web_ui_url, of the container as the poll found it.
LinkOf(ports) == PortOf(Placeholder, ports, onHost, pairs)

LinkInit ==
    /\ live \in ListsOf(Published)
    /\ onHost \in BOOLEAN
    /\ pairs \in ListsOf(Configured)
    /\ link = LinkOf(live)

\* What Docker reports when it starts the container as configured: every container
\* port, and where it publishes it if that is a port.
Applied ==
    IF onHost THEN <<>>
    ELSE [i \in DOMAIN pairs |->
            [private |-> pairs[i].container, udp |-> pairs[i].udp,
             public |-> IF pairs[i].host \in Ports THEN pairs[i].host ELSE Unset]]

\* A poll while the container is stopped: Docker reports no ports.
LinkStopped ==
    /\ live' = <<>>
    /\ link' = LinkOf(live')
    /\ UNCHANGED <<onHost, pairs>>

\* A poll once it runs again.
LinkStarted ==
    /\ live' = Applied
    /\ link' = LinkOf(live')
    /\ UNCHANGED <<onHost, pairs>>

LinkNext == LinkStopped \/ LinkStarted

LinkSpec == LinkInit /\ [][LinkNext]_linkVars

-------------------------------------------------------------------------------
\* The link of a container that publishes ports leads to where Docker publishes
\* what the placeholder names: to a TCP port that a mapping of the named container
\* port has, else to the named port if it is itself published; and never to one
\* that only UDP has, unless the container is on the host's network (_resolve_port).
LinkLeadsToPort ==
    LET tcp == {live[i] : i \in {j \in DOMAIN live : ~live[j].udp}}
        ends == {m.public : m \in {k \in tcp : k.private = Placeholder}} \ {Unset}
    IN  /\ ends # {} => link \in ends
        /\ (ends = {} /\ Placeholder \in {m.public : m \in tcp}) => link = Placeholder
        /\ (ends = {} /\ onHost) => link = Placeholder
        /\ link \in Ports => \/ link \in {m.public : m \in tcp}
                             \/ onHost /\ link = Placeholder
                             \/ \E i \in DOMAIN pairs : pairs[i].host = link /\ ~pairs[i].udp
===============================================================================
