------------------------------- MODULE GuestIcons -------------------------------
(***************************************************************************)
(* GuestIconCache (coordinator/guest_icons.py): which picture on the MOS   *)
(* server belongs to a guest. That takes its configuration, read from an   *)
(* endpoint that the poll itself does not ask and kept for a while, and    *)
(* whether the file it names exists, of which only a No is asked again.    *)
(*                                                                         *)
(* One endpoint: LXC containers and VMs each have their own. Docker        *)
(* containers and stacks have none and are as guests that theirs never     *)
(* lists. A poll reads the configuration first and the files afterwards;   *)
(* the clock stands still meanwhile.                                       *)
(***************************************************************************)
EXTENDS Naturals

CONSTANTS
    Guests,      \* names of guests, which are the paths of their own icons
    OsIcon,      \* the path of the stock icon
    NoIcon,      \* no icon, and no entry
    DetailTTL,   \* _DETAIL_TTL_SECONDS
    RetryTTL,    \* _DETAIL_RETRY_SECONDS
    ProbeTTL,    \* _MISS_TTL_SECONDS
    PollGap      \* the longest time between two polls

ASSUME GuestAssumption ==
    /\ DetailTTL \in Nat \ {0} /\ RetryTTL \in Nat /\ RetryTTL <= DetailTTL
    /\ ProbeTTL \in Nat \ {0} /\ PollGap \in Nat \ {0}
    /\ OsIcon \notin Guests /\ NoIcon \notin Guests \cup {OsIcon} \cup BOOLEAN

VARIABLES
    config,      \* the path each guest's configuration names; NoIcon: not listed
    files,       \* the icons on the server
    details,     \* _details: the paths the configuration named when it was read
    detailAge,   \* how long ago it was asked for; DetailTTL at first and at most
    denied,      \* the endpoint is in _denied
    unsupported, \* and in _unsupported
    probes,      \* _probes: of each path, whether it exists and since when known
    probing,     \* a poll has its configurations and looks for the files
    icons,       \* the icon_url of each guest
    sincePoll,   \* time since the last poll ended, up to PollGap
    quiet,       \* history: how long nothing has changed or failed, up to Settled
    sinceAsked,  \* history: time since the endpoint was asked, up to DetailTTL
    spared       \* history: it was never asked sooner than it may be

guestVars == <<config, files, details, detailAge, denied, unsupported, probes, probing,
               icons, sincePoll, quiet, sinceAsked, spared>>

Paths == Guests \cup {OsIcon}
NoDetails == [g \in Guests |-> NoIcon]
NoProbe == [exists |-> NoIcon, age |-> 0]

\* The longest that a changed icon takes to appear.
Settled == (IF DetailTTL > ProbeTTL THEN DetailTTL ELSE ProbeTTL) + PollGap

GuestInit ==
    /\ config \in [Guests -> {NoIcon} \cup Paths]
    /\ \A g \in Guests : config[g] \in {NoIcon, g, OsIcon}
    /\ files \in SUBSET Paths
    /\ details = NoDetails /\ detailAge = DetailTTL
    /\ denied = FALSE /\ unsupported = FALSE
    /\ probes = [p \in Paths |-> NoProbe]
    /\ probing = FALSE
    /\ icons = NoDetails
    /\ sincePoll = PollGap /\ quiet = 0 /\ sinceAsked = DetailTTL
    /\ spared = TRUE

\* A guest that is not among the details is unknown: each one the poll lists is new,
\* or is never listed there.
Unknown == ~unsupported /\ \E g \in Guests : details[g] = NoIcon

\* _async_details: the cached configuration has to do for this poll.
DetailsKept == denied \/ detailAge < (IF Unknown THEN RetryTTL ELSE DetailTTL)

UseDetails ==
    /\ ~probing /\ DetailsKept
    /\ probing' = TRUE
    /\ UNCHANGED <<config, files, details, detailAge, denied, unsupported, probes, icons,
                   sincePoll, quiet, sinceAsked, spared>>

\* Mutant: only a fetch that succeeds is stamped.
StampedOnSuccess(fetched) == IF fetched THEN 0 ELSE detailAge

\* The timestamp is written on every attempt.
Stamped(fetched) == 0

\* What asking the endpoint has in common, however it ends.
AskDetails(fetched) ==
    /\ ~probing /\ ~DetailsKept
    /\ probing' = TRUE
    /\ detailAge' = Stamped(fetched) /\ sinceAsked' = 0
    /\ spared' = (spared /\ ~denied /\ sinceAsked >= (IF unsupported THEN DetailTTL ELSE RetryTTL))
    /\ UNCHANGED <<config, files, probes, icons, sincePoll>>

DetailsAnswer ==
    /\ AskDetails(TRUE)
    /\ details' = config
    /\ unsupported' = FALSE
    /\ UNCHANGED <<denied, quiet>>

\* Mutant: a failure leaves nothing to go by.
Forgotten == NoDetails

\* A failed fetch keeps the previous entry.
Previous == details

\* The three kinds of failure: a scope denial, a 404, and any other.
DetailsFail(denial, missing) ==
    /\ AskDetails(FALSE)
    /\ details' = Previous
    /\ denied' = denial
    /\ unsupported' = (unsupported \/ missing)
    /\ quiet' = 0

\* lxc_icon_path, vm_icon_path: a guest that is not covered goes by its own name.
PathOf(g, known) == IF known[g] = NoIcon THEN g ELSE known[g]

\* Mutant: an absence is believed as firmly as an icon.
ProbeKeptForGood(p) == probes[p].exists # NoIcon

\* async_icon_url need not look.
ProbeKept(p) == probes[p].exists = TRUE \/ (probes[p].exists = FALSE /\ probes[p].age < ProbeTTL)

\* async_static_asset_exists: a request that fails is an icon that does not exist.
Exists(p, failing) == p \in files \ failing

\* async_add_lxc_icons and async_add_vm_icons: every guest's file is looked for.
ProbeIcons(failing) ==
    LET looked == {p \in Paths : ~ProbeKept(p) /\ \E g \in Guests : PathOf(g, details) = p}
    IN  /\ probing /\ failing \subseteq looked
        /\ probing' = FALSE /\ sincePoll' = 0
        /\ probes' = [p \in Paths |->
                IF p \in looked THEN [exists |-> Exists(p, failing), age |-> 0] ELSE probes[p]]
        /\ icons' = [g \in Guests |->
                LET p == PathOf(g, details) IN IF probes'[p].exists THEN p ELSE NoIcon]
        /\ quiet' = IF failing = {} THEN quiet ELSE 0
        /\ UNCHANGED <<config, files, details, detailAge, denied, unsupported, sinceAsked, spared>>

\* A guest is edited, or becomes or ceases to be one that the endpoint lists.
EditGuest(g, p) ==
    /\ p \in {NoIcon, g, OsIcon} \ {config[g]}
    /\ config' = [config EXCEPT ![g] = p]
    /\ quiet' = 0
    /\ UNCHANGED <<files, details, detailAge, denied, unsupported, probes, probing, icons,
                   sincePoll, sinceAsked, spared>>

\* Artwork is uploaded. That it is taken away is not looked for.
Upload(p) ==
    /\ p \notin files
    /\ files' = files \cup {p}
    /\ quiet' = 0
    /\ UNCHANGED <<config, details, detailAge, denied, unsupported, probes, probing, icons,
                   sincePoll, sinceAsked, spared>>

Later(age, cap) == IF age < cap THEN age + 1 ELSE age

\* Time passes between polls; when no poll came for too long that counts as trouble.
GuestTick ==
    /\ ~probing
    /\ detailAge' = Later(detailAge, DetailTTL)
    /\ sinceAsked' = Later(sinceAsked, DetailTTL)
    /\ probes' = [p \in Paths |->
            IF probes[p].exists = FALSE THEN [probes[p] EXCEPT !.age = Later(@, ProbeTTL)]
            ELSE probes[p]]
    /\ sincePoll' = Later(sincePoll, PollGap)
    /\ quiet' = IF sincePoll = PollGap THEN 0 ELSE Later(quiet, Settled)
    /\ UNCHANGED <<config, files, details, denied, unsupported, probing, icons, spared>>

GuestNext ==
    \/ UseDetails \/ DetailsAnswer
    \/ DetailsFail(TRUE, FALSE) \/ DetailsFail(FALSE, TRUE) \/ DetailsFail(FALSE, FALSE)
    \/ \E failing \in SUBSET Paths : ProbeIcons(failing)
    \/ \E g \in Guests, p \in {NoIcon} \cup Paths : EditGuest(g, p)
    \/ \E p \in Paths : Upload(p)
    \/ GuestTick

GuestSpec == GuestInit /\ [][GuestNext]_guestVars

-------------------------------------------------------------------------------
\* Pictures catch up: when nothing has changed or failed for the longer of the two
\* times to live and one poll more, every guest shows the icon that its configuration
\* and the files on the server give it - unless the token may not read the
\* configuration, which is given up on (GuestIconCache).
IconsCatchUp ==
    (~probing /\ ~denied /\ quiet = Settled) =>
        \A g \in Guests :
            icons[g] = IF PathOf(g, config) \in files THEN PathOf(g, config) ELSE NoIcon

\* A picture that is right does not go because a request fails: as long as nothing
\* changes on the server, a poll shows it again (_async_details).
PicturesStay ==
    [][\A g \in Guests :
          (icons[g] = PathOf(g, config) /\ details[g] = config[g] /\ config'[g] = config[g])
              => icons'[g] = icons[g] /\ details'[g] = config'[g]]_guestVars

\* The endpoint is asked no more often than the floor allows, even when it keeps
\* failing or never lists a guest, and one the server does not have only as often as
\* the configuration expires; one that was refused is never asked again
\* (_DETAIL_RETRY_SECONDS).
EndpointSpared == spared
===============================================================================
