# A TLA+ model of the MOS integration

The repository is a Home Assistant custom integration: it polls a MOS server
over HTTP and presents what it answers as devices and entities. This directory
holds TLA+ modules that model the parts of it that keep state and react to
failures, TLC configurations that check them on small instances, and theorems
proved with TLAPS. Paths below are relative to `src/custom_components/mos/`.

## 1. The system

| Component | State it keeps | Operations | What makes it correct |
|---|---|---|---|
| Poll cycle, `coordinator/base.py` | per-resource bookkeeping: degraded, forbidden, unsupported, answered, stale; `data`, `last_update_success` | `_async_update_data` and the steps it calls | data the server once sent is kept through any failure; nothing is withdrawn for a hiccup nor shown as current for ever; scope denials withdraw their whole scope |
| Token streak, `coordinator/base.py` | a failure count and a start time per entry in `hass.data` | recorded on a 401, cleared on success, on a communication error and on unload | a prompt is earned, and a revoked token gets one |
| Entry lifecycle, `__init__.py` | state of the config entry | setup, unload, reload | coordinators come and go, the streak does not |
| Availability, `entity/base.py` | none of its own | `available` | what is displayed is what the coordinator has, although `always_update=False` keeps Home Assistant from notifying |
| Switch actions, `switch/`, `coordinator/base.py` | `data`, patched before the server confirms | `async_start_…`, `async_stop_…`, `_optimistically_patch_item` | a poll that was under way does not leave the switch wrong for good |
| API client, `api/client.py` | the request limiter: a semaphore and the next start time | `_api_wrapper` and one method per endpoint | the rate is kept; no slot is lost to a cancelled request; a rejected token, a narrow scope and a server in trouble are told apart |
| Permissions, `entity_utils/permissions.py`, tables of `const.py` | the scope told at setup | `has_read_access`, `has_write_access` | what is refused in advance, or never asked for again, is what the server refuses |
| Dynamic entities, `entity_utils/dynamic_entities.py` | items known, per platform | add and remove as resources change | the registries follow the data whichever platform lets go last |
| Device areas, `entity_utils/device_area.py` | the area of the server device | adopt, follow | a device stays where the user put it until the server comes there, and otherwise moves with the server |
| Template cache and links, `coordinator/docker_templates.py` | templates by container | fetch, keep, resolve a port | no template older than its container, no needless fetch, a link to the right port |
| Docker stats, `coordinator/docker_stats.py` | CPU counters by container | collect, measure, prune | a figure is usage between two readings of this poll and an earlier one |
| Guest icons, `coordinator/guest_icons.py` | details of guests, probed paths | ask, probe | pictures catch up and do not go; the endpoints are spared |
| Icon proxy, `icon_proxy.py` | fetched icons, published tokens | concurrent GETs | no icon older than its time to live is served |
| Merges, `coordinator/compose.py`, `coordinator/base.py` | what each list contributed | merge, carry forward, sum | the parts of a stack agree although lists fail independently |
| Config flow, `config_flow_handler/` | flow steps | user, reauth, reconfigure, options | an entry has details its server accepted, and an identity of its own |
| Sensors, binary sensors, `sensor/`, `binary_sensor/` | none; each has a list, fields and `resource_keys` | read one item of the data | none shows as live what has stopped updating |
| UPS, diagnostics, card, tooling | none, or not part of the run | — | — |

How they interact: Home Assistant's `ConfigEntries` sets up the entry, which
creates a client and a coordinator; the coordinator's timer, a user's
`update_entity` call or a switch action starts a refresh; the refresh awaits one
request per resource through the client's limiter and then, without an await,
does its bookkeeping; it awaits the enrichment (templates, stats, icons), and
Home Assistant assigns what it returns and notifies the entities. Everything
runs on one event loop, so a step of the models is a run of code between two
awaits.

What is hard about it: refreshes end in a dozen ways, and each way has to clear,
keep or advance two kinds of streak, in an order that matters; coordinators are
replaced while the streak in `hass.data` lives on; Home Assistant stops polling
on one kind of exception and keeps polling on another; it does not notify
entities of changes outside `data`; polls, unloads and switch actions overlap.
Around the poll it is caches: what they are filed under, when they were filled
and what happened while they were being filled.
`PROJECT.json` lists the hazards by line.

## 2. Modules

| Module | What it is |
|---|---|
| `MOSCoordinator` | the poll cycle and the config entry |
| `AuthHistory` | the same machine with a record of what its polls said about the token |
| `ResourceHistory` | the same machine with a record of the age of every published value |
| `SwitchActions` | switch actions in flight, the patch or the refresh after them, and the polls they overlap with |
| `RateLimiter` | the client's request limiter |
| `DockerTemplates` | the container list, the engine's list and the template cache over polls |
| `WebLinks` | the port a container's link leads to |
| `ComposeStacks` | a stack's members, group, engine state and sums over polls |
| `DockerStats` | one container's CPU counters and what is made of them |
| `GuestIcons` | guests' details and the probes of their icons |
| `FreshIcons` | what the icon proxy promises: an abstract specification |
| `IconProxy` | the icon proxy; implements `FreshIcons` |
| `Devices` | entities and devices over updates, reloads and moves |
| `ConfigFlow` | flows that overlap and the entries they store |
| `TokenScope` | paths, scopes, responses, exceptions and denied keys |
| `EntitySources` | which entities there are, what they read and where it comes from |
| `MC…` | instances for TLC; `MCEnrichment` and `MCEntry` are of several modules |
| `…Proofs` | theorems about the module of that name; `EnrichmentProofs` and `EntryProofs` are about the modules that `MCEnrichment` and `MCEntry` instantiate, a section each |

### MOSCoordinator

The variables carry the names of the attributes they stand for. A refresh is
`StartPoll` (the tasks are built and awaited), one of the `Cycle…` actions (the
synchronous stretch from `_triage_results` to the end of the bookkeeping) and,
if the cycle survives, `Publish` (the enrichment is over and Home Assistant
assigns the data). The `Cycle…` actions split on the code's early exits in the
code's order:

| Action | Exit in the code |
|---|---|
| `CycleUnreachable` | `_raise_if_required_resource_unreachable` |
| `CycleRejectedUnstable` | a 401 next to a communication error |
| `CycleRejected` | a 401 inside the guard: `UpdateFailed` |
| `CycleEscalates` | a 401 past the guard: `ConfigEntryAuthFailed` |
| `CycleRefused` | `_raise_if_required_resource_failed` |
| `CycleSurvives` | the bookkeeping of `_classify_transient_resource_failures` |

Outside the repository, and modelled from how the code relies on it:
`DataUpdateCoordinator` with `always_update=False` (an `UpdateFailed` notifies
once and arms the timer; `ConfigEntryAuthFailed` does not arm it; success
notifies if the data differ or the last update had failed), and `ConfigEntries`
(a failed first refresh is retried with a new coordinator; a setup that failed
is unloaded without `async_unload_entry`, which matters for the streak; an
unload calls `async_unload_entry` first and cancels a refresh in flight after
it).

Abstractions: a request's end is one of six outcomes, the exception classes the
triage tells apart; `data` is the set of keys whose value came from the server;
a duration is an age in ticks, at most one tick passing between the starts of
two successive refreshes; ages and counts stop at the threshold they are
compared with. The enrichment is one step that always succeeds, as its helpers
absorb their own failures. There is one refresh at a time, as the debouncer's lock
sees to; optimistic patches are in `SwitchActions`.

### SwitchActions

An item is `on`, `off` or `gone`. A service call is sent (`Ask`), takes effect on
the server (`ServerActs`) and is confirmed (`ConfirmPatched` for containers and
stacks, `ConfirmRefreshed` for VMs) or ends in an error (`CallFails`), with or
without effect. A refresh begins (`Begin`), samples each item at a moment of its
own (`Answer`), retains what failed (`Process`), and is published after the
enrichment (`Publish`) or fails (`PollFails`). `Patch` is
`_optimistically_patch_item` with Home Assistant's `async_set_updated_data`: it
assigns, notifies, starts the refresh timer again and cancels what the debouncer
had put off.

Home Assistant's part is modelled from how it behaves as the code relies on it:
the refresh timer takes the debouncer's lock; `async_request_refresh` during the
cooldown is put off to its end, is dropped while the lock is taken and otherwise
refreshes at once; a refresh compares with the data and the success it *began*
with when it decides whether to notify. `had` and `lately` are history variables:
the states of a patched item that `self.data` may legitimately have.

The check of the write scope is left out, since it only refuses a call before
anything happens. The timer's length is not modelled, so a service call may take
any number of polls.

### RateLimiter

`free` and `line` are the semaphore, `sleeping` and `sending` the requests that
hold a slot. Times are relative to the loop's clock: `ahead` is
`_next_start - now`, `delay[r]` what is left of the sleep of `r`. `Claim` is
`_wait_for_turn` up to the sleep; the lock around it is never contended, as
nothing awaits while it is held. `Tick` does not wait for a sleeper whose time has
come: it may be late. A cancellation reaches a request in the semaphore's queue
(`CancelWaiting`), in its sleep (`CancelSleeping`, the `except` clause of
`__aenter__`) or while it is sent (`Leave`). `load` is a history variable, a
leaky bucket: it grows by `MinInterval` at each start and drains by one a tick, so
`load <= B` says that the starts of no stretch of time exceed what the rate allows
by more than `B`.

### DockerTemplates, WebLinks

A container's `made` counts how often it was recreated: it is at once its engine
id and the version of its template, so "older" can be said. A poll asks for both
lists (`AskLists`), each answers at a moment of its own or fails, `MergeLists` is
the merge and the synchronous head of `async_refresh`, one `TemplateAnswers` or
`TemplateFails` per template that is due, and `PublishContainers`. Containers are
recreated and removed between any two of these. `WebLinks` is a function:
`PortOf` is `_resolve_port`, with its passes in the code's order. Its inputs are
every list of at most `MaxPorts` live ports and of as many template pairs, and the
same container stopped and started with the ports of its template; a port that
is configured without a host port is reported without one.

### ComposeStacks

Each of the three lists comes or is down, in every combination, and `PollStacks` is
`_async_add_compose_stack_data`: `FromGroup` or `GroupCarried`, then `FromEngine` or
`EngineCarried`, then the sums. A figure is the set of members it was summed over,
which says where it came from.

### DockerStats

One container's counter and the machine's, which run, stop and restart. A figure
is the pair of differences it was made of, `fair` what the container really used
between the two readings. A server of the older kind measures here, a newer one
reports figures itself, and an update turns one into the other (`UpdateServer`).

### GuestIcons

A guest's configuration names an icon and the server has files or not; details age
by `GuestTick`, are refetched, fail, are refused (`denied`) or never list the guest;
probes are kept. `PollGap` is the longest distance between polls, `quiet` counts
for how long nothing changed or failed.

### FreshIcons, IconProxy

`FreshIcons` says what a browser may rely on: an answer is one the source gave less
than that answer's time to live before the GET, or during it. `IconProxy` has the
cache, its order, fetches that overlap (two GETs of one token both fetch), entries
stamped before the fetch, and eviction. `Browser == INSTANCE FreshIcons` maps the
promise's variables to the proxy's; `since` and `allowed` are history.

### Devices

A platform's listener runs once per update (`Sync`); nothing it starts suspends, so
the listeners of an update are a sequence in any order. `orphans` are items that
went while the entry was not loaded, which no code looks for.

Two histories say where a device should be, and neither looks at the area it has.
`put` is where it was last put: by the user, by the registry that restored it, or by
a server that moved from there while the entry was not loaded and nothing followed.
`reached` has the devices such that the server has come to that place since.
`DevicesKeepPlace` promises the place for a device that is not in `reached`, and the
server's area for one that is, or that was never put anywhere. That is all the code
gives: `_follow_server_area` compares areas and stores no choice, so once the server
comes to the area that a user chose for a device, by chance or not, the device
follows it out again. A UPS filed under "Basement" stays there while the server goes
from "Office" to "Study", as the docstring says; if the server visits the basement,
the UPS leaves with it. Nothing in the repository says otherwise, so the property
states it as the exception it is, and no run calls it a violation.

### ConfigFlow

A flow is a form, waits for the validation it was `Submit`ted to, and stores or
shows an error. A reauth flow merges the token into the data it read when it was
submitted; a reconfigure flow may overtake it.

### TokenScope

The paths are those the client builds, without the prefix they share and with
one segment for any name. The server goes by the first segment; the tables of
`const.py` go by resource names; that the two agree is a property. Between server
and client come the `Troubles`, each with the response it makes; `Raised` is the
exception of `_api_wrapper`, `Triaged` the branch of `_triage_results`.

### EntitySources

The tables of entity descriptions become sets of `Entity(key, list, reads, extra)`:
`reads` are the fields its value function, attributes and picture read, by where
these come from, `extra` is `extra_resource_keys`. `data` says of each field whether
the poll worked it out anew, carried it forward or has none. `PollSucceeds` is a poll
with any answers, from the bookkeeping to the last merge; `PollFailsWhole` one that
raised. Which failure makes a resource stale is left to chance (`late`): any that is
not the first, which includes what `RESOURCE_STALE_MIN_FAILURES` and its grace period
allow. Icons come from caches and not from a resource of the poll, and are left out;
so are the entities of `osinfo` and `system_load`, without which no poll succeeds.
Optimistic patches are in `SwitchActions`.

## 3. Runs

| Run | Instance | Shows |
|---|---|---|
| `poll` | one always-fetched resource, two of one scope of which one is merged into the other, one of a scope of its own; every outcome but 429 | `TypeOK`, `ForbiddenWithdrawn`, `ShownAvailability`, `LastKnownGoodKept` |
| `token` | one always-fetched, one optional; every outcome; auth thresholds of 3 polls and 3 ticks | `EscalationEarned`, and under fairness `RevokedTokenPrompts`, `FailingGoesStale`, `RecoversAlone` |
| `staleness` | one always-fetched, two optional of one scope; stale thresholds of 2 | `StaleEarned`, `CurrentIsRecent` |
| `new_token` | as `token` | a counterexample, see below |
| `reobserved` | one optional resource that answers or does not | a counterexample, see below |
| `limiter` | four tasks, two slots, two ticks between starts | `TypeOK`, `SlotsConserved`, `BurstBounded`, and under fairness `EveryTurnComes` |
| `overlap` | one container that others use too, two calls | `TypeOK`, `DataIsRecent`, and under fairness `SwitchesSettle` |
| `requests` | a container and a VM, one call at a time | `MachinesShowData`, and under fairness `SwitchesSettle` |
| `refresh_dropped` | one VM, one call | a counterexample, see below |
| `enrichment` | two containers recreated up to twice; two ports; one stack of two members; counters up to 3; one guest; two icon tokens, two GETs, a cache of one | `TemplateNotOlder`, `NoNeedlessFetch`, `TemplatesCurrent`; `LinkLeadsToPort`; `StacksAgree`; `FiguresHonest`, `MeasuredThisPoll`; `IconsCatchUp`, `EndpointSpared`, `PicturesStay`; `NothingBackdated`, `CacheBounded`, and the refinement `ServesFreshIcons` |
| `entry` | two items, two platforms, two areas; two flows, two entries, two names, hosts and tokens; all keys and paths | `RegistryFollowsData`, `DevicesKeepPlace`; `StoredWasAccepted`, `IdentityUnique`; `ForbiddenIsRefused`, `RejectionToldApart`, `RefusedInAdvance`; `ShownIsCurrent`, with each category on by itself |
| `frozen_counters` | one stack of two members | a counterexample, see below |

Bounds. Sibling rules need two resources of a scope and one of another; nothing
in the code relates three. The thresholds are small, but above 1 where the run
is about the guard, so that each half can be the last to be reached. Ages and
counts saturate, so no state is cut off by a bound: every run explores its
instance completely (the bounds on what the environment may do, `MaxMade` and
`MaxUsed`, are named constants). The limiter's instance has more tasks than slots, and a task
makes no new request while the claims reach further than `Horizon` ticks, so that
the claimed times stay finite; the theorems do without that bound. Two calls are
what it takes for confirmations to change order; a container and a VM for a patch
to cancel a refresh. In `poll` a 429 is left out because on an optional resource
the code treats it as a communication error that says nothing of the server, and
on an always-fetched one as a refusal; `token` has it.

`enrichment` and `entry` are unions: their components share no variable, `part` says
which of them moves, and the others stay in their initial states. Their product
would only multiply. Two of each is what it takes for one to overtake, evict, be
mistaken for or be last after the other; the lifetimes are small and differ, so that
each expires alone. The stats are one container's, as its counters touch nobody
else's; the others matter for the pruning only, which `OthersMeasured` stands for.
In `EntitySources` the categories are on one at a time: containers and stacks have in
common that the engine's list is asked for once, and each takes from it what it
would alone; one item stands for a list, as no entity reads two.
Invariants of all parts are checked in all states; those of the parts that stand
still hold there trivially, and each is shown to fail by a mutant of its own part.

Fairness (`FairSpec`, `AFairSpec`): Home Assistant retries a failed setup, fires
the refresh timer it has armed and runs what is queued on the loop; every request
ends, by the client's timeout at the latest; an unload finishes; time passes. A
user who reloads, and a server that answers, are owed nothing. In `RateLimiter` the
semaphore hands on its slots, sleeps and requests end. In `SwitchActions` Home
Assistant's timers fire and, an assumption on the server and not on the code, the
rest of the payload (CPU load, uptime) does not compare equal in every poll from
some point on; `SwitchesSettle` further assumes what `Steady` says, that actions
cease and polls succeed, because every patch starts the refresh timer again.

### Where the code differs from what is written about it

Each is a run that ends in a counterexample.

* `new_token`: an entry whose setup ended in `ConfigEntryAuthFailed` is reloaded
  without `async_unload_entry`. The old token's streak survives the reload that a
  new token causes, and the first 401 of the new token prompts again, where
  `README.md` promises three polls.
* `reobserved`: a cycle that fails leaves the degraded mapping alone. Failures
  counted before an outage still count after it, and one more makes the resource
  stale; `const.py` says that the streak has to be observed anew.
* `refresh_dropped`: an action on a VM asks for a refresh, and the debouncer drops
  the request while a poll holds its lock. The poll may have asked for the VM
  already; it publishes the state from before the action, which stays on display
  until the next scheduled poll. The docstring promises a refresh "so its new state
  is reflected immediately", the README that switches do not wait for the next poll.
* `frozen_counters`: while the engine's proxy does not answer, the counters that
  `merge_group_data` takes from the group list are overwritten by
  `carry_forward_engine_state` with the last ones of the engine, however old. The
  comment at `coordinator/compose.py:33` calls the group's counters a fallback for
  just that case.

Noticed on the way, without a run: a resource that failed together with the server
and goes on failing is shown as current, with a value of any age, for a whole grace
period after the server is back, as its timer starts at the first failure seen in a
surviving cycle (`CurrentIsRecent` excludes it by `interrupted`); a container's
patch cancels a VM's refresh that waits for the cooldown; a patch taken back by a
poll that had sampled before the action may stay on display, as the publication
equals what the refresh began with; a patch during a failing poll leaves entities
available until the server is back (`docs/development/DECISIONS.md:33` says
otherwise); starts are spaced by `min_interval` as claimed, but sleepers that wake
late start back to back, which `BurstBounded` bounds; a cycle that fails on an always-fetched 403
or 404 keeps the auth streak, whose docstring says it is `None` then; an entry
removed while its setup is retried leaves its streak in `hass.data`; a queued
notification runs at the first await of the enrichment that yields, before the
data are assigned; "now provides" and "recovered" are logged of any key that
leaves its set, also of one that times out or becomes forbidden.

Of the enrichment and the rest: a container list that is retained after a 403 or a
429 keeps its `performance` block, so the old figure is shown again, where
`coordinator/docker_stats.py:33` says that none is carried forward; a counter that
restarts and overtakes its old reading between two polls is not seen to have
restarted; `SampleTTL` loses a container's counters after two failed measurements
at the longest interval; `_resolve_port` on a template takes the first pair with
the number on either side, so with 8080→80 and 80→8080 the link of a stopped
container differs from that of the running one (`coordinator/docker_templates.py:4`
says it survives the stop); a container that was absent, or an empty list, leaves a
template filed without an id, which is then fetched although one is cached; the comment
at `_DETAIL_TTL_SECONDS` says a change "refetches immediately", the floor of a
minute says later; a probe that timed out counts as a missing icon for an hour; a
slow fetch may put back an older icon, within its lifetime; `merge_stats` drops a
member whose request failed from the sum; a list answered with an empty body would
raise in the merge; devices of items that vanish, and moves of the server,
while the entry is not loaded stay as they are; a device that the user put where the
server comes later is taken along when the server leaves (`device_area.py:142`); a reauth that overlaps a
reconfigure undoes it; one host may be set up under two names; the flow reports
errors by their exact class, so a 429 is "unknown"; the const tables and
`permissions.py` disagree on whether a custom scope lists `nut` (`TokenScope` allows
both).

Of the entities: a stack's `container_count`, and the `images` among the attributes
of its `state`, are the engine's, but neither sensor declares it
(`sensor/compose.py:107`, `:129`), so they are shown unchanged for as long as the
engine's proxy does not answer; on a server that has no such proxy (404) the
counters stay at those of the first group list, and no entity is unavailable for it.
`ShownIsCurrent` excepts just these (`Undeclared`), and fails without any one of the
exceptions. If the proxy fails in the first poll, no container has a state: until the
proxy is stale the total of running containers is 0 and the switches are off, which
the comment at `sensor/summary.py:76` says must not be counted. A retained stack
keeps its update flag although its group has gone. The docstring of
`unsupported_resources` says that entities "are simply not created"; the totals and
the service sensors are.

## 4. Proofs

Every safety property and every action property that a passing run checks, and the
refinement, is also a theorem, for any constants that meet the assumptions below.
Each rests on an inductive invariant, named in the table. `A…`, `R…` and the other
specifications are those of the modules in section 2.

| Theorem | Statement | Argument |
|---|---|---|
| `TypeCorrect` | `Spec => []TypeOK` | inductive as it stands |
| `LastKnownGoodAlwaysKept` | `Spec => LastKnownGoodKept` | from `RetentionInv`: every key of `data` was answered, and a payload being enriched holds every key of `data`; so a 404 of such a key is a failure, not an absence |
| `ForbiddenAlwaysWithdrawn` | `Spec => []ForbiddenWithdrawn` | from `ScopeInv`: `forbidden` is closed under siblings from the seeding on, and what is requested was built from it |
| `AvailabilityAlwaysShown` | `Spec => []ShownAvailability` | from `DisplayInv`: while no notification is queued the display has the stale set, and it always has an outright failure |
| `EscalationAlwaysEarned` | `ASpec => EscalationEarned` | from `StreakInv`: the streak never runs ahead of the record, and the record is cleared whenever a poll speaks against a revoked token, over every coordinator of the entry |
| `LimiterTypeCorrect`, `SlotsAlwaysConserved` | `Spec => []TypeOK`, `Spec => []SlotsConserved` | from `SlotInv`: the queue has no request twice, so a slot handed on goes to a request that holds none |
| `BurstAlwaysBounded` | `Spec => []BurstBounded` | from `BurstInv`: what was started and what the sleepers due within any `x` ticks may still start is paid for by `x`, a turn per slot and one more; cancelled sleepers leave turns that nobody uses |
| `SwitchTypeCorrect` | `Spec => []TypeOK` | with `PayloadTyped`: what is being enriched holds states only |
| `MachinesAlwaysShowData` | `Spec => []MachinesShowData` | from `ShownInv`: during a refresh a VM's data is what the refresh began with, and success can only begin; so a publication nobody is told of changes nothing for a VM |
| `DataAlwaysRecent` | `Spec => []DataIsRecent` | from `RecentInv`: every sample is among the states the item had since the refresh began, and what a refresh retains is among those it may have already |
| `AuthTypeCorrect` | `ASpec => []AuthTypeOK` | inductive with `TypeOK` |
| `AuthRecordObserves`, `AgeRecordObserves` | `ASpec => Spec`, `RSpec => Spec` | each step with its record is one of the coordinator, so the records constrain nothing and what is proved of `Spec` holds of both |
| `WithdrawalAlwaysEarned` | `RSpec => []StaleEarned` | from `EarnedInv`: a stale resource's timer has run out, and no timer ran longer than the value is old, neither of what is published nor of what is about to be |
| `CurrentAlwaysRecent` | `StaleMin <= StaleGrace + 2` gives `RSpec => []CurrentIsRecent` | from `RecentInv`: every age is accounted for by the failures counted, the timer and the ticks since the last poll (`Explained`), unless a failed cycle came between |
| `TemplateNeverOlder`, `NeverFetchedNeedlessly`, `TemplatesCatchUp` | `DockerSpec => []TemplateNotOlder`, `[]NoNeedlessFetch`, `[]TemplatesCurrent` | from `DockerInv`: ids are of the past (`IdsPast`), the template of a container without news is filed under the id last heard (`KnownIds`), and in a calm poll what is asked for is current (`CalmPoll`) |
| `LinkAlwaysLeadsToPort` | `LinkSpec => []LinkLeadsToPort` | from `LinkInv`: the link is that of the container as the last poll found it; the rest is about `_resolve_port`: the place a loop returns at is one it was looking for, by the well-foundedness of the naturals |
| `StacksAlwaysAgree` | `StackSpec => []StacksAgree` | from `StackInv`: the counters of a record come from one source, which gives the verdict too (`Counted`, `Agrees`), and carrying forward takes them together; that running services are no more than members is about cardinalities |
| `FiguresAlwaysHonest`, `AlwaysMeasuredThisPoll` | `StatsSpec => []FiguresHonest`, `[]MeasuredThisPoll` | from `StatsInv`: a counter is ahead of its sample by no more than was used since (`SampleBehind`), a restart included, as it puts the counter back; the second is inductive as it stands |
| `IconsAlwaysCatchUp` | `GuestSpec => []IconsCatchUp` | from `GuestInv`: what was read in quiet times is still so (`ReadQuietly`), a poll that begins once both lifetimes passed in quiet works with the configuration there is, and the icons are right from then on (`PollRight`) |
| `PicturesAlwaysStay`, `EndpointAlwaysSpared` | `GuestSpec => PicturesStay`, `[]EndpointSpared` | from `GuestInv`: what is shown was found and what was found stays found (`ShownFound`), and an attempt is stamped whatever comes of it (`AskedWhenStamped`) |
| `CacheAlwaysBounded` | `ProxySpec => []CacheBounded` | from `OrderInv`: `ProxyInv`, an order of tokens without repetition, and `CacheBounded` itself; taking a token out of the order and putting it at the end, and evicting the first, are lemmas about sequences |
| `NeverBackdated` | `ProxySpec => []NothingBackdated` | from `ProxyInv`: what a source has it gives at age 0, and what it gives during a GET is allowed to it (`SourceCurrent`, `SourceAllowed`) |
| `ProxyImplementsPromise` | `ProxySpec => ServesFreshIcons` | a refinement: each action of `IconProxy` is one of `FreshIcons` or a stutter; a hit is recent because `since <= age < TTL` |
| `AlwaysAccepted`, `IdentityAlwaysUnique` | `FlowSpec => []StoredWasAccepted`, `[]IdentityUnique` | from `FlowInv`: a flow aims at an entry that exists or at none, and what it stores is what it waited for |
| `RegistryAlwaysFollows` | `DevicesSpec => []RegistryFollowsData` | from `RegistryInv`: what a platform knows it has registered (`PlatformsKnow`), and a device is there as long as entities are (`Inhabited`) |
| `ForbiddenAlwaysRefused`, `RejectionsAlwaysToldApart`, `AlwaysRefusedInAdvance` | `ScopeSpec => []ForbiddenIsRefused`, `[]RejectionToldApart`, `[]RefusedInAdvance` | from `ScopeInv`: the three together, and that a scope which is current is what the server says of the rights (`ScopeWord`); lemmas take every key to the segment that governs its path, every response to its exception and every exception to its verdict |
| `ShownAlwaysCurrent` | `SourcesSpec => []ShownIsCurrent` | from `SourcesInv`: an old value has a resource to blame that is failing or stale (`Accounted`); and every entity of every kind declares the resources to blame for what it reads (`Declares`) |
| `DevicesAlwaysKeepPlace` | `DevicesSpec => []DevicesKeepPlace` | for any places and any sequence of moves, with the exception that the property states; from `PlaceInv`: a device that is not there was put nowhere, and one that was put where the server is has been reached (`Meetings`), so the comparison of areas never finds a device by the server that the histories put elsewhere |

The assumptions are those the modules declare; TLC evaluates them in the runs.

* `ResourcesAssumption`, `ThresholdsAssumption`: finite sets of resources, each
  optional one with its scope; grace periods are naturals and failures to count
  are positive.
* Markers such as `Missing`, `Nothing`, `NoIcon` or `NoDevice` are none of the values
  they mark the absence of (`ProxyAssumption`, `LinkAssumption`, `StackAssumption`,
  `ScopeAssumption` and the like). The code has `None`, absent keys and distinct
  classes for them.
* Lifetimes are positive naturals, a stack has finitely many members.
* `CurrentAlwaysRecent` assumes `StaleMin <= StaleGrace + 2`, as its bound on an age is a
  grace period and `Slack`, and failures are counted once a poll:
  `RESOURCE_STALE_MIN_FAILURES` is 3 and the grace period, 15 minutes, is at least one
  tick. With more failures to count than that a value could be shown longer.

What bounds a run bounds nothing here: `MaxPorts`, `MaxCached`, `MaxUsed` and the
lifetimes are any naturals that meet the assumptions.

Only model-checked: the five liveness properties (`RevokedTokenPrompts`,
`FailingGoesStale`, `RecoversAlone`, `EveryTurnComes`, `SwitchesSettle`), which rest
on fairness and are out of the prover's reach, and the four violations, which are
counterexamples.

## 5. Plan

1. Type correctness of the modules whose types so far are part of other
   invariants, where a theorem of its own says more than they do.
2. The steps that the liveness properties depend on, as far as they are action
   properties: a refresh that has begun ends in one of its outcomes, a turn that
   is waited for is not taken away.

## 6. Not modelled, and why

* UPS (`entity_utils/nut_status.py`): entities are made when a UPS first answers and
  never removed; a flag is tested in a set. Nothing overtakes it.
* The value functions of sensors and binary sensors map one payload to one value
  and keep nothing; only what they read is modelled.
* The options flow stores one form as it was sent; the reload that follows is the
  lifecycle's.
* `async_setup`, the platforms' forwarding and the bundled card's registration
  happen once. Diagnostics reads.
* The card is a renderer in TypeScript, and `www/mos-card.js` is generated from it.
* The icon view's ETag comparison chooses between a body and a 304 with the same
  meaning; the content checks of a fetch are its outcome `Missing`.
* The bodies of the lists of disks, pools, services and sensors are passed on.
