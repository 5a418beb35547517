-------------------------------- MODULE Devices --------------------------------
(***************************************************************************)
(* The devices and entities that come and go with the items of a poll      *)
(* (entity_utils/dynamic_entities.py, retired_entities.py, device_area.py, *)
(* server_device.py): every platform keeps its own entities in step with   *)
(* the items, whichever of them is last takes the device along, and the    *)
(* devices stay in the room of the server.                                 *)
(*                                                                         *)
(* Home Assistant runs the listeners of one update, and the tasks that     *)
(* these start, before anything else happens: nothing they call suspends.  *)
(***************************************************************************)
EXTENDS FiniteSets

CONSTANTS
    Items,       \* ids of containers, disks, pools or machines
    Platforms,   \* those with entities for an item: sensor, binary_sensor, switch
    Retired,     \* the platform of an entity that an older version left behind
    Areas, NoArea,
    NoDevice,    \* an item without a device
    Nowhere      \* history: nobody has put the device anywhere

ASSUME DeviceAssumption ==
    /\ Retired \notin Platforms
    /\ NoArea \notin Areas
    /\ NoDevice \notin Areas \cup {NoArea} /\ Nowhere \notin Areas \cup {NoArea, NoDevice}

VARIABLES
    loaded,      \* the entry is set up
    items,       \* coordinator.data[data_key]
    owed,        \* platforms whose _sync has not yet run for these items
    known,       \* per platform, the items it made entities for
    registry,    \* entity registry: per item, the platforms that have entities
    device,      \* device registry: the area of each item's device, or NoDevice
    server,      \* the area of the server device
    orphans,     \* history: items that went while the entry was not loaded
    put,         \* history: where the user, the registry, or a move unheard, last put each device
    reached      \* history: devices such that the server has come to that place since

history == <<put, reached>>
deviceVars == <<loaded, items, owed, known, registry, device, server, orphans, history>>

Places == Areas \cup {NoArea}

DevicesInit ==
    /\ loaded = FALSE /\ items = {} /\ owed = {}
    /\ known = [p \in Platforms |-> {}]
    /\ registry = [i \in Items |-> {}]
    /\ device = [i \in Items |-> NoDevice]
    /\ server = NoArea
    /\ orphans = {}
    /\ put = [i \in Items |-> Nowhere] /\ reached = {}

\* Mutant: what an older version left behind stays.
LeftAlone == registry

\* async_remove_retired_entities.
WithoutRetired == [i \in Items |-> registry[i] \ {Retired}]

\* async_setup_entry, up to the platforms, each of which calls its _sync once.
SetupDevices(answered) ==
    /\ ~loaded
    /\ loaded' = TRUE /\ items' = answered /\ owed' = Platforms
    /\ registry' = WithoutRetired
    /\ orphans' = {i \in Items : device[i] # NoDevice}
    /\ UNCHANGED <<known, device, server, history>>

\* The coordinator's data changed, and its listeners are called.
DataChanges(answered) ==
    /\ loaded /\ owed = {} /\ answered # items
    /\ items' = answered /\ owed' = Platforms
    /\ UNCHANGED <<loaded, known, registry, device, server, orphans, history>>

\* _adopt_into_server_area, of a device created in some place or in none.
Adopted(place) == IF place = NoArea THEN server ELSE place

\* _sync and _async_remove_entities. The registry may restore a device that it
\* knew to the place where it was.
Sync(p, restored) ==
    LET new == items \ known[p]
        gone == known[p] \ items
        created == {i \in new : device[i] = NoDevice}
    IN  /\ p \in owed
        /\ \A i \in Items \ created : restored[i] = NoArea
        /\ owed' = owed \ {p}
        /\ known' = [known EXCEPT ![p] = items]
        /\ registry' = [i \in Items |-> IF i \in new THEN registry[i] \cup {p}
                                        ELSE IF i \in gone THEN registry[i] \ {p}
                                        ELSE registry[i]]
        /\ device' = [i \in Items |->
                IF i \in created THEN Adopted(restored[i])
                ELSE IF i \in gone /\ registry'[i] = {} THEN NoDevice
                ELSE device[i]]
        /\ orphans' = orphans \ items
        /\ put' = [i \in Items |->
                IF i \in created /\ restored[i] # NoArea THEN restored[i]
                ELSE IF device'[i] = NoDevice THEN Nowhere
                ELSE put[i]]
        /\ reached' = {i \in Items : put'[i] = server \/ (i \in reached /\ device'[i] # NoDevice)}
        /\ UNCHANGED <<loaded, items, server>>

\* async_unload_entry: the entities go, their registry entries stay.
UnloadDevices ==
    /\ loaded /\ owed = {}
    /\ loaded' = FALSE /\ items' = {}
    /\ known' = [p \in Platforms |-> {}]
    /\ UNCHANGED <<owed, registry, device, server, orphans, history>>

\* An older version runs meanwhile, or a backup of it is restored.
LeaveRetired(i) ==
    /\ ~loaded /\ device[i] # NoDevice
    /\ registry' = [registry EXCEPT ![i] = @ \cup {Retired}]
    /\ UNCHANGED <<loaded, items, owed, known, device, server, orphans, history>>

\* Mutant: the bulk overwrite that the docstring rules out.
MovedAll(i) == TRUE

\* _follow_server_area: the devices that are where the server was. It compares areas,
\* and nothing says who put a device there.
Moved(i) == device[i] = server

\* History: nobody put the device anywhere, or the server has come to where it was put.
Joined(i) == put[i] = Nowhere \/ i \in reached

\* The user moves the server device. Only a loaded entry listens for that: a server that
\* moves away from one that is not puts down there what it had with it.
MoveServer(place) ==
    /\ owed = {} /\ place # server
    /\ server' = place
    /\ device' = [i \in Items |-> IF loaded /\ device[i] # NoDevice /\ Moved(i) THEN place
                                  ELSE device[i]]
    /\ put' = [i \in Items |-> IF ~loaded /\ device[i] # NoDevice /\ Joined(i) THEN server
                               ELSE put[i]]
    /\ reached' = {i \in Items : put'[i] = place \/ (loaded /\ i \in reached)}
    /\ UNCHANGED <<loaded, items, owed, known, registry, orphans>>

\* The user puts a device somewhere.
PlaceDevice(i, place) ==
    /\ owed = {} /\ device[i] # NoDevice
    /\ device' = [device EXCEPT ![i] = place]
    /\ put' = [put EXCEPT ![i] = place]
    /\ reached' = IF place = server THEN reached \cup {i} ELSE reached \ {i}
    /\ UNCHANGED <<loaded, items, owed, known, registry, server, orphans>>

DevicesNext ==
    \/ \E answered \in SUBSET Items : SetupDevices(answered) \/ DataChanges(answered)
    \/ \E p \in Platforms, restored \in [Items -> Places] : Sync(p, restored)
    \/ \E place \in Places : MoveServer(place) \/ \E i \in Items : PlaceDevice(i, place)
    \/ \E i \in Items : LeaveRetired(i)
    \/ UnloadDevices

DevicesSpec == DevicesInit /\ [][DevicesNext]_deviceVars

-------------------------------------------------------------------------------
\* The registries follow the data: an item that is there has the entities of every
\* platform, and one that went has neither entities nor a device, whichever platform
\* let go of it last - but for what went while nobody looked. A device is there
\* exactly as long as it has entities (async_setup_dynamic_entities).
RegistryFollowsData ==
    /\ \A i \in Items : device[i] = NoDevice <=> registry[i] = {}
    /\ (loaded /\ owed = {}) =>
          \A i \in Items \ orphans : registry[i] = IF i \in items THEN Platforms ELSE {}

\* Whatever sequence of moves and reloads: a device that the user or the registry put
\* somewhere is there as long as the server has not come there since, and one that nobody
\* put anywhere is with the server. What the server put down unheard counts as put.
\* The exception is the code's, which compares areas and remembers no choice: once the
\* server has come to where a device was put, by chance or not, the device is with the
\* server from then on, and the user's choice is lost (_follow_server_area,
\* _adopt_into_server_area).
DevicesKeepPlace ==
    \A i \in Items :
        device[i] # NoDevice => device[i] = IF Joined(i) THEN server ELSE put[i]
===============================================================================
