-------------------------------- MODULE Panel --------------------------------
(***************************************************************************)
(* The wall panel: its screens, the store of signals they read (store.py), *)
(* the operations they dispatch to the Api (bridge.py) and the task that   *)
(* republishes the store every three seconds (main.py).                    *)
(*                                                                         *)
(* Everything runs on one asyncio loop and the handlers of these operations*)
(* never await, so a served operation, its on_ok and a refresh are one     *)
(* step each.  A runner is due when it is created and the pump 5 ms later, *)
(* so no tap comes between a tap and the operation it dispatched; the list *)
(* that an on_ok asks for is dispatched after a write to flash, when the   *)
(* pump may be overdue, and one tap may overtake it.  A refresh that is    *)
(* due may come before any of them.                                        *)
(* The state of the switches is left to the modules of the gateway, and the *)
(* effects of reactive.py, which redraw what the store shows, are left out. *)
(***************************************************************************)
EXTENDS ScheduleWizard, FiniteSets

CONSTANTS
  Ieees,      \* radio addresses
  Names,      \* names that may be typed
  MaxTaps,    \* bound of the taps that dispatch an operation
  MaxJoins    \* bound of the devices that join

VARIABLES
  repo,       \* what the repository holds: zones, endpoints, schedules
  store,      \* what the store's signals hold of it
  registry,   \* the addresses the gateway knows (zigbee.devices)
  open,       \* whether the network lets devices join
  pairing,    \* store.pairing: the zone that is paired into, or None
  screen,     \* the screen that is loaded
  room,       \* room_page._current["zone_id"]
  device,     \* device_page._current["endpoint"]: its id and the record
  queue,      \* runners of bridge.dispatch that have not run
  rushed,     \* whether a tap has overtaken a list that is still in the queue
  made,       \* ids given out
  taps, joins,
  doubt,      \* collections that a pending tap did not reach: see Published
  sure        \* whether the record a page edits was current when it was taken

ui == <<screen, room, device, sure>>
radio == <<registry, open, joins>>
vars == <<repo, store, radio, pairing, ui, queue, rushed, made, taps, doubt, wizard>>

Collections == {"zones", "endpoints", "schedules"}
Nothing == [c \in Collections |-> [id \in {} |-> None]]

Without(f, id) == [x \in DOMAIN f \ {id} |-> f[x]]
With(f, id, v) == [x \in DOMAIN f \cup {id} |-> IF x = id THEN v ELSE f[x]]

FirstSchedule == [target |-> 1, enabled |-> TRUE, type |-> "fixed_time",
                  when |-> [h |-> 0, m |-> 0], recurrence |-> "plain", days |-> {}]

NoDevice == [id |-> None, row |-> None]

(* After a boot the store is empty until the first refresh.                *)
Init ==
  /\ store = Nothing /\ doubt = Collections
  /\ pairing = None /\ queue = <<>> /\ rushed = FALSE /\ sure = TRUE
  /\ screen = "home" /\ room = None /\ device = NoDevice
  /\ stack = <<>> /\ draft = NoDraft /\ sign = -1
  /\ \E zone \in {1}, ieee \in Ieees, name \in Names :
       /\ repo = [zones |-> [id \in {zone} |-> name],
                  endpoints |-> [id \in {1} |-> [name |-> name, zone |-> zone, ieee |-> ieee]],
                  schedules |-> [id \in {1} |-> FirstSchedule]]
       /\ registry = {ieee}
  /\ open = FALSE /\ made = [c \in Collections |-> 1] /\ taps = 0 /\ joins = 0

-----------------------------------------------------------------------------
(* bridge.dispatch.  The lists that an on_ok asks for are the operations a *)
(* tap can overtake.                                                       *)
Listing(o) == o.op = "list"
Touch ==
  /\ ~rushed /\ \A i \in DOMAIN queue : Listing(queue[i])
  /\ rushed' = (queue # <<>>)
Pending(c, q) == \E i \in DOMAIN q : q[i].on = c

Dispatch(o) ==
  /\ taps < MaxTaps
  /\ queue' = Append(queue, o) /\ taps' = taps + 1

Op(op, c, id) == [op |-> op, on |-> c, id |-> id]
Write(op, c, id, data, fields) ==
  [op |-> op, on |-> c, id |-> id, data |-> data, fields |-> fields, sure |-> sure]

(* What the store shows of c becomes what the repository holds.  A tap that *)
(* showed its effect at once and has not been served is undone on the      *)
(* screen, and then served: c stays in doubt until it is published again.  *)
Published(cs, q) == (doubt \ cs) \cup {c \in cs : Pending(c, q)}

Loaded(s) == screen' = s
Stay == UNCHANGED <<room, device, sure>>
Brain == <<repo, radio, made, doubt>>

-----------------------------------------------------------------------------
(* pages.page_open, the back buttons, and cancelling a text: cached screens *)
(* are loaded again.  Nothing reads what a page was opened with once it is *)
(* left.                                                                   *)
BackTo == [house |-> "home", schedules |-> "home", room |-> "house", device |-> "room",
           picker |-> "device", new_room |-> "house", room_name |-> "room",
           device_name |-> "device"]

LeftPage ==
  /\ room' = IF screen = "room" THEN None ELSE room
  /\ device' = IF screen = "device" THEN NoDevice ELSE device
  /\ sure' = (screen # "device" => sure)

PageOpen ==
  /\ Touch /\ screen = "home"
  /\ \E page \in {"house", "schedules"} : Loaded(page)
  /\ Stay /\ UNCHANGED <<repo, store, radio, pairing, queue, made, taps, doubt, wizard>>

Back ==
  /\ Touch /\ screen \in DOMAIN BackTo
  /\ Loaded(BackTo[screen]) /\ LeftPage
  /\ UNCHANGED <<repo, store, radio, pairing, queue, made, taps, doubt, wizard>>

TextOpen ==
  /\ Touch
  /\ \/ screen = "house" /\ Loaded("new_room")
     \/ screen = "room" /\ room # None /\ Loaded("room_name")
     \/ screen = "device" /\ Loaded("device_name")
  /\ Stay /\ UNCHANGED <<repo, store, radio, pairing, queue, made, taps, doubt, wizard>>

-----------------------------------------------------------------------------
(* The rooms, and the devices of one.                                      *)
EndpointsHere(zone) ==
  {e \in DOMAIN store.endpoints :
     IF zone = None THEN store.endpoints[e].zone \notin DOMAIN store.zones
     ELSE store.endpoints[e].zone = zone}

OpenRoom ==
  /\ Touch /\ screen = "house"
  /\ \E zone \in DOMAIN store.zones \cup (IF EndpointsHere(None) = {} THEN {} ELSE {None}) :
       room' = zone
  /\ Loaded("room")
  /\ UNCHANGED <<repo, store, radio, pairing, device, sure, queue, made, taps, doubt, wizard>>

CreateRoom(name) ==
  /\ Touch /\ screen = "new_room" /\ Loaded("house")
  /\ Dispatch(Write("create", "zones", None, name, {}))
  /\ Stay /\ UNCHANGED <<Brain, store, pairing, wizard>>

SaveRoomName(name) ==
  /\ Touch /\ screen = "room_name" /\ Loaded("room")
  /\ Dispatch(Write("update", "zones", room, name, {"name"}))
  /\ store' = [store EXCEPT !.zones = [z \in DOMAIN @ |-> IF z = room THEN name ELSE @[z]]]
  /\ Stay /\ UNCHANGED <<Brain, pairing, wizard>>

DeleteRoom ==
  /\ Touch /\ screen = "room" /\ room # None
  /\ Dispatch(Op("delete", "zones", room))
  /\ UNCHANGED <<Brain, store, pairing, ui, wizard>>

(* A second tap cancels; the network stays open.                           *)
AddDevice ==
  /\ Touch /\ screen = "room" /\ room # None
  /\ IF pairing = room
     THEN pairing' = None /\ UNCHANGED <<queue, taps>>
     ELSE pairing' = room /\ Dispatch(Op("permit_join", "network", None))
  /\ UNCHANGED <<Brain, store, ui, wizard>>

-----------------------------------------------------------------------------
(* The page of one device edits a copy of its record.                      *)
OpenDevice ==
  /\ Touch /\ screen = "room"
  /\ \E e \in EndpointsHere(room) : device' = [id |-> e, row |-> store.endpoints[e]]
  /\ sure' = ("endpoints" \notin doubt)
  /\ Loaded("device")
  /\ UNCHANGED <<repo, store, radio, pairing, room, queue, made, taps, doubt, wizard>>

(* Mutant of Edited: the page goes on with the record it was opened with.  *)
EditedNot(row) == device

(* What the page goes on with after a rename.                              *)
Edited(row) == [device EXCEPT !.row = row]

SaveName(name) ==
  /\ Touch /\ screen = "device_name" /\ Loaded("device")
  /\ \E row \in {[device.row EXCEPT !.name = name]} :
       /\ Dispatch(Write("update", "endpoints", device.id, row, {"name"}))
       /\ device' = Edited(row)
  /\ store' = [store EXCEPT !.endpoints =
                 [e \in DOMAIN @ |-> IF e = device.id THEN [@[e] EXCEPT !.name = name] ELSE @[e]]]
  /\ UNCHANGED <<Brain, pairing, room, sure, wizard>>

Move ==
  /\ Touch /\ screen = "device"
  /\ Loaded("picker")
  /\ UNCHANGED <<repo, store, radio, pairing, room, device, sure, queue, made, taps, doubt, wizard>>

(* Nothing is shown before the answer, which may be a refusal.             *)
ApplyMove ==
  /\ Touch /\ screen = "picker" /\ Loaded("device")
  /\ \E zone \in DOMAIN store.zones \cup {None} :
       Dispatch(Write("update", "endpoints", device.id, [device.row EXCEPT !.zone = zone], {"zone"}))
  /\ Stay /\ UNCHANGED <<Brain, store, pairing, wizard>>

(* Mutant of RemoveDevice: it is gone from the screen at once.             *)
RemoveDeviceAtOnce ==
  /\ Touch /\ screen = "device"
  /\ Dispatch(Op("delete", "endpoints", device.id))
  /\ store' = [store EXCEPT !.endpoints = Without(@, device.id)]
  /\ UNCHANGED <<Brain, pairing, ui, wizard>>

(* Not shown before the answer: it is refused while a schedule uses it.    *)
RemoveDevice ==
  /\ Touch /\ screen = "device"
  /\ Dispatch(Op("delete", "endpoints", device.id))
  /\ UNCHANGED <<Brain, store, pairing, ui, wizard>>

-----------------------------------------------------------------------------
(* The schedules.                                                          *)
SetEnabled ==
  /\ Touch /\ screen = "schedules"
  /\ \E s \in DOMAIN store.schedules :
       \E on \in {~store.schedules[s].enabled} :
         /\ Dispatch(Write("set_enabled", "schedules", s, on, {"enabled"}))
         /\ store' = [store EXCEPT !.schedules[s].enabled = on]
  /\ UNCHANGED <<Brain, pairing, ui, wizard>>

DeleteSchedule ==
  /\ Touch /\ screen = "schedules"
  /\ \E s \in DOMAIN store.schedules :
       /\ Dispatch(Op("delete", "schedules", s))
       /\ store' = [store EXCEPT !.schedules = Without(@, s)]
  /\ UNCHANGED <<Brain, pairing, ui, wizard>>

EditSchedule ==
  /\ Touch /\ screen = "schedules" /\ taps < MaxTaps
  /\ \/ OpenWizard(NoDraft)
     \/ \E s \in DOMAIN store.schedules : OpenWizard(With(store.schedules[s], "id", s))
  /\ sure' = ("schedules" \notin doubt /\ ~Pending("schedules", queue))
  /\ Loaded("wizard")
  /\ UNCHANGED <<repo, store, radio, pairing, room, device, queue, made, taps, doubt>>

InWizard ==
  /\ Touch /\ screen = "wizard"
  /\ \/ WizardStep(DOMAIN store.endpoints) /\ Loaded("wizard")
     \/ LeaveWizard /\ Loaded("schedules")
  /\ sure' = (screen' # "schedules" => sure)
  /\ UNCHANGED <<repo, store, radio, pairing, room, device, queue, made, taps, doubt>>

(* The wizard closes before the answer, and asks for none if it fails.     *)
SaveSchedule ==
  /\ Touch /\ screen = "wizard" /\ Loaded("schedules")
  /\ \E d \in Finished :
       IF d.id = None
       THEN Dispatch(Write("create", "schedules", None, Without(d, "id"), {}))
       ELSE Dispatch(Write("update", "schedules", d.id, Without(d, "id"), DOMAIN d \ {"enabled"}))
  /\ Left /\ sure' = TRUE
  /\ UNCHANGED <<Brain, store, pairing, room, device>>

-----------------------------------------------------------------------------
(* The runners: an operation of the Api and its on_ok.  With no on_ok the  *)
(* store keeps what the tap showed.                                        *)
Head1 == queue[1]
Runs(op, c) == queue # <<>> /\ Head1.op = op /\ Head1.on = c
Ran ==
  /\ queue' = Tail(queue)
  /\ rushed' = (rushed /\ \E i \in DOMAIN queue' : Listing(queue'[i]))
RanAndAsks(c) == queue' = Append(Tail(queue), Op("list", c, None)) /\ UNCHANGED rushed
Same == UNCHANGED <<pairing, taps, wizard>>

(* CrudService._check_not_referenced.                                      *)
InUse(c, id) ==
  CASE c = "zones" -> \E e \in DOMAIN repo.endpoints : repo.endpoints[e].zone = id
    [] c = "endpoints" -> \E s \in DOMAIN repo.schedules : repo.schedules[s].target = id
    [] OTHER -> FALSE

Linked(endpoints) == {endpoints[e].ieee : e \in DOMAIN endpoints}

Saved(c, id, v) == repo' = [repo EXCEPT ![c] = With(@, id, v)]

(* zones.create and schedules.create, then the list.                       *)
Create(c) ==
  /\ Runs("create", c)
  /\ IF c = "schedules" /\ ~ValidSchedule(Head1.data)
     THEN Ran /\ UNCHANGED <<repo, made>>
     ELSE /\ made' = [made EXCEPT ![c] = @ + 1]
          /\ Saved(c, made'[c], Head1.data)
          /\ RanAndAsks(c)
  /\ Same /\ UNCHANGED <<store, radio, ui, doubt>>

UpdateRoom ==
  /\ Runs("update", "zones")
  /\ IF Head1.id \in DOMAIN repo.zones THEN Saved("zones", Head1.id, Head1.data)
     ELSE UNCHANGED repo
  /\ Ran /\ Same /\ UNCHANGED <<store, radio, made, ui, doubt>>

(* endpoints.update replaces the record; a move then shows it, and the page *)
(* goes on with the record of the store.                                   *)
UpdateDevice ==
  /\ Runs("update", "endpoints")
  /\ \E id \in {Head1.id}, row \in {Head1.data} :
       IF id \notin DOMAIN repo.endpoints THEN UNCHANGED <<repo, store, device, sure>>
       ELSE /\ Saved("endpoints", id, row)
            /\ IF "zone" \in Head1.fields /\ id \in DOMAIN store.endpoints
               THEN /\ store' = [store EXCEPT !.endpoints[id].zone = row.zone]
                    /\ device' = [device EXCEPT !.row = store'.endpoints[id]]
                    /\ sure' = (sure /\ "endpoints" \notin doubt)
               ELSE UNCHANGED <<store, device, sure>>
  /\ doubt' = IF Head1.sure THEN doubt ELSE doubt \cup {"endpoints"}
  /\ Ran /\ Same /\ UNCHANGED <<radio, made, screen, room>>

UpdateSchedule ==
  /\ Runs("update", "schedules")
  /\ IF Head1.id \in DOMAIN repo.schedules /\ ValidSchedule(Head1.data)
     THEN Saved("schedules", Head1.id, Head1.data) /\ RanAndAsks("schedules")
     ELSE Ran /\ UNCHANGED repo
  /\ Same /\ UNCHANGED <<store, radio, made, ui, doubt>>

UpdateEnabled ==
  /\ Runs("set_enabled", "schedules")
  /\ IF Head1.id \in DOMAIN repo.schedules
     THEN repo' = [repo EXCEPT !.schedules[Head1.id].enabled = Head1.data]
     ELSE UNCHANGED repo
  /\ Ran /\ Same /\ UNCHANGED <<store, radio, made, ui, doubt>>

(* Mutant of Gone: the page stays.                                         *)
GoneStays(c) == UNCHANGED ui

(* on_ok leaves the page of what is gone.                                  *)
Gone(c) ==
  IF c = "schedules" THEN UNCHANGED ui ELSE Loaded(BackTo[screen]) /\ LeftPage

(* A refusal is a toast.  An endpoint that goes takes its device off the   *)
(* network unless another endpoint is on it (Api._release_radio_device).   *)
Delete(c) ==
  /\ Runs("delete", c)
  /\ \E id \in {Head1.id} :
       IF id \notin DOMAIN repo[c] \/ InUse(c, id)
       THEN UNCHANGED <<repo, store, registry, ui>>
       ELSE /\ repo' = [repo EXCEPT ![c] = Without(@, id)]
            /\ store' = [store EXCEPT ![c] = Without(@, id)]
            /\ Gone(c)
            /\ registry' = registry \
                 (IF c # "endpoints" THEN {}
                  ELSE {repo.endpoints[id].ieee} \ Linked(repo'.endpoints))
  /\ Ran /\ Same /\ UNCHANGED <<open, joins, made, doubt>>

List(c) ==
  /\ Runs("list", c)
  /\ store' = [store EXCEPT ![c] = repo[c]]
  /\ doubt' = Published({c}, Tail(queue))
  /\ Ran /\ Same /\ UNCHANGED <<repo, radio, made, ui>>

PermitJoin ==
  /\ Runs("permit_join", "network")
  /\ open' = TRUE
  /\ Ran /\ Same /\ UNCHANGED <<repo, store, registry, joins, made, ui, doubt>>

Serve ==
  \/ \E c \in {"zones", "schedules"} : Create(c) \/ List(c)
  \/ \E c \in Collections : Delete(c)
  \/ UpdateRoom \/ UpdateDevice \/ UpdateSchedule \/ UpdateEnabled \/ PermitJoin

-----------------------------------------------------------------------------
(* Mutant of Adoptable: by the endpoints that were last published.         *)
AdoptableByStore == registry \ Linked(store.endpoints)

(* Joined, and no endpoint is on it.                                       *)
Adoptable == registry \ Linked(repo.endpoints)

(* _devices_refresh with _try_autopair.  The record of a paired device     *)
(* takes the zone that is paired into, whether or not it still exists.     *)
Refresh ==
  /\ IF pairing = None \/ Adoptable = {}
     THEN store' = repo /\ UNCHANGED <<repo, pairing, made>>
     ELSE \E ieee \in Adoptable, name \in Names :
            /\ made' = [made EXCEPT !.endpoints = @ + 1]
            /\ Saved("endpoints", made'.endpoints, [name |-> name, zone |-> pairing, ieee |-> ieee])
            /\ store' = repo' /\ pairing' = None
  /\ doubt' = Published(Collections, queue)
  /\ UNCHANGED <<radio, ui, queue, rushed, taps, wizard>>

(* The world: a device joins while the network is open, the network closes *)
(* and the panel loses power, with every tap that has not been served.     *)
Join(ieee) ==
  /\ open /\ ieee \notin registry /\ joins < MaxJoins
  /\ registry' = registry \cup {ieee} /\ joins' = joins + 1
  /\ UNCHANGED <<repo, store, open, pairing, ui, queue, rushed, made, taps, doubt, wizard>>

NetworkCloses ==
  /\ open /\ open' = FALSE
  /\ UNCHANGED <<repo, store, registry, joins, pairing, ui, queue, rushed, made, taps, doubt, wizard>>

Reboot ==
  /\ store' = Nothing /\ doubt' = Collections
  /\ pairing' = None /\ queue' = <<>> /\ rushed' = FALSE /\ sure' = TRUE
  /\ screen' = "home" /\ room' = None /\ device' = NoDevice
  /\ stack' = <<>> /\ draft' = NoDraft /\ sign' = -1
  /\ UNCHANGED <<repo, radio, made, taps>>

Tap ==
  \/ PageOpen \/ Back \/ TextOpen \/ OpenRoom \/ OpenDevice \/ Move
  \/ \E name \in Names : CreateRoom(name) \/ SaveRoomName(name) \/ SaveName(name)
  \/ DeleteRoom \/ AddDevice \/ ApplyMove \/ RemoveDevice
  \/ SetEnabled \/ DeleteSchedule \/ EditSchedule \/ InWizard \/ SaveSchedule

Next ==
  \/ Tap \/ Serve \/ Refresh
  \/ \E ieee \in Ieees : Join(ieee)
  \/ NetworkCloses \/ Reboot

Spec == Init /\ [][Next]_vars

-----------------------------------------------------------------------------
(* Outside doubt the store shows what the repository holds as soon as the  *)
(* taps on a collection are served: each tap shows what the brain will do, *)
(* each on_ok what it did, and a refused one shows nothing.                *)
StoreIsCurrent ==
  \A c \in Collections \ doubt : Pending(c, queue) \/ store[c] = repo[c]

(* Records are replaced whole, yet one edit changes one thing: a rename    *)
(* does not undo a move nor a move a rename, and editing a schedule leaves *)
(* it enabled or disabled as it was.  Excused is a page whose record came  *)
(* from a store in doubt: a refresh under way while a rename is served     *)
(* republishes the old name, a move then takes its record from the store   *)
(* (device_page.py:94-105), and the next move sends it whole and undoes    *)
(* the rename.                                                             *)
OneThingPerEdit ==
  [][\A c \in Collections :
       \A id \in DOMAIN repo[c] \cap DOMAIN repo'[c] :
         c # "zones" /\ queue # <<>> /\ repo[c][id] # repo'[c][id] /\ Head1.sure =>
           \A f \in DOMAIN repo[c][id] \ Head1.fields : repo'[c][id][f] = repo[c][id][f]]_vars

(* The wizard closes before the brain has answered, so what it saves must  *)
(* be accepted; only an offset may be too far.                             *)
WizardSavesValid ==
  \A i \in DOMAIN queue :
    queue[i].on = "schedules" /\ queue[i].op \in {"create", "update"} =>
      ValidSchedule(queue[i].data) \/ OffsetTooFar(queue[i].data)

(* A radio is behind at most one endpoint that pairing made, whatever      *)
(* joins, leaves or is removed.                                            *)
PairedOnce ==
  \A e1, e2 \in DOMAIN repo.endpoints :
    repo.endpoints[e1].ieee = repo.endpoints[e2].ieee => e1 = e2

(* A page edits a record that exists: it is left when the record goes.     *)
PageHasItsRecord ==
  /\ screen \in {"device", "device_name", "picker"} => device.id \in DOMAIN repo.endpoints
  /\ screen \in {"room", "room_name"} /\ room # None => room \in DOMAIN repo.zones
=============================================================================
