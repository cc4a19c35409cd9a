----------------------------- MODULE PanelProofs -----------------------------
(***************************************************************************)
(* Theorems about Panel, for every set of radios and names, whatever is    *)
(* typed and however many taps and joins: what the screens show is what    *)
(* the brain holds, a page edits a record that exists, one edit changes    *)
(* one thing, the wizard saves what the brain accepts, and a radio is      *)
(* paired once.                                                            *)
(***************************************************************************)
EXTENDS Panel, SequenceTheorems, TLAPS

(***************************************************************************)
(* The inductive invariant.                                                *)
(***************************************************************************)

(* The operation that waits, and the lists that do.  No more than one list *)
(* is overtaken, by one operation.                                         *)
IsSequence(q) == \E X : q \in Seq(X)
Working(q) == {q[i] : i \in {j \in 1 .. Len(q) : ~ Listing(q[j])}}
Lists(q) == {q[i].on : i \in {j \in 1 .. Len(q) : Listing(q[j])}}
Queued ==
  /\ IsSequence(queue) /\ Len(queue) <= 2
  /\ Len(queue) = 2 => Listing(queue[1]) /\ ~ Listing(queue[2])
  /\ Lists(queue) \subseteq {"zones", "schedules"}

(* The records, in the repository and in the store.                        *)
IsTable(f) == f = [x \in DOMAIN f |-> f[x]]
IsEndpoint(r) == r = [name |-> r.name, zone |-> r.zone, ieee |-> r.ieee]
Fields == {"id", "target", "enabled", "type", "when", "recurrence", "days"}
IsSchedule(s) == s = [f \in Fields \ {"id"} |-> s[f]] /\ s["enabled"] \in BOOLEAN
IsRecord(c, r) ==
  CASE c = "endpoints" -> IsEndpoint(r)
    [] c = "schedules" -> IsSchedule(r)
    [] OTHER -> TRUE
Tables(r) ==
  /\ r = [c \in Collections |-> r[c]]
  /\ \A c \in Collections : IsTable(r[c]) /\ \A id \in DOMAIN r[c] : IsRecord(c, r[c][id])
Stored ==
  /\ Tables(repo) /\ Tables(store)
  /\ made \in [Collections -> Nat]
  /\ \A c \in Collections : /\ DOMAIN repo[c] \subseteq 1 .. made[c]
                            /\ DOMAIN store[c] \subseteq DOMAIN repo[c]
  /\ \A e \in DOMAIN store["endpoints"] :
       store["endpoints"][e].ieee = repo["endpoints"][e].ieee
  /\ PairedOnce

(* What the pages are about.                                               *)
RoomPages == {"room", "room_name"}
DevicePages == {"device", "device_name", "picker"}
Paged ==
  /\ screen \in {"home", "house", "schedules", "wizard", "new_room"} \cup RoomPages \cup DevicePages
  /\ device = [id |-> device.id, row |-> device.row]
  /\ screen = "room_name" => room # None
  /\ screen \in RoomPages \cup DevicePages /\ room # None => room \in DOMAIN repo["zones"]
  /\ screen \in DevicePages =>
       /\ device.id \in DOMAIN store["endpoints"]
       /\ IsEndpoint(device.row) /\ device.row.ieee = repo["endpoints"][device.id].ieee

(* Until it is served an operation keeps the page it came from.            *)
Renames(o) == o.op = "update" /\ o.on = "endpoints" /\ o.fields = {"name"}
Moves(o) == o.op = "update" /\ o.on = "endpoints" /\ o.fields = {"zone"}
Saves(o) == o.op \in {"create", "update"} /\ o.on = "schedules"
FromPage(o) ==
  \/ o.op = "create" /\ o.on = "zones"
  \/ o.op = "update" /\ o.on = "zones" /\ screen = "room"
  \/ o.op = "delete" /\ o.on = "zones" /\ screen = "room" /\ o.id = room
  \/ o.op = "permit_join" /\ o.on = "network"
  \/ Renames(o) /\ screen = "device" /\ o.id = device.id /\ o.sure = sure /\ o.data = device.row
  \/ /\ Moves(o) /\ screen = "device" /\ o.id = device.id /\ o.sure = sure
     /\ o.data = [device.row EXCEPT !.zone = o.data.zone]
  \/ o.op = "delete" /\ o.on = "endpoints" /\ screen = "device" /\ o.id = device.id
  \/ /\ Saves(o) /\ screen = "schedules" /\ IsSchedule(o.data)
     /\ ValidSchedule(o.data) \/ OffsetTooFar(o.data)
     /\ o.op = "update" => o.fields = Fields \ {"enabled"}
     /\ o.op = "update" /\ o.sure /\ o.id \in DOMAIN repo["schedules"] =>
          o.data["enabled"] = repo["schedules"][o.id]["enabled"]
  \/ /\ o.op = "set_enabled" /\ o.on = "schedules" /\ screen = "schedules"
     /\ o.data \in BOOLEAN /\ o.fields = {"enabled"}
  \/ o.op = "delete" /\ o.on = "schedules" /\ screen = "schedules"
Asked == \A o \in Working(queue) : FromPage(o)

(* What the store shows of a collection: what is stored, with the change   *)
(* that waits if it is shown at once.                                      *)
Shown(o, c) ==
  LET Put(v) == [id \in DOMAIN repo[c] |-> IF id = o.id THEN v ELSE repo[c][id]]
  IN  CASE o.on = "zones" /\ c = "zones" /\ o.op = "update" -> Put(o.data)
        [] Renames(o) /\ c = "endpoints" ->
             Put([repo[c][o.id] EXCEPT !.name = o.data.name])
        [] o.on = "schedules" /\ c = "schedules" /\ o.op = "set_enabled" ->
             Put([repo[c][o.id] EXCEPT !["enabled"] = o.data])
        [] o.on = "schedules" /\ c = "schedules" /\ o.op = "delete" -> Without(repo[c], o.id)
        [] OTHER -> repo[c]
Current ==
  /\ doubt \subseteq Collections
  /\ \A c \in Collections \ (doubt \cup Lists(queue)) :
       /\ Working(queue) = {} => store[c] = repo[c]
       /\ \A o \in Working(queue) : store[c] = Shown(o, c)

(* A page that is sure edits the record as it is stored.                   *)
PageCurrent ==
  screen \in DevicePages /\ sure =>
    IF \E o \in Working(queue) : Renames(o)
    THEN device.row = [repo["endpoints"][device.id] EXCEPT !.name = device.row.name]
    ELSE device.row = repo["endpoints"][device.id]

(* The steps of the wizard stand in their places, and the draft has what   *)
(* they rest on.                                                           *)
Place == [target |-> {1}, action |-> {2}, trigger_type |-> {3}, fixed_time |-> {4},
          zman |-> {4}, offset |-> {5}, recurrence |-> {5, 6}, days |-> {6, 7}]
RestsOn(step) ==
  /\ step # "target" => draft["target"] # None
  /\ step = "zman" => draft["type"] \in {"zman", "zman_offset"}
  /\ step = "offset" => draft["type"] = "zman_offset" /\ "zman" \in DOMAIN draft["when"]
  /\ step \in {"recurrence", "days"} => WhenExists(draft)
Stepped ==
  /\ IsSequence(stack)
  /\ \A k \in 1 .. Len(stack) :
       stack[k] \in DOMAIN Place /\ k \in Place[stack[k]] /\ RestsOn(stack[k])
Drafted ==
  /\ Stepped
  /\ draft = [f \in Fields |-> draft[f]] /\ draft["enabled"] \in BOOLEAN \cup {None}
  /\ screen = "wizard" =>
       /\ Working(queue) = {} /\ stack # <<>>
       /\ sure /\ draft["id"] # None =>
            /\ draft["id"] \in DOMAIN repo["schedules"]
            /\ draft["enabled"] = repo["schedules"][draft["id"]]["enabled"]

IInv == Queued /\ Stored /\ Paged /\ Asked /\ Current /\ PageCurrent /\ Drafted

(***************************************************************************)
(* Lemmas about the queue.                                                 *)
(***************************************************************************)

(* What a sequence is, when one element is added or taken.                 *)
LEMMA SequenceIs ==
  ASSUME NEW q, IsSequence(q)
  PROVE  Len(q) \in Nat /\ DOMAIN q = 1 .. Len(q) /\ (q = <<>> <=> Len(q) = 0)
BY LenProperties, EmptySeq DEF IsSequence

(* What a sequence is when one more is put at its end.                     *)
LEMMA AddedIs ==
  ASSUME NEW q, IsSequence(q), NEW o
  PROVE  LET r == Append(q, o)
         IN  /\ IsSequence(r) /\ Len(r) = Len(q) + 1 /\ r # <<>> /\ DOMAIN r = 1 .. Len(q) + 1
             /\ \A i \in 1 .. Len(q) : r[i] = q[i]
             /\ r[Len(q) + 1] = o
<1>1. PICK X : q \in Seq(X)
  BY DEF IsSequence
<1> DEFINE Y == X \cup {o}
<1>2. Len(q) \in Nat /\ \A i \in 1 .. Len(q) : q[i] \in Y
  BY <1>1, LenProperties, ElementOfSeq
<1>3. q = [i \in 1 .. Len(q) |-> q[i]]
  BY <1>1, LenProperties
<1>4. q \in Seq(Y) /\ o \in Y
  BY <1>2, <1>3, SeqDef
<1>5. Append(q, o) \in Seq(Y)
  BY <1>4, AppendProperties
<1>6. DOMAIN Append(q, o) = 1 .. Len(Append(q, o))
  BY <1>5, LenProperties
<1>7. QED
  BY <1>4, <1>5, <1>6, AppendProperties DEF IsSequence

(* What is left of a sequence when its first is taken.                     *)
LEMMA TakenIs ==
  ASSUME NEW q, IsSequence(q), q # <<>>
  PROVE  LET r == Tail(q)
         IN  /\ IsSequence(r) /\ Len(r) = Len(q) - 1 /\ Len(q) \in Nat \ {0}
             /\ \A i \in 1 .. Len(q) - 1 : r[i] = q[i + 1]
<1>1. PICK X : q \in Seq(X)
  BY DEF IsSequence
<1>2. Tail(q) \in Seq(X)
  BY <1>1, HeadTailProperties
<1>3. QED
  BY <1>1, <1>2, HeadTailProperties, LenProperties, EmptySeq DEF IsSequence

(* An operation is pending on what a list or the one operation is about.   *)
LEMMA PendingIs ==
  ASSUME Queued, NEW c
  PROVE  Pending(c, queue) <=> c \in Lists(queue) \/ \E o \in Working(queue) : o.on = c
<1>1. DOMAIN queue = 1 .. Len(queue)
  BY SequenceIs DEF Queued
<1>2. QED
  BY <1>1 DEF Pending, Lists, Working

(* A tap finds only lists in the queue.                                    *)
LEMMA TouchedQueue ==
  ASSUME Queued, Touch
  PROVE  /\ Working(queue) = {} /\ Len(queue) \in {0, 1}
         /\ \A i \in 1 .. Len(queue) : Listing(queue[i])
<1>1. DOMAIN queue = 1 .. Len(queue) /\ Len(queue) \in Nat
  BY SequenceIs DEF Queued
<1>2. \A i \in 1 .. Len(queue) : Listing(queue[i])
  BY <1>1 DEF Touch
<1>3. Len(queue) # 2
  BY <1>1, <1>2 DEF Queued
<1>4. QED
  BY <1>1, <1>2, <1>3 DEF Queued, Working

(* The operation of a tap is the only one that waits.                      *)
LEMMA DispatchedQueue ==
  ASSUME Queued, Touch, NEW o, ~ Listing(o), Dispatch(o)
  PROVE  /\ Queued' /\ Working(queue) = {} /\ Working(queue') = {o}
         /\ Lists(queue') = Lists(queue)
<1>1. /\ Working(queue) = {} /\ Len(queue) \in {0, 1} /\ IsSequence(queue)
      /\ \A i \in 1 .. Len(queue) : Listing(queue[i])
  BY TouchedQueue DEF Queued
<1> DEFINE n == Len(queue)
<1>2. /\ IsSequence(queue') /\ Len(queue') = n + 1
      /\ (\A i \in 1 .. n : queue'[i] = queue[i]) /\ queue'[n + 1] = o
  BY <1>1, AddedIs DEF Dispatch
<1>3. /\ n \in {0, 1} /\ 1 .. n + 1 = (1 .. n) \cup {n + 1} /\ n + 1 \notin 1 .. n
  BY <1>1
<1> HIDE DEF n
<1>4. {j \in 1 .. Len(queue') : ~ Listing(queue'[j])} = {n + 1}
  BY <1>1, <1>2, <1>3 DEF n
<1>5. {j \in 1 .. Len(queue') : Listing(queue'[j])} = {j \in 1 .. n : Listing(queue[j])}
  BY <1>1, <1>2, <1>3 DEF n
<1>6. Working(queue') = {o}
  BY <1>2, <1>4 DEF Working
<1>7. Lists(queue') = Lists(queue)
  BY <1>2, <1>5 DEF Lists, n
<1>8. Queued'
  <2>1. Len(queue') <= 2 /\ (Len(queue') = 2 => Listing(queue'[1]) /\ ~ Listing(queue'[2]))
    BY <1>1, <1>2, <1>3 DEF n
  <2>2. QED
    BY <1>2, <1>7, <2>1 DEF Queued
<1>9. QED
  BY <1>1, <1>6, <1>7, <1>8

(* Nothing waits in an empty queue.                                        *)
LEMMA EmptyQueue ==
  ASSUME NEW q, IsSequence(q), Len(q) = 0
  PROVE  q = <<>> /\ Working(q) = {} /\ Lists(q) = {}
BY SequenceIs DEF Working, Lists

(* What is left of the queue when a runner is done.                        *)
LEMMA TakenQueue ==
  ASSUME Queued, queue # <<>>, NEW t, t = Tail(queue)
  PROVE  /\ IsSequence(t) /\ Len(t) \in {0, 1}
         /\ ~ Listing(Head1) => /\ Len(t) = 0 /\ Working(t) = {} /\ Lists(t) = {}
                                /\ Working(queue) = {Head1} /\ Lists(queue) = {}
         /\ Listing(Head1) => /\ Working(t) = Working(queue)
                              /\ Lists(queue) = {Head1.on} /\ Lists(t) = {}
<1>1. /\ IsSequence(queue) /\ IsSequence(t) /\ Len(t) = Len(queue) - 1
      /\ Len(queue) \in Nat \ {0} /\ Len(queue) <= 2
      /\ \A i \in 1 .. Len(queue) - 1 : t[i] = queue[i + 1]
  BY TakenIs DEF Queued
<1>2. Len(queue) \in {1, 2} /\ Len(t) \in {0, 1}
  BY <1>1
<1>4. CASE ~ Listing(Head1)
  <2>1. Len(queue) = 1 /\ Len(t) = 0
    BY <1>1, <1>2, <1>4 DEF Queued, Head1
  <2>2. Working(t) = {} /\ Lists(t) = {}
    BY <1>1, <2>1, EmptyQueue
  <2>3. {j \in 1 .. Len(queue) : ~ Listing(queue[j])} = {1}
        /\ {j \in 1 .. Len(queue) : Listing(queue[j])} = {}
    BY <1>4, <2>1 DEF Head1
  <2>4. Working(queue) = {Head1} /\ Lists(queue) = {}
    BY <2>3 DEF Working, Lists, Head1
  <2>5. QED
    BY <1>1, <1>2, <1>4, <2>1, <2>2, <2>4
<1>5. CASE Listing(Head1) /\ Len(queue) = 1
  <2>0. Len(t) = 0
    BY <1>1, <1>5
  <2>1. Working(t) = {} /\ Lists(t) = {}
    BY <1>1, <2>0, EmptyQueue
  <2>2. {j \in 1 .. Len(queue) : ~ Listing(queue[j])} = {}
        /\ {j \in 1 .. Len(queue) : Listing(queue[j])} = {1}
    BY <1>5 DEF Head1
  <2>3. Working(queue) = {} /\ Lists(queue) = {Head1.on}
    BY <2>2 DEF Working, Lists, Head1
  <2>4. QED
    BY <1>1, <1>2, <1>5, <2>1, <2>3
<1>6. CASE Listing(Head1) /\ Len(queue) = 2
  <2>1. t[1] = queue[2] /\ Len(t) = 1 /\ ~ Listing(queue[2])
    BY <1>1, <1>6 DEF Queued
  <2>2. {j \in 1 .. Len(queue) : ~ Listing(queue[j])} = {2}
        /\ {j \in 1 .. Len(queue) : Listing(queue[j])} = {1}
    BY <1>6, <2>1 DEF Head1
  <2>3. 1 .. 1 = {1}
    OBVIOUS
  <2>4. {j \in 1 .. Len(t) : ~ Listing(t[j])} = {1}
        /\ {j \in 1 .. Len(t) : Listing(t[j])} = {}
    BY <2>1, <2>3
  <2>5. Working(queue) = {queue[2]} /\ Lists(queue) = {Head1.on}
    BY <2>2 DEF Working, Lists, Head1
  <2>6. Working(t) = {queue[2]} /\ Lists(t) = {}
    BY <2>1, <2>4 DEF Working, Lists
  <2>7. QED
    BY <1>1, <1>2, <1>6, <2>5, <2>6
<1>7. QED
  BY <1>2, <1>4, <1>5, <1>6

(* An operation is served, and nothing waits.                              *)
LEMMA RanQueue ==
  ASSUME Queued, queue # <<>>, ~ Listing(Head1), queue' = Tail(queue)
  PROVE  /\ Queued' /\ Working(queue) = {Head1} /\ Lists(queue) = {}
         /\ Working(queue') = {} /\ Lists(queue') = {}
<1>1. /\ IsSequence(queue') /\ Len(queue') = 0 /\ Working(queue') = {} /\ Lists(queue') = {}
      /\ Working(queue) = {Head1} /\ Lists(queue) = {}
  BY TakenQueue
<1>2. QED
  BY <1>1 DEF Queued

(* An operation is served, and only the list it asked for waits.           *)
LEMMA AsksQueue ==
  ASSUME Queued, queue # <<>>, ~ Listing(Head1), NEW c \in {"zones", "schedules"},
         RanAndAsks(c)
  PROVE  /\ Queued' /\ Working(queue) = {Head1} /\ Lists(queue) = {}
         /\ Working(queue') = {} /\ Lists(queue') = {c}
<1> DEFINE o == Op("list", c, None)
           t == Tail(queue)
<1>1. /\ IsSequence(t) /\ Len(t) = 0 /\ Working(queue) = {Head1} /\ Lists(queue) = {}
  BY TakenQueue
<1>2. queue' = Append(t, o)
  BY DEF RanAndAsks
<1>3. Listing(o) /\ o.on = c
  BY DEF Listing, Op
<1> HIDE DEF o, t
<1>4. IsSequence(queue') /\ Len(queue') = 1 /\ queue'[1] = o
  <2>1. IsSequence(queue') /\ Len(queue') = Len(t) + 1 /\ queue'[Len(t) + 1] = o
    BY <1>1, <1>2, AddedIs
  <2>2. Len(t) + 1 = 1
    BY <1>1
  <2>3. QED
    BY <2>1, <2>2
<1>5. {j \in 1 .. Len(queue') : ~ Listing(queue'[j])} = {}
      /\ {j \in 1 .. Len(queue') : Listing(queue'[j])} = {1}
  BY <1>3, <1>4
<1>6. Working(queue') = {} /\ Lists(queue') = {c}
  BY <1>3, <1>4, <1>5 DEF Working, Lists
<1>7. QED
  BY <1>1, <1>4, <1>6 DEF Queued

(* A list is served, and the operation that overtook it still waits.       *)
LEMMA ListedQueue ==
  ASSUME Queued, queue # <<>>, Listing(Head1), queue' = Tail(queue)
  PROVE  /\ Queued' /\ Working(queue') = Working(queue)
         /\ Lists(queue) = {Head1.on} /\ Lists(queue') = {}
         /\ \A c : Pending(c, queue') <=> \E o \in Working(queue) : o.on = c
<1>1. /\ IsSequence(queue') /\ Len(queue') \in {0, 1} /\ Working(queue') = Working(queue)
      /\ Lists(queue') = {} /\ Lists(queue) = {Head1.on}
  BY TakenQueue
<1>2. Queued'
  BY <1>1 DEF Queued
<1>3. DOMAIN queue' = 1 .. Len(queue')
  BY <1>1, SequenceIs
<1>4. \A c : Pending(c, queue') <=> \E o \in Working(queue) : o.on = c
  BY <1>1, <1>3 DEF Pending, Lists, Working
<1>5. QED
  BY <1>1, <1>2, <1>4

(* A reboot forgets what waits.                                            *)
LEMMA ClearedQueue ==
  ASSUME queue' = <<>>
  PROVE  Queued' /\ Working(queue') = {} /\ Lists(queue') = {}
<1>1. Len(<<>>) = 0 /\ IsSequence(<<>>)
  BY EmptySeq DEF IsSequence
<1>2. Working(queue') = {} /\ Lists(queue') = {}
  BY <1>1 DEF Working, Lists
<1>3. QED
  BY <1>1, <1>2 DEF Queued

(***************************************************************************)
(* Taps that dispatch nothing.                                             *)
(***************************************************************************)

(* The wizard's state is kept by what is not about it.                     *)
LEMMA KeepsDraft ==
  ASSUME Drafted, UNCHANGED <<stack, draft>>, screen' # "wizard"
  PROVE  Drafted'
BY DEF Drafted, Stepped, RestsOn, WhenExists

(* The records are kept by what does not write them.                       *)
LEMMA KeepsStored ==
  ASSUME Stored, UNCHANGED <<repo, store, made>>
  PROVE  Stored'
BY DEF Stored, Tables, PairedOnce

(* When nothing is shown before the answer, a collection with no list to   *)
(* come is shown as it is stored.                                          *)
LEMMA QuietTap ==
  ASSUME IInv, Touch, UNCHANGED <<repo, store, made, queue, doubt, stack, draft>>,
         screen' # "wizard", Paged', PageCurrent'
  PROVE  IInv'
<1>1. /\ Queued /\ Stored /\ Current /\ Drafted /\ Working(queue) = {}
  BY TouchedQueue DEF IInv
<1>2. Queued'
  BY <1>1 DEF Queued
<1>3. Working(queue') = {} /\ Lists(queue') = Lists(queue)
  BY <1>1
<1>4. Stored'
  BY <1>1, KeepsStored
<1>5. Asked'
  BY <1>3 DEF Asked
<1>6. Current'
  BY <1>1, <1>3 DEF Current
<1>7. Drafted'
  BY <1>1, KeepsDraft
<1>8. QED
  BY <1>2, <1>4, <1>5, <1>6, <1>7 DEF IInv

(* The screens of the back buttons.                                        *)
LEMMA BackIs ==
  /\ DOMAIN BackTo = {"house", "schedules", "room", "device", "picker", "new_room",
                      "room_name", "device_name"}
  /\ BackTo["house"] = "home" /\ BackTo["schedules"] = "home" /\ BackTo["room"] = "house"
  /\ BackTo["device"] = "room" /\ BackTo["picker"] = "device"
  /\ BackTo["new_room"] = "house" /\ BackTo["room_name"] = "room"
  /\ BackTo["device_name"] = "device"
BY DEF BackTo

(* With nothing waiting, a page that is sure has the record as stored.     *)
LEMMA PageIdle ==
  ASSUME IInv, Touch, screen \in DevicePages, sure
  PROVE  device.row = repo["endpoints"][device.id]
BY TouchedQueue DEF IInv, PageCurrent

(* A tap that stays on the pages of a device keeps the record they edit.   *)
LEMMA KeepsPage ==
  ASSUME IInv, Touch, UNCHANGED <<repo, queue, device>>, screen' \in DevicePages => screen \in DevicePages,
         screen' \in DevicePages /\ sure' => sure
  PROVE  PageCurrent'
<1>1. Working(queue') = {}
  BY TouchedQueue DEF IInv
<1>2. QED
  BY <1>1, PageIdle DEF PageCurrent

(* The pages of the home screen.                                           *)
LEMMA PageOpenStep ==
  ASSUME IInv, PageOpen
  PROVE  IInv'
<1>1. /\ Touch /\ screen' \in {"house", "schedules"}
      /\ UNCHANGED <<repo, store, made, queue, doubt, stack, draft, room, device, sure>>
  BY DEF PageOpen, Loaded, Stay, wizard
<1>2. Paged
  BY DEF IInv
<1>3. Paged'
  BY <1>1, <1>2 DEF Paged, RoomPages, DevicePages
<1>4. PageCurrent'
  BY <1>1 DEF PageCurrent, DevicePages
<1>5. QED
  BY <1>1, <1>3, <1>4, QuietTap

(* Back from a page, which forgets what it was opened with.                *)
LEMMA BackStep ==
  ASSUME IInv, Back
  PROVE  IInv'
<1>1. /\ Touch /\ screen \in DOMAIN BackTo /\ screen' = BackTo[screen]
      /\ room' = (IF screen = "room" THEN None ELSE room)
      /\ device' = (IF screen = "device" THEN NoDevice ELSE device)
      /\ sure' = (screen # "device" => sure)
      /\ UNCHANGED <<repo, store, made, queue, doubt, stack, draft>>
  BY DEF Back, Loaded, LeftPage, wizard
<1>2. Paged
  BY DEF IInv
<1>3. NoDevice = [id |-> NoDevice.id, row |-> NoDevice.row]
  BY DEF NoDevice
<1>4. Paged' /\ screen' # "wizard"
  <2>1. CASE screen \in {"house", "schedules", "new_room", "room"}
    BY <1>1, <1>2, <2>1, BackIs DEF Paged, RoomPages, DevicePages
  <2>2. CASE screen = "device"
    BY <1>1, <1>2, <1>3, <2>2, BackIs DEF Paged, RoomPages, DevicePages
  <2>3. CASE screen \in {"picker", "room_name", "device_name"}
    BY <1>1, <1>2, <2>3, BackIs DEF Paged, RoomPages, DevicePages
  <2>4. QED
    BY <1>1, <2>1, <2>2, <2>3, BackIs
<1>5. PageCurrent'
  <2>1. CASE screen \in {"picker", "device_name"}
    <3>1. screen \in DevicePages /\ device' = device /\ (sure' => sure)
      BY <1>1, <2>1 DEF DevicePages
    <3>2. QED
      BY <1>1, <3>1, KeepsPage
  <2>2. CASE screen \notin {"picker", "device_name"}
    <3>1. screen' \notin DevicePages
      BY <1>1, <2>2, BackIs DEF DevicePages
    <3>2. QED
      BY <3>1 DEF PageCurrent
  <2>3. QED
    BY <2>1, <2>2
<1>6. QED
  BY <1>1, <1>4, <1>5, QuietTap

(* A text screen over the page it belongs to.                              *)
LEMMA TextOpenStep ==
  ASSUME IInv, TextOpen
  PROVE  IInv'
<1>1. /\ Touch
      /\ \/ screen = "house" /\ screen' = "new_room"
         \/ screen = "room" /\ room # None /\ screen' = "room_name"
         \/ screen = "device" /\ screen' = "device_name"
      /\ UNCHANGED <<repo, store, made, queue, doubt, stack, draft, room, device, sure>>
  BY DEF TextOpen, Loaded, Stay, wizard
<1>2. Paged
  BY DEF IInv
<1>3. Paged'
  BY <1>1, <1>2 DEF Paged, RoomPages, DevicePages
<1>4. PageCurrent'
  BY <1>1, KeepsPage DEF DevicePages
<1>5. QED
  BY <1>1, <1>3, <1>4, QuietTap

(* A room that is shown is stored.                                         *)
LEMMA OpenRoomStep ==
  ASSUME IInv, OpenRoom
  PROVE  IInv'
<1>1. /\ Touch /\ screen' = "room"
      /\ room' \in DOMAIN store["zones"] \cup {None}
      /\ UNCHANGED <<repo, store, made, queue, doubt, stack, draft, device, sure>>
  BY DEF OpenRoom, Loaded, wizard
<1>2. Paged /\ DOMAIN store["zones"] \subseteq DOMAIN repo["zones"]
  BY DEF IInv, Stored, Collections
<1>3. Paged'
  BY <1>1, <1>2 DEF Paged, RoomPages, DevicePages
<1>4. PageCurrent'
  BY <1>1 DEF PageCurrent, DevicePages
<1>5. QED
  BY <1>1, <1>3, <1>4, QuietTap

(* A page that is sure took the record as it is stored.                    *)
LEMMA OpenDeviceStep ==
  ASSUME IInv, OpenDevice
  PROVE  IInv'
<1>1. PICK e \in EndpointsHere(room) : device' = [id |-> e, row |-> store["endpoints"][e]]
  BY DEF OpenDevice
<1>2. /\ Touch /\ screen = "room" /\ screen' = "device" /\ sure' = ("endpoints" \notin doubt)
      /\ UNCHANGED <<repo, store, made, queue, doubt, stack, draft, room>>
  BY DEF OpenDevice, Loaded, wizard
<1>3. e \in DOMAIN store["endpoints"]
  BY DEF EndpointsHere
<1>4. /\ Paged /\ IsEndpoint(store["endpoints"][e])
      /\ store["endpoints"][e].ieee = repo["endpoints"][e].ieee
  BY <1>3 DEF IInv, Stored, Tables, IsRecord, Collections
<1>5. Paged'
  BY <1>1, <1>2, <1>3, <1>4 DEF Paged, RoomPages, DevicePages
<1>6. PageCurrent'
  <2>1. Working(queue) = {} /\ "endpoints" \notin Lists(queue)
    BY <1>2, TouchedQueue DEF IInv, Queued
  <2>2. sure' => store["endpoints"] = repo["endpoints"]
    BY <1>2, <2>1 DEF IInv, Current, Collections
  <2>3. QED
    BY <1>1, <1>2, <2>1, <2>2 DEF PageCurrent
<1>7. QED
  BY <1>2, <1>5, <1>6, QuietTap

(* The picker over the page of the device.                                 *)
LEMMA MoveStep ==
  ASSUME IInv, Move
  PROVE  IInv'
<1>1. /\ Touch /\ screen = "device" /\ screen' = "picker"
      /\ UNCHANGED <<repo, store, made, queue, doubt, stack, draft, room, device, sure>>
  BY DEF Move, Loaded, wizard
<1>2. Paged
  BY DEF IInv
<1>3. Paged'
  BY <1>1, <1>2 DEF Paged, RoomPages, DevicePages
<1>4. PageCurrent'
  BY <1>1, KeepsPage DEF DevicePages
<1>5. QED
  BY <1>1, <1>3, <1>4, QuietTap


(***************************************************************************)
(* Taps that dispatch an operation.                                        *)
(***************************************************************************)

(* The store takes what a tap shows of a collection.                       *)
LEMMA ShownIs ==
  ASSUME Stored, UNCHANGED <<repo, made>>, NEW c \in Collections, NEW f,
         store' = [store EXCEPT ![c] = f],
         IsTable(f), DOMAIN f \subseteq DOMAIN store[c],
         \A id \in DOMAIN f : IsRecord(c, f[id]),
         c = "endpoints" => \A e \in DOMAIN f : f[e].ieee = repo["endpoints"][e].ieee
  PROVE  /\ Stored' /\ store'[c] = f
         /\ \A d \in Collections \ {c} : store'[d] = store[d]
<1>1. store = [d \in Collections |-> store[d]]
  BY DEF Stored, Tables
<1>2. /\ store'[c] = f /\ store' = [d \in Collections |-> store'[d]]
      /\ \A d \in Collections \ {c} : store'[d] = store[d]
  BY <1>1
<1>3. Tables(store')
  BY <1>2 DEF Stored, Tables
<1>4. \A d \in Collections : DOMAIN store'[d] \subseteq DOMAIN repo[d]
  BY <1>2 DEF Stored
<1>5. \A e \in DOMAIN store'["endpoints"] :
        store'["endpoints"][e].ieee = repo["endpoints"][e].ieee
  BY <1>2 DEF Stored, Collections
<1>6. Stored'
  BY <1>3, <1>4, <1>5 DEF Stored, Tables, PairedOnce
<1>7. QED
  BY <1>2, <1>6

(* The operation waits, and what the store shows of it is what it will do. *)
LEMMA DispatchTap ==
  ASSUME IInv, Touch, NEW o, ~ Listing(o), Dispatch(o), UNCHANGED <<repo, made, doubt>>,
         Stored', Paged', PageCurrent', Drafted', FromPage(o)',
         \A c \in Collections : store[c] = repo[c] => store'[c] = Shown(o, c)
  PROVE  IInv'
<1>1. Queued /\ Current
  BY DEF IInv
<1>2. Queued' /\ Working(queue) = {} /\ Working(queue') = {o} /\ Lists(queue') = Lists(queue)
  BY <1>1, DispatchedQueue
<1>3. Asked'
  BY <1>2 DEF Asked
<1>4. \A c : Shown(o, c)' = Shown(o, c)
  BY DEF Shown, Without, Renames
<1>5. Current'
  BY <1>1, <1>2, <1>4 DEF Current
<1>6. QED
  BY <1>2, <1>3, <1>5 DEF IInv

(* The page keeps its record while an operation other than a rename waits. *)
LEMMA KeepsPageWaiting ==
  ASSUME IInv, Touch, NEW o, ~ Listing(o), Dispatch(o), ~ Renames(o),
         UNCHANGED <<repo, device, sure>>, screen' \in DevicePages => screen \in DevicePages
  PROVE  PageCurrent'
<1>1. Queued
  BY DEF IInv
<1>2. Working(queue') = {o}
  BY <1>1, DispatchedQueue
<1>3. QED
  BY <1>2, PageIdle DEF PageCurrent, Renames

(* A tap that shows nothing before the answer.                             *)
LEMMA SilentTap ==
  ASSUME IInv, Touch, NEW o, ~ Listing(o), Dispatch(o), ~ Renames(o),
         UNCHANGED <<repo, made, doubt, store, device, sure, stack, draft>>,
         screen' # "wizard", screen' \in DevicePages => screen \in DevicePages,
         Paged', FromPage(o)', \A c \in Collections : Shown(o, c) = repo[c]
  PROVE  IInv'
<1>1. Stored' /\ Drafted'
  BY KeepsStored, KeepsDraft DEF IInv
<1>2. PageCurrent'
  BY KeepsPageWaiting
<1>3. QED
  BY <1>1, <1>2, DispatchTap

(* A room is created when the brain says so.                               *)
LEMMA CreateRoomStep ==
  ASSUME IInv, NEW name, CreateRoom(name)
  PROVE  IInv'
<1>1. PICK o : o = [op |-> "create", on |-> "zones", id |-> None, data |-> name, fields |-> {},
                    sure |-> sure] /\ Dispatch(o)
  BY DEF CreateRoom, Write
<1>2. /\ Touch /\ screen = "new_room" /\ screen' = "house"
      /\ UNCHANGED <<repo, made, doubt, store, room, device, sure, stack, draft>>
  BY DEF CreateRoom, Brain, Loaded, Stay, wizard
<1>3. o.op = "create" /\ o.on = "zones"
  BY <1>1
<1>4. Paged'
  BY <1>2 DEF IInv, Paged, RoomPages, DevicePages
<1>5. ~ Listing(o) /\ ~ Renames(o) /\ FromPage(o)'
  BY <1>3 DEF Listing, Renames, FromPage
<1>6. \A c \in Collections : Shown(o, c) = repo[c]
  BY <1>3 DEF Shown, Renames
<1>7. QED
  BY <1>1, <1>2, <1>4, <1>5, <1>6, SilentTap DEF DevicePages

(* A room goes when the brain says so.                                     *)
LEMMA DeleteRoomStep ==
  ASSUME IInv, DeleteRoom
  PROVE  IInv'
<1>1. PICK o : o = [op |-> "delete", on |-> "zones", id |-> room] /\ Dispatch(o)
  BY DEF DeleteRoom, Op
<1>2. /\ Touch /\ screen = "room" /\ screen' = "room"
      /\ UNCHANGED <<repo, made, doubt, store, room, device, sure, stack, draft>>
  BY DEF DeleteRoom, Brain, ui, wizard
<1>3. o.op = "delete" /\ o.on = "zones" /\ o.id = room
  BY <1>1
<1>4. Paged'
  BY <1>2 DEF IInv, Paged, RoomPages, DevicePages
<1>5. ~ Listing(o) /\ ~ Renames(o) /\ FromPage(o)'
  BY <1>2, <1>3 DEF Listing, Renames, FromPage
<1>6. \A c \in Collections : Shown(o, c) = repo[c]
  BY <1>3 DEF Shown, Renames
<1>7. QED
  BY <1>1, <1>2, <1>4, <1>5, <1>6, SilentTap DEF DevicePages

(* Pairing asks for the network to open, or is called off.                 *)
LEMMA AddDeviceStep ==
  ASSUME IInv, AddDevice
  PROVE  IInv'
<1>1. /\ Touch /\ screen = "room" /\ screen' = "room"
      /\ UNCHANGED <<repo, made, doubt, store, room, device, sure, stack, draft>>
  BY DEF AddDevice, Brain, ui, wizard
<1>2. Paged'
  BY <1>1 DEF IInv, Paged, RoomPages, DevicePages
<1>3. CASE UNCHANGED queue
  BY <1>1, <1>2, <1>3, KeepsPage, QuietTap
<1>4. CASE Dispatch(Op("permit_join", "network", None))
  <2>1. PICK o : o = [op |-> "permit_join", on |-> "network", id |-> None] /\ Dispatch(o)
    BY <1>4 DEF Op
  <2>2. o.op = "permit_join" /\ o.on = "network"
    BY <2>1
  <2>3. ~ Listing(o) /\ ~ Renames(o) /\ FromPage(o)'
    BY <2>2 DEF Listing, Renames, FromPage
  <2>4. \A c \in Collections : Shown(o, c) = repo[c]
    BY <2>2 DEF Shown, Renames
  <2>5. QED
    BY <1>1, <1>2, <2>1, <2>3, <2>4, SilentTap
<1>5. QED
  BY <1>3, <1>4 DEF AddDevice

(* A move keeps the radio and the name of the record that is edited.       *)
LEMMA ApplyMoveStep ==
  ASSUME IInv, ApplyMove
  PROVE  IInv'
<1>1. PICK zone : Dispatch(Write("update", "endpoints", device.id,
                                 [device.row EXCEPT !.zone = zone], {"zone"}))
  BY DEF ApplyMove
<1>2. PICK o : o = [op |-> "update", on |-> "endpoints", id |-> device.id,
                    data |-> [device.row EXCEPT !.zone = zone], fields |-> {"zone"},
                    sure |-> sure] /\ Dispatch(o)
  BY <1>1 DEF Write
<1>3. /\ Touch /\ screen = "picker" /\ screen' = "device"
      /\ UNCHANGED <<repo, made, doubt, store, room, device, sure, stack, draft>>
  BY DEF ApplyMove, Brain, Loaded, Stay, wizard
<1>4. /\ o.op = "update" /\ o.on = "endpoints" /\ o.id = device.id /\ o.fields = {"zone"}
      /\ o.sure = sure /\ o.data = [device.row EXCEPT !.zone = zone]
  BY <1>2
<1>5. IsEndpoint(device.row)
  BY <1>3 DEF IInv, Paged, DevicePages
<1>6. o.data = [device.row EXCEPT !.zone = o.data.zone]
  BY <1>4, <1>5 DEF IsEndpoint
<1>7. Paged'
  BY <1>3 DEF IInv, Paged, RoomPages, DevicePages
<1>8. ~ Listing(o) /\ ~ Renames(o)
  BY <1>4 DEF Listing, Renames
<1>9. FromPage(o)'
  BY <1>3, <1>4, <1>6 DEF FromPage, Moves
<1>10. \A c \in Collections : Shown(o, c) = repo[c]
  BY <1>4, <1>8 DEF Shown
<1>11. QED
  BY <1>2, <1>3, <1>7, <1>8, <1>9, <1>10, SilentTap DEF DevicePages

(* A device goes when the brain says so.                                   *)
LEMMA RemoveDeviceStep ==
  ASSUME IInv, RemoveDevice
  PROVE  IInv'
<1>1. PICK o : o = [op |-> "delete", on |-> "endpoints", id |-> device.id] /\ Dispatch(o)
  BY DEF RemoveDevice, Op
<1>2. /\ Touch /\ screen = "device" /\ screen' = "device"
      /\ UNCHANGED <<repo, made, doubt, store, room, device, sure, stack, draft>>
  BY DEF RemoveDevice, Brain, ui, wizard
<1>3. o.op = "delete" /\ o.on = "endpoints" /\ o.id = device.id
  BY <1>1
<1>4. Paged'
  BY <1>2 DEF IInv, Paged, RoomPages, DevicePages
<1>5. ~ Listing(o) /\ ~ Renames(o) /\ FromPage(o)'
  BY <1>2, <1>3 DEF Listing, Renames, FromPage
<1>6. \A c \in Collections : Shown(o, c) = repo[c]
  BY <1>3 DEF Shown, Renames
<1>7. QED
  BY <1>1, <1>2, <1>4, <1>5, <1>6, SilentTap DEF DevicePages


(* A rename of a room is shown at once.                                    *)
LEMMA SaveRoomNameStep ==
  ASSUME IInv, NEW name, SaveRoomName(name)
  PROVE  IInv'
<1> DEFINE f == [z \in DOMAIN store["zones"] |-> IF z = room THEN name ELSE store["zones"][z]]
<1>1. PICK o : o = [op |-> "update", on |-> "zones", id |-> room, data |-> name,
                    fields |-> {"name"}, sure |-> sure] /\ Dispatch(o)
  BY DEF SaveRoomName, Write
<1>2. /\ Touch /\ screen = "room_name" /\ screen' = "room"
      /\ store' = [store EXCEPT !["zones"] = f]
      /\ UNCHANGED <<repo, made, doubt, room, device, sure, stack, draft>>
  BY DEF SaveRoomName, Brain, Loaded, Stay, wizard
<1>3. o.op = "update" /\ o.on = "zones" /\ o.id = room /\ o.data = name
  BY <1>1
<1>4. "zones" \in Collections /\ Stored /\ Tables(store)
  BY DEF IInv, Stored, Collections
<1>5. IsTable(f) /\ DOMAIN f = DOMAIN store["zones"] /\ \A id : IsRecord("zones", id)
  BY DEF IsTable, IsRecord
<1> HIDE DEF f
<1>6. /\ Stored' /\ store'["zones"] = f
      /\ \A d \in Collections \ {"zones"} : store'[d] = store[d]
  BY <1>2, <1>4, <1>5, ShownIs
<1>7. Paged'
  BY <1>2, <1>6 DEF IInv, Paged, RoomPages, DevicePages
<1>8. ~ Listing(o) /\ ~ Renames(o) /\ FromPage(o)'
  BY <1>2, <1>3 DEF Listing, Renames, FromPage
<1>9. Drafted' /\ PageCurrent'
  BY <1>1, <1>2, <1>8, KeepsDraft, KeepsPageWaiting DEF IInv, DevicePages
<1>10. ASSUME NEW c \in Collections, store[c] = repo[c]
       PROVE  store'[c] = Shown(o, c)
  <2>1. CASE c = "zones"
    <3>1. Shown(o, c) = [id \in DOMAIN repo[c] |-> IF id = o.id THEN o.data ELSE repo[c][id]]
      BY <1>3, <2>1 DEF Shown
    <3>2. QED
      BY <1>3, <1>6, <1>10, <2>1, <3>1 DEF f
  <2>2. CASE c # "zones"
    BY <1>3, <1>6, <1>8, <1>10, <2>2 DEF Shown
  <2>3. QED
    BY <2>1, <2>2
<1>11. QED
  BY <1>1, <1>2, <1>6, <1>7, <1>8, <1>9, <1>10, DispatchTap

(* A rename is shown at once, in the store and on the page.                *)
LEMMA SaveNameStep ==
  ASSUME IInv, NEW name, SaveName(name)
  PROVE  IInv'
<1> DEFINE eps == store["endpoints"]
           f == [e \in DOMAIN eps |-> IF e = device.id THEN [eps[e] EXCEPT !.name = name]
                                      ELSE eps[e]]
<1>1. PICK row : row = [device.row EXCEPT !.name = name]
  OBVIOUS
<1>2. /\ Touch /\ screen = "device_name" /\ screen' = "device"
      /\ store' = [store EXCEPT !["endpoints"] = f]
      /\ device' = [device EXCEPT !.row = row]
      /\ UNCHANGED <<repo, made, doubt, room, sure, stack, draft>>
  BY <1>1 DEF SaveName, Brain, Loaded, Edited, wizard
<1>3. PICK o : o = [op |-> "update", on |-> "endpoints", id |-> device.id, data |-> row,
                    fields |-> {"name"}, sure |-> sure] /\ Dispatch(o)
  BY <1>1 DEF SaveName, Write
<1>4. /\ o.op = "update" /\ o.on = "endpoints" /\ o.id = device.id /\ o.data = row
      /\ o.fields = {"name"} /\ o.sure = sure
  BY <1>3
<1>5. /\ Stored /\ Paged /\ Tables(store) /\ "endpoints" \in Collections
      /\ IsEndpoint(device.row) /\ device = [id |-> device.id, row |-> device.row]
      /\ device.row.ieee = repo["endpoints"][device.id].ieee
      /\ \A e \in DOMAIN eps : IsEndpoint(eps[e]) /\ eps[e].ieee = repo["endpoints"][e].ieee
  BY <1>2 DEF IInv, Stored, Tables, Collections, IsRecord, Paged, DevicePages
<1>6. IsEndpoint(row) /\ row.name = name /\ row.ieee = device.row.ieee
  BY <1>1, <1>5 DEF IsEndpoint
<1>7. device' = [id |-> device'.id, row |-> device'.row] /\ device'.id = device.id /\ device'.row = row
  BY <1>2, <1>5
<1>8. ASSUME NEW e \in DOMAIN eps
      PROVE  IsEndpoint(f[e]) /\ f[e].ieee = eps[e].ieee
  <2>1. IsEndpoint(eps[e])
    BY <1>5
  <2>2. f[e] = IF e = device.id THEN [eps[e] EXCEPT !.name = name] ELSE eps[e]
    OBVIOUS
  <2> HIDE DEF eps, f
  <2>3. QED
    BY <2>1, <2>2 DEF IsEndpoint
<1>9. IsTable(f) /\ DOMAIN f = DOMAIN eps /\ \A id \in DOMAIN f : IsRecord("endpoints", f[id])
  BY <1>8 DEF IsTable, IsRecord
<1> HIDE DEF f
<1>10. /\ Stored' /\ store'["endpoints"] = f
       /\ \A d \in Collections \ {"endpoints"} : store'[d] = store[d]
  BY <1>2, <1>5, <1>8, <1>9, ShownIs
<1>11. Paged'
  BY <1>2, <1>5, <1>6, <1>7, <1>9, <1>10 DEF Paged, RoomPages, DevicePages
<1>12. ~ Listing(o) /\ Renames(o) /\ FromPage(o)'
  BY <1>2, <1>4, <1>7 DEF Listing, Renames, FromPage
<1>13. Drafted' /\ Working(queue') = {o}
  BY <1>2, <1>3, <1>12, KeepsDraft, DispatchedQueue DEF IInv
<1>14. PageCurrent'
  <2>1. ASSUME sure PROVE row = [repo["endpoints"][device.id] EXCEPT !.name = row.name]
    BY <1>1, <1>2, <1>6, <2>1, PageIdle DEF DevicePages
  <2>2. QED
    BY <1>2, <1>7, <1>12, <1>13, <2>1 DEF PageCurrent
<1>15. ASSUME NEW c \in Collections, store[c] = repo[c]
       PROVE  store'[c] = Shown(o, c)
  <2>1. CASE c = "endpoints"
    <3>1. Shown(o, c) = [id \in DOMAIN repo[c] |-> IF id = o.id
                           THEN [repo[c][o.id] EXCEPT !.name = o.data.name] ELSE repo[c][id]]
      BY <1>4, <1>12, <2>1 DEF Shown
    <3>2. QED
      BY <1>4, <1>6, <1>10, <1>15, <2>1, <3>1 DEF f
  <2>2. CASE c # "endpoints"
    BY <1>4, <1>10, <1>12, <1>15, <2>2 DEF Shown
  <2>3. QED
    BY <2>1, <2>2
<1>16. QED
  BY <1>2, <1>3, <1>10, <1>11, <1>12, <1>13, <1>14, <1>15, DispatchTap

(* A switch of a schedule is shown at once.                                *)
LEMMA SetEnabledStep ==
  ASSUME IInv, SetEnabled
  PROVE  IInv'
<1>1. PICK s \in DOMAIN store.schedules, on \in BOOLEAN :
        /\ Dispatch(Write("set_enabled", "schedules", s, on, {"enabled"}))
        /\ store' = [store EXCEPT !.schedules[s].enabled = on]
  <2>1. PICK s \in DOMAIN store.schedules : \E on \in {~ store.schedules[s].enabled} :
          /\ Dispatch(Write("set_enabled", "schedules", s, on, {"enabled"}))
          /\ store' = [store EXCEPT !.schedules[s].enabled = on]
    BY DEF SetEnabled
  <2>2. (~ store.schedules[s].enabled) \in BOOLEAN
    OBVIOUS
  <2>3. QED
    BY <2>1, <2>2
<1> DEFINE sch == store["schedules"]
           f == [sch EXCEPT ![s] = [sch[s] EXCEPT !["enabled"] = on]]
<1>2. PICK o : o = [op |-> "set_enabled", on |-> "schedules", id |-> s, data |-> on,
                    fields |-> {"enabled"}, sure |-> sure] /\ Dispatch(o)
  BY <1>1 DEF Write
<1>3. o.op = "set_enabled" /\ o.on = "schedules" /\ o.id = s /\ o.data = on /\ o.fields = {"enabled"}
  BY <1>2
<1>4. /\ Touch /\ screen = "schedules" /\ screen' = "schedules"
      /\ UNCHANGED <<repo, made, doubt, room, device, sure, stack, draft>>
  BY DEF SetEnabled, Brain, ui, wizard
<1>5. store' = [store EXCEPT !["schedules"] = f]
  BY <1>1
<1>6. /\ Stored /\ "schedules" \in Collections /\ on \in BOOLEAN /\ IsTable(sch) /\ s \in DOMAIN sch
      /\ \A id \in DOMAIN sch : IsSchedule(sch[id])
  BY <1>1 DEF IInv, Stored, Tables, IsRecord, Collections
<1>7. IsTable(f) /\ DOMAIN f = DOMAIN sch /\ f[s] = [sch[s] EXCEPT !["enabled"] = on]
      /\ \A id \in DOMAIN sch \ {s} : f[id] = sch[id]
  BY <1>6 DEF IsTable
<1> HIDE DEF f
<1>8. \A id \in DOMAIN f : IsRecord("schedules", f[id])
  <2>1. IsSchedule(sch[s])
    BY <1>6
  <2>2. "enabled" \in Fields \ {"id"}
    BY DEF Fields
  <2>3. IsSchedule(f[s])
    BY <1>6, <1>7, <2>1, <2>2 DEF IsSchedule
  <2>4. QED
    BY <1>6, <1>7, <2>3 DEF IsRecord
<1>9. /\ Stored' /\ store'["schedules"] = f
      /\ \A d \in Collections \ {"schedules"} : store'[d] = store[d]
  BY <1>4, <1>5, <1>6, <1>7, <1>8, ShownIs
<1>10. Paged'
  BY <1>4, <1>9 DEF IInv, Paged, RoomPages, DevicePages
<1>11. ~ Listing(o) /\ ~ Renames(o) /\ FromPage(o)'
  BY <1>3, <1>4, <1>6 DEF Listing, Renames, FromPage
<1>12. Drafted' /\ PageCurrent'
  BY <1>2, <1>4, <1>11, KeepsDraft, KeepsPageWaiting DEF IInv, DevicePages
<1>13. ASSUME NEW c \in Collections, store[c] = repo[c]
       PROVE  store'[c] = Shown(o, c)
  <2>1. CASE c = "schedules"
    <3>1. Shown(o, c) = [id \in DOMAIN repo[c] |-> IF id = o.id
                           THEN [repo[c][o.id] EXCEPT !["enabled"] = o.data] ELSE repo[c][id]]
      BY <1>3, <1>11, <2>1 DEF Shown
    <3>2. f = [id \in DOMAIN sch |-> IF id = s THEN [sch[s] EXCEPT !["enabled"] = on] ELSE sch[id]]
      BY <1>6, <1>7 DEF IsTable
    <3>3. QED
      BY <1>3, <1>9, <1>13, <2>1, <3>1, <3>2
  <2>2. CASE c # "schedules"
    BY <1>3, <1>9, <1>11, <1>13, <2>2 DEF Shown
  <2>3. QED
    BY <2>1, <2>2
<1>14. QED
  BY <1>2, <1>4, <1>9, <1>10, <1>11, <1>12, <1>13, DispatchTap

(* A schedule is gone from the screen at once.                             *)
LEMMA DeleteScheduleStep ==
  ASSUME IInv, DeleteSchedule
  PROVE  IInv'
<1>1. PICK s \in DOMAIN store.schedules :
        /\ Dispatch(Op("delete", "schedules", s))
        /\ store' = [store EXCEPT !.schedules = Without(@, s)]
  BY DEF DeleteSchedule
<1> DEFINE sch == store["schedules"]
           f == Without(sch, s)
<1>2. PICK o : o = [op |-> "delete", on |-> "schedules", id |-> s] /\ Dispatch(o)
  BY <1>1 DEF Op
<1>3. o.op = "delete" /\ o.on = "schedules" /\ o.id = s
  BY <1>2
<1>4. /\ Touch /\ screen = "schedules" /\ screen' = "schedules"
      /\ UNCHANGED <<repo, made, doubt, room, device, sure, stack, draft>>
  BY DEF DeleteSchedule, Brain, ui, wizard
<1>5. store' = [store EXCEPT !["schedules"] = f]
  BY <1>1
<1>6. /\ Stored /\ "schedules" \in Collections
      /\ \A id \in DOMAIN sch : IsRecord("schedules", sch[id])
  BY DEF IInv, Stored, Tables, Collections
<1>7. /\ IsTable(f) /\ DOMAIN f = DOMAIN sch \ {s}
      /\ \A id \in DOMAIN f : IsRecord("schedules", f[id])
  BY <1>6 DEF IsTable, Without
<1> HIDE DEF f
<1>8. /\ Stored' /\ store'["schedules"] = f
      /\ \A d \in Collections \ {"schedules"} : store'[d] = store[d]
  BY <1>4, <1>5, <1>6, <1>7, ShownIs
<1>9. Paged'
  BY <1>4, <1>8 DEF IInv, Paged, RoomPages, DevicePages
<1>10. ~ Listing(o) /\ ~ Renames(o) /\ FromPage(o)'
  BY <1>3, <1>4 DEF Listing, Renames, FromPage
<1>11. Drafted' /\ PageCurrent'
  BY <1>2, <1>4, <1>10, KeepsDraft, KeepsPageWaiting DEF IInv, DevicePages
<1>12. \A c \in Collections : store[c] = repo[c] => store'[c] = Shown(o, c)
  BY <1>3, <1>8, <1>10 DEF Shown, f
<1>13. QED
  BY <1>2, <1>4, <1>8, <1>9, <1>10, <1>11, <1>12, DispatchTap


(***************************************************************************)
(* The wizard.                                                             *)
(***************************************************************************)

(* Where each step may stand in the stack.                                 *)
LEMMA PlaceIs ==
  /\ DOMAIN Place = {"target", "action", "trigger_type", "fixed_time", "zman", "offset",
                     "recurrence", "days"}
  /\ Place["target"] = {1} /\ Place["action"] = {2} /\ Place["trigger_type"] = {3}
  /\ Place["fixed_time"] = {4} /\ Place["zman"] = {4} /\ Place["offset"] = {5}
  /\ Place["recurrence"] = {5, 6} /\ Place["days"] = {6, 7}
BY DEF Place

(* What is typed is a time of digits, if not one that exists.              *)
LEMMA HourMinuteIs ==
  ASSUME NEW typed \in Typed
  PROVE  /\ HourMinute(typed).h \in Nat /\ HourMinute(typed).m \in Nat
         /\ DOMAIN HourMinute(typed) = {"h", "m"}
<1>1. typed \in Seq(0 .. 9)
  BY TypedAssumption
<1> DEFINE D(k) == IF k <= Len(typed) THEN typed[k] ELSE 0
<1>2. \A k \in {1, 2, 3, 4} : D(k) \in Nat
  <2>1. Len(typed) \in Nat /\ \A k \in 1 .. Len(typed) : typed[k] \in 0 .. 9
    BY <1>1, LenProperties, ElementOfSeq
  <2>2. QED
    BY <2>1
<1>3. HourMinute(typed) = [h |-> 10 * D(1) + D(2), m |-> 10 * D(3) + D(4)]
  BY DEF HourMinute
<1> HIDE DEF D
<1>4. D(1) \in Nat /\ D(2) \in Nat /\ D(3) \in Nat /\ D(4) \in Nat
  BY <1>2
<1>5. 10 * D(1) + D(2) \in Nat /\ 10 * D(3) + D(4) \in Nat
  BY <1>4
<1>6. QED
  BY <1>3, <1>5

Taken(steps) == {steps[k] : k \in 1 .. Len(steps)}

(* The steps below the one that is shown.                                  *)
LEMMA StandsAt ==
  ASSUME Stepped, stack # <<>>
  PROVE  /\ Len(stack) \in Nat \ {0} /\ Step \in DOMAIN Place /\ Len(stack) \in Place[Step]
         /\ RestsOn(Step)
         /\ \A s \in Taken(stack) :
              /\ s \in DOMAIN Place /\ RestsOn(s)
              /\ Step = "trigger_type" => s \in {"target", "action", "trigger_type"}
              /\ Step \in {"fixed_time", "zman"} => s \in {"target", "action", "trigger_type", Step}
              /\ Step = "offset" => s \in {"target", "action", "trigger_type", "fixed_time",
                                           "zman", "offset"}
<1>1. Len(stack) \in Nat \ {0}
  BY SequenceIs DEF Stepped
<1>2. Len(stack) \in 1 .. Len(stack)
  BY <1>1
<1>3. Step \in DOMAIN Place /\ Len(stack) \in Place[Step] /\ RestsOn(Step)
  BY <1>2 DEF Stepped, Step
<1>4. ASSUME NEW k \in 1 .. Len(stack), NEW s, s = stack[k]
      PROVE  /\ s \in DOMAIN Place /\ RestsOn(s)
             /\ Step = "trigger_type" => s \in {"target", "action", "trigger_type"}
             /\ Step \in {"fixed_time", "zman"} => s \in {"target", "action", "trigger_type", Step}
             /\ Step = "offset" => s \in {"target", "action", "trigger_type", "fixed_time",
                                          "zman", "offset"}
  <2>1. s \in DOMAIN Place /\ k \in Place[s] /\ RestsOn(s)
    BY <1>4 DEF Stepped
  <2>2. CASE Step = "trigger_type"
    <3>0. Len(stack) = 3
      BY <1>3, <2>2, PlaceIs
    <3>1. k \in {1, 2, 3}
      BY <3>0
    <3>2. QED
      BY <2>1, <2>2, <3>1, PlaceIs
  <2>3. CASE Step \in {"fixed_time", "zman"}
    <3>0. Len(stack) = 4
      BY <1>3, <2>3, PlaceIs
    <3>1. Len(stack) = 4 /\ k \in {1, 2, 3, 4}
      BY <3>0
    <3>2. CASE k = 4
      BY <1>4, <2>1, <2>3, <3>1, <3>2 DEF Step
    <3>3. CASE k # 4
      BY <2>1, <2>3, <3>1, <3>3, PlaceIs
    <3>4. QED
      BY <3>2, <3>3
  <2>4. CASE Step = "offset"
    <3>0. Len(stack) = 5
      BY <1>3, <2>4, PlaceIs
    <3>1. Len(stack) = 5 /\ k \in {1, 2, 3, 4, 5}
      BY <3>0
    <3>2. CASE k = 5
      BY <1>4, <2>1, <2>4, <3>1, <3>2 DEF Step
    <3>3. CASE k # 5
      BY <2>1, <2>4, <3>1, <3>3, PlaceIs
    <3>4. QED
      BY <3>2, <3>3
  <2>5. QED
    BY <2>1, <2>2, <2>3, <2>4
<1>5. QED
  BY <1>1, <1>3, <1>4 DEF Taken

(* Where the next step stands.                                             *)
LEMMA NextPlace ==
  ASSUME Stepped, stack # <<>>
  PROVE  /\ Step = "target" => Len(stack) + 1 \in Place["action"]
         /\ Step = "action" => Len(stack) + 1 \in Place["trigger_type"]
         /\ Step = "trigger_type" => /\ Len(stack) + 1 \in Place["fixed_time"]
                                     /\ Len(stack) + 1 \in Place["zman"]
         /\ Step = "fixed_time" => Len(stack) + 1 \in Place["recurrence"]
         /\ Step = "zman" => /\ Len(stack) + 1 \in Place["offset"]
                             /\ Len(stack) + 1 \in Place["recurrence"]
         /\ Step = "offset" => Len(stack) + 1 \in Place["recurrence"]
         /\ Step = "recurrence" => Len(stack) + 1 \in Place["days"]
<1>1. PICK n : n = Len(stack)
  OBVIOUS
<1>2. n \in Place[Step]
  BY <1>1, StandsAt
<1>3. /\ Step = "target" => n = 1
      /\ Step = "action" => n = 2
      /\ Step = "trigger_type" => n = 3
      /\ Step \in {"fixed_time", "zman"} => n = 4
      /\ Step = "offset" => n = 5
      /\ Step = "recurrence" => n \in {5, 6}
  BY <1>2, PlaceIs
<1>4. 1 + 1 = 2 /\ 2 + 1 = 3 /\ 3 + 1 = 4 /\ 4 + 1 = 5 /\ 5 + 1 = 6 /\ 6 + 1 = 7
  OBVIOUS
<1>5. /\ Step = "target" => n + 1 = 2
      /\ Step = "action" => n + 1 = 3
      /\ Step = "trigger_type" => n + 1 = 4
      /\ Step \in {"fixed_time", "zman"} => n + 1 = 5
      /\ Step = "offset" => n + 1 = 6
      /\ Step = "recurrence" => n + 1 \in {6, 7}
  BY <1>3, <1>4
<1>6. QED
  BY <1>1, <1>5, PlaceIs

(* A step that goes on to the next keeps what the steps below it rest on.  *)
LEMMA GoesOn ==
  ASSUME Stepped, NEW step \in DOMAIN Place, Goto(step), Len(stack) + 1 \in Place[step],
         RestsOn(step)', \A s \in Taken(stack) : RestsOn(s)'
  PROVE  Stepped' /\ stack' # <<>>
<1>1. IsSequence(stack) /\ Len(stack) \in Nat
  BY SequenceIs DEF Stepped
<1>2. /\ IsSequence(stack') /\ Len(stack') = Len(stack) + 1 /\ stack' # <<>>
      /\ \A i \in 1 .. Len(stack) : stack'[i] = stack[i]
      /\ stack'[Len(stack) + 1] = step
  BY <1>1, AddedIs DEF Goto
<1>3. ASSUME NEW k \in 1 .. Len(stack')
      PROVE  stack'[k] \in DOMAIN Place /\ k \in Place[stack'[k]] /\ RestsOn(stack[k])'
  <2>1. CASE k \in 1 .. Len(stack)
    <3>1. PICK s : s = stack[k]
      OBVIOUS
    <3>2. s \in DOMAIN Place /\ k \in Place[s] /\ s \in Taken(stack) /\ stack'[k] = s
      BY <1>2, <2>1, <3>1 DEF Stepped, Taken
    <3>3. RestsOn(s)'
      BY <3>2
    <3>4. QED
      BY <3>2, <3>3 DEF RestsOn
  <2>2. CASE k \notin 1 .. Len(stack)
    <3>1. k = Len(stack) + 1
      BY <1>1, <1>2, <2>2
    <3>2. QED
      BY <1>2, <3>1 DEF RestsOn
  <2>3. QED
    BY <2>1, <2>2
<1>4. QED
  BY <1>2, <1>3 DEF Stepped

(* The wizard opens with nothing, or with a copy of what is shown.         *)
LEMMA EditScheduleStep ==
  ASSUME IInv, EditSchedule
  PROVE  IInv'
<1>1. /\ Touch /\ screen = "schedules" /\ screen' = "wizard" /\ stack' = <<"target">>
      /\ sure' = ("schedules" \notin doubt /\ ~ Pending("schedules", queue))
      /\ UNCHANGED <<repo, store, made, doubt, queue, room, device>>
  BY DEF EditSchedule, OpenWizard, Loaded
<1>2. /\ Queued /\ Stored /\ Paged /\ Current /\ Working(queue) = {}
      /\ Tables(store) /\ "schedules" \in Collections
  BY <1>1, TouchedQueue DEF IInv, Stored, Collections
<1>3. Queued' /\ Stored' /\ Asked' /\ Current' /\ Working(queue') = {}
  BY <1>1, <1>2, KeepsStored DEF Queued, Asked, Current, Shown
<1>4. Paged' /\ PageCurrent'
  BY <1>1, <1>2 DEF Paged, PageCurrent, RoomPages, DevicePages
<1>5. Stepped' /\ stack' # <<>>
  <2>1. IsSequence(<<>>) /\ Len(<<>>) = 0 /\ <<"target">> = Append(<<>>, "target") /\ 0 + 1 = 1
    BY EmptySeq DEF IsSequence
  <2>2. IsSequence(stack') /\ Len(stack') = 1 /\ stack'[1] = "target" /\ stack' # <<>>
    <3> DEFINE e == <<>>
    <3>1. stack' = Append(e, "target") /\ IsSequence(e) /\ Len(e) = 0
      BY <1>1, <2>1
    <3> HIDE DEF e
    <3>2. IsSequence(stack') /\ Len(stack') = Len(e) + 1 /\ stack'[Len(e) + 1] = "target"
          /\ stack' # <<>>
      BY <3>1, AddedIs
    <3>3. Len(e) + 1 = 1
      BY <3>1
    <3>4. QED
      BY <3>2, <3>3
  <2>3. RestsOn(stack[1])'
    BY <2>2 DEF RestsOn
  <2>4. QED
    BY <2>2, <2>3, PlaceIs DEF Stepped
<1>6. CASE draft' = NoDraft
  <2>1. draft' = [f \in Fields |-> draft'[f]] /\ draft'["enabled"] = None /\ draft'["id"] = None
    BY <1>6 DEF NoDraft, Fields
  <2>2. Drafted'
    BY <1>3, <1>5, <2>1 DEF Drafted
  <2>3. QED
    BY <1>3, <1>4, <2>2 DEF IInv
<1>7. ASSUME NEW s \in DOMAIN store["schedules"], draft' = With(store["schedules"][s], "id", s)
      PROVE  IInv'
  <2> DEFINE old == store["schedules"][s]
  <2>1. old = [f \in Fields \ {"id"} |-> old[f]] /\ old["enabled"] \in BOOLEAN
    BY <1>2 DEF Tables, IsRecord, IsSchedule
  <2> HIDE DEF old
  <2>2. DOMAIN old \cup {"id"} = Fields /\ "enabled" \in Fields
    BY <2>1 DEF Fields
  <2>3. draft' = [f \in Fields |-> IF f = "id" THEN s ELSE old[f]]
    BY <1>7, <2>2 DEF With, old
  <2>4. /\ draft' = [f \in Fields |-> draft'[f]] /\ draft'["id"] = s
        /\ draft'["enabled"] = old["enabled"]
    BY <2>2, <2>3 DEF Fields
  <2>5. sure' => store["schedules"] = repo["schedules"]
    <3>1. sure' => "schedules" \notin doubt \cup Lists(queue)
      BY <1>1, <1>2, PendingIs
    <3>2. QED
      BY <1>2, <3>1 DEF Current
  <2>6. sure' => s \in DOMAIN repo'["schedules"] /\ draft'["enabled"] = repo'["schedules"][s]["enabled"]
    BY <1>1, <2>4, <2>5 DEF old
  <2>7. Drafted'
    BY <1>3, <1>5, <2>1, <2>4, <2>6 DEF Drafted
  <2>8. QED
    BY <1>3, <1>4, <2>7 DEF IInv
<1>8. QED
  BY <1>6, <1>7 DEF EditSchedule, OpenWizard


IsDraft(d) == d = [f \in Fields |-> d[f]]

(* A choice sets one key of the draft, neither the id nor whether it is    *)
(* enabled.                                                                *)
LEMMA DraftSet ==
  ASSUME IsDraft(draft), NEW key \in Fields \ {"id", "enabled"}, NEW v,
         draft' = [draft EXCEPT ![key] = v]
  PROVE  /\ IsDraft(draft') /\ draft'[key] = v
         /\ \A f \in Fields \ {key} : draft'[f] = draft[f]
         /\ draft'["enabled"] = draft["enabled"] /\ draft'["id"] = draft["id"]
BY DEF IsDraft, Fields

(* Two keys at once.                                                       *)
LEMMA TimeSet ==
  ASSUME IsDraft(draft), NEW t,
         draft' = [draft EXCEPT !["type"] = "fixed_time", !["when"] = t]
  PROVE  /\ IsDraft(draft') /\ draft'["type"] = "fixed_time" /\ draft'["when"] = t
         /\ draft'["target"] = draft["target"]
         /\ draft'["enabled"] = draft["enabled"] /\ draft'["id"] = draft["id"]
BY DEF IsDraft, Fields

(* What a step rests on is the target, the type and the time.              *)
LEMMA RestsStill ==
  ASSUME NEW s, RestsOn(s), draft'["type"] = draft["type"], draft'["when"] = draft["when"],
         draft["target"] # None => draft'["target"] # None
  PROVE  RestsOn(s)'
BY DEF RestsOn, WhenExists

(* Each step of the wizard leaves what the steps above it rest on.         *)
LEMMA WizardStepKeeps ==
  ASSUME Stored, Drafted, stack # <<>>, WizardStep(DOMAIN store.endpoints)
  PROVE  /\ Stepped' /\ stack' # <<>> /\ IsDraft(draft')
         /\ draft'["enabled"] = draft["enabled"] /\ draft'["id"] = draft["id"]
<1>1. /\ Stepped /\ IsDraft(draft) /\ Len(stack) \in Nat \ {0} /\ Step \in DOMAIN Place
      /\ Len(stack) \in Place[Step] /\ RestsOn(Step)
  BY StandsAt DEF Drafted, IsDraft
<1> DEFINE Keys == Fields \ {"id", "enabled"}
<1>2. /\ "target" \in Keys /\ "type" \in Keys /\ "when" \in Keys /\ "recurrence" \in Keys
      /\ {"target", "type", "when"} \subseteq Fields
  BY DEF Fields
<1>3. ASSUME NEW t \in DOMAIN store.endpoints, PickTarget(t)
      PROVE  /\ Stepped' /\ stack' # <<>> /\ IsDraft(draft')
             /\ draft'["enabled"] = draft["enabled"] /\ draft'["id"] = draft["id"]
  <2>1. t # None
    <3>1. made["endpoints"] \in Nat /\ t \in 1 .. made["endpoints"]
      BY DEF Stored, Collections
    <3>2. QED
      BY <3>1, NoneAssumption
  <2>2. /\ IsDraft(draft') /\ draft'["target"] = t
        /\ draft'["type"] = draft["type"] /\ draft'["when"] = draft["when"]
        /\ draft'["enabled"] = draft["enabled"] /\ draft'["id"] = draft["id"]
    <3>1. draft' = [draft EXCEPT !["target"] = t]
      BY <1>3 DEF PickTarget
    <3>2. QED
      BY <1>1, <1>2, <3>1, DraftSet
  <2>3. \A s \in Taken(stack) : RestsOn(s)'
    BY <1>1, <2>1, <2>2, StandsAt, RestsStill
  <2>4. RestsOn("action")'
    BY <2>1, <2>2 DEF RestsOn
  <2>5. Goto("action") /\ Len(stack) + 1 \in Place["action"] /\ "action" \in DOMAIN Place
    BY <1>1, <1>3, PlaceIs, NextPlace DEF PickTarget
  <2>6. QED
    BY <1>1, <2>2, <2>3, <2>4, <2>5, GoesOn
<1>4. CASE PickAction
  <2>1. UNCHANGED draft /\ Goto("trigger_type") /\ Step = "action"
    BY <1>4 DEF PickAction
  <2>2. Len(stack) + 1 \in Place["trigger_type"] /\ "trigger_type" \in DOMAIN Place
    BY <1>1, <2>1, PlaceIs, NextPlace
  <2>3. \A s \in Taken(stack) : RestsOn(s)'
    BY <1>1, <2>1, StandsAt, RestsStill
  <2>4. RestsOn("trigger_type")'
    BY <1>1, <2>1 DEF RestsOn
  <2>5. QED
    BY <1>1, <2>1, <2>2, <2>3, <2>4, GoesOn
<1>5. ASSUME NEW type \in {"fixed_time", "zman", "zman_offset"}, PickTriggerType(type)
      PROVE  /\ Stepped' /\ stack' # <<>> /\ IsDraft(draft')
             /\ draft'["enabled"] = draft["enabled"] /\ draft'["id"] = draft["id"]
  <2>1. PICK next : next = (IF type = "fixed_time" THEN "fixed_time" ELSE "zman")
    OBVIOUS
  <2>2. Step = "trigger_type" /\ Goto(next)
    BY <1>5, <2>1 DEF PickTriggerType
  <2>3. /\ IsDraft(draft') /\ draft'["type"] = type /\ draft'["target"] = draft["target"]
        /\ draft'["enabled"] = draft["enabled"] /\ draft'["id"] = draft["id"]
    <3>1. draft' = [draft EXCEPT !["type"] = type]
      BY <1>5 DEF PickTriggerType
    <3>2. QED
      BY <1>1, <1>2, <3>1, DraftSet
  <2>4. next \in DOMAIN Place /\ Len(stack) + 1 \in Place[next]
    BY <1>1, <2>1, <2>2, PlaceIs, NextPlace
  <2>5. \A s \in {"target", "action", "trigger_type"} : RestsOn(s) => RestsOn(s)'
    BY <2>3 DEF RestsOn
  <2>6. \A s \in Taken(stack) : RestsOn(s)'
    BY <1>1, <2>2, <2>5, StandsAt
  <2>7. RestsOn(next)'
    BY <1>1, <2>1, <2>2, <2>3 DEF RestsOn
  <2>8. QED
    BY <1>1, <2>2, <2>3, <2>4, <2>6, <2>7, GoesOn
<1>6. ASSUME NEW typed \in Typed, FixedTimeOk(typed)
      PROVE  /\ Stepped' /\ stack' # <<>> /\ IsDraft(draft')
             /\ draft'["enabled"] = draft["enabled"] /\ draft'["id"] = draft["id"]
  <2>1. PICK t : t = HourMinute(typed)
    OBVIOUS
  <2>2. /\ Step = "fixed_time" /\ Goto("recurrence") /\ t.h <= 23 /\ t.m <= 59
        /\ draft' = [draft EXCEPT !["type"] = "fixed_time", !["when"] = t]
    BY <1>6, <2>1 DEF FixedTimeOk, TimeExists
  <2>3. /\ IsDraft(draft') /\ draft'["type"] = "fixed_time" /\ draft'["when"] = t
        /\ draft'["target"] = draft["target"]
        /\ draft'["enabled"] = draft["enabled"] /\ draft'["id"] = draft["id"]
    BY <1>1, <2>2, TimeSet
  <2>4. t["h"] \in 0 .. 23 /\ t["m"] \in 0 .. 59 /\ DOMAIN t = {"h", "m"}
    <3>1. t.h \in Nat /\ t.m \in Nat /\ DOMAIN t = {"h", "m"}
      BY <2>1, HourMinuteIs
    <3>2. \A n \in Nat : (n <= 23 => n \in 0 .. 23) /\ (n <= 59 => n \in 0 .. 59)
      OBVIOUS
    <3>3. t.h <= 23 /\ t.m <= 59
      BY <2>2
    <3>4. t.h \in 0 .. 23 /\ t.m \in 0 .. 59
      BY <3>1, <3>2, <3>3
    <3>5. QED
      BY <3>1, <3>4
  <2>5. WhenExists(draft')
    BY <2>3, <2>4 DEF WhenExists
  <2>6. \A s \in {"target", "action", "trigger_type", "fixed_time"} : RestsOn(s) => RestsOn(s)'
    BY <2>3 DEF RestsOn
  <2>7. \A s \in Taken(stack) : RestsOn(s)'
    BY <1>1, <2>2, <2>6, StandsAt
  <2>8. RestsOn("recurrence")'
    BY <1>1, <2>2, <2>3, <2>5 DEF RestsOn
  <2>9. "recurrence" \in DOMAIN Place /\ Len(stack) + 1 \in Place["recurrence"]
    BY <1>1, <2>2, PlaceIs, NextPlace
  <2>10. QED
    BY <1>1, <2>2, <2>3, <2>7, <2>8, <2>9, GoesOn
<1>7. ASSUME NEW z \in Zmanim, PickZman(z)
      PROVE  /\ Stepped' /\ stack' # <<>> /\ IsDraft(draft')
             /\ draft'["enabled"] = draft["enabled"] /\ draft'["id"] = draft["id"]
  <2>1. PICK next : next = (IF draft.type = "zman_offset" THEN "offset" ELSE "recurrence")
    OBVIOUS
  <2>2. Step = "zman" /\ Goto(next) /\ draft["type"] \in {"zman", "zman_offset"}
    BY <1>1, <1>7, <2>1 DEF PickZman, RestsOn
  <2>3. PICK when : when = [zman |-> z]
    OBVIOUS
  <2>4. /\ IsDraft(draft') /\ draft'["when"] = when
        /\ draft'["type"] = draft["type"] /\ draft'["target"] = draft["target"]
        /\ draft'["enabled"] = draft["enabled"] /\ draft'["id"] = draft["id"]
    <3>1. draft' = [draft EXCEPT !["when"] = when]
      BY <1>7, <2>3 DEF PickZman
    <3>2. QED
      BY <1>1, <1>2, <3>1, DraftSet
  <2>5. "zman" \in DOMAIN draft'["when"]
    BY <2>3, <2>4
  <2>6. next \in DOMAIN Place /\ Len(stack) + 1 \in Place[next]
    BY <1>1, <2>1, <2>2, PlaceIs, NextPlace
  <2>7. \A s \in {"target", "action", "trigger_type", "zman"} : RestsOn(s) => RestsOn(s)'
    BY <2>4 DEF RestsOn
  <2>8. \A s \in Taken(stack) : RestsOn(s)'
    BY <1>1, <2>2, <2>7, StandsAt
  <2>9. WhenExists(draft')
    BY <2>2, <2>4, <2>5 DEF WhenExists
  <2>10. RestsOn(next)'
    BY <1>1, <2>1, <2>2, <2>4, <2>5, <2>9 DEF RestsOn
  <2>11. QED
    BY <1>1, <2>2, <2>4, <2>6, <2>8, <2>10, GoesOn
<1>8. ASSUME NEW typed \in Typed, OffsetOk(typed)
      PROVE  /\ Stepped' /\ stack' # <<>> /\ IsDraft(draft')
             /\ draft'["enabled"] = draft["enabled"] /\ draft'["id"] = draft["id"]
  <2>1. PICK when : when = [zman |-> draft["when"]["zman"], offset |-> sign * Number(typed)]
    OBVIOUS
  <2>2. Step = "offset" /\ Goto("recurrence") /\ draft["type"] = "zman_offset"
    BY <1>1, <1>8 DEF OffsetOk, RestsOn
  <2>3. /\ IsDraft(draft') /\ draft'["when"] = when
        /\ draft'["type"] = draft["type"] /\ draft'["target"] = draft["target"]
        /\ draft'["enabled"] = draft["enabled"] /\ draft'["id"] = draft["id"]
    <3>1. draft' = [draft EXCEPT !["when"] = when]
      BY <1>1, <1>2, <1>8, <2>1 DEF OffsetOk, IsDraft
    <3>2. QED
      BY <1>1, <1>2, <3>1, DraftSet
  <2>4. "zman" \in DOMAIN draft'["when"]
    BY <2>1, <2>3
  <2>5. \A s \in {"target", "action", "trigger_type", "fixed_time", "zman", "offset"} :
          RestsOn(s) => RestsOn(s)'
    BY <2>3, <2>4 DEF RestsOn
  <2>6. \A s \in Taken(stack) : RestsOn(s)'
    BY <1>1, <2>2, <2>5, StandsAt
  <2>7. WhenExists(draft')
    BY <2>2, <2>3, <2>4 DEF WhenExists
  <2>8. RestsOn("recurrence")'
    BY <1>1, <2>2, <2>3, <2>7 DEF RestsOn
  <2>9. "recurrence" \in DOMAIN Place /\ Len(stack) + 1 \in Place["recurrence"]
    BY <1>1, <2>2, PlaceIs, NextPlace
  <2>10. QED
    BY <1>1, <2>2, <2>3, <2>6, <2>8, <2>9, GoesOn
<1>9. CASE \E s \in {-1, 1} : ChooseSign(s)
  BY <1>1, <1>9 DEF ChooseSign, Stepped, RestsOn, WhenExists
<1>10. CASE PickDaysOfWeek
  <2>1. Step = "recurrence" /\ Goto("days")
    BY <1>10 DEF PickDaysOfWeek
  <2>2. /\ IsDraft(draft') /\ draft'["when"] = draft["when"]
        /\ draft'["type"] = draft["type"] /\ draft'["target"] = draft["target"]
        /\ draft'["enabled"] = draft["enabled"] /\ draft'["id"] = draft["id"]
    <3>1. draft' = [draft EXCEPT !["recurrence"] = "days_of_week"]
      BY <1>10 DEF PickDaysOfWeek
    <3>2. QED
      BY <1>1, <1>2, <3>1, DraftSet
  <2>3. \A s \in Taken(stack) : RestsOn(s)'
    BY <1>1, <2>2, StandsAt, RestsStill
  <2>4. RestsOn("recurrence")'
    BY <1>1, <2>1, <2>2, RestsStill
  <2>5. RestsOn("days")'
    BY <2>4 DEF RestsOn
  <2>6. "days" \in DOMAIN Place /\ Len(stack) + 1 \in Place["days"]
    BY <1>1, <2>1, PlaceIs, NextPlace
  <2>7. QED
    BY <1>1, <2>1, <2>2, <2>3, <2>5, <2>6, GoesOn
<1>11. CASE StepBack
  <2>1. UNCHANGED draft /\ Len(stack) > 1 /\ stack' = Front(stack)
    BY <1>11 DEF StepBack
  <2>2. PICK X : stack \in Seq(X)
    BY <1>1 DEF Stepped, IsSequence
  <2>3. PICK n \in Nat : n = Len(stack) - 1
    BY <1>1
  <2>4. stack' = SubSeq(stack, 1, n)
    BY <2>1, <2>3 DEF Front
  <2>5. n >= 1 /\ n <= Len(stack) /\ Len(stack) \in Nat
    BY <1>1, <2>1, <2>3
  <2>6. stack' \in Seq(X) /\ Len(stack') = n /\ \A k \in 1 .. n : stack'[k] = stack[k]
    BY <2>2, <2>4, <2>5, SubSeqProperties
  <2>7. IsSequence(stack') /\ stack' # <<>>
    BY <2>5, <2>6, EmptySeq DEF IsSequence
  <2>8. \A k \in 1 .. n : k \in 1 .. Len(stack)
    BY <2>5
  <2>9. Stepped'
    BY <1>1, <2>1, <2>6, <2>7, <2>8 DEF Stepped, RestsOn, WhenExists
  <2>10. QED
    BY <1>1, <2>1, <2>7, <2>9
<1>12. QED
  BY <1>3, <1>4, <1>5, <1>6, <1>7, <1>8, <1>9, <1>10, <1>11 DEF WizardStep


(* A wizard that is left rests on nothing.                                 *)
LEMMA NoDraftIs ==
  ASSUME stack' = <<>>, draft' = NoDraft, screen' # "wizard"
  PROVE  Drafted'
<1>1. IsSequence(<<>>) /\ Len(<<>>) = 0
  BY EmptySeq DEF IsSequence
<1>2. IsDraft(NoDraft) /\ NoDraft["enabled"] = None
  BY DEF NoDraft, IsDraft, Fields
<1>3. QED
  BY <1>1, <1>2 DEF Drafted, Stepped, IsDraft

(* The steps of the wizard, and leaving it.                                *)
LEMMA InWizardStep ==
  ASSUME IInv, InWizard
  PROVE  IInv'
<1>1. /\ Touch /\ screen = "wizard" /\ screen' \in {"wizard", "schedules"}
      /\ screen' = "wizard" /\ sure' => sure
      /\ UNCHANGED <<repo, store, made, doubt, queue, room, device>>
  BY DEF InWizard, Loaded
<1>2. /\ Queued /\ Stored /\ Paged /\ Current /\ Drafted /\ Working(queue) = {}
      /\ Stepped /\ stack # <<>>
  BY <1>1, TouchedQueue DEF IInv, Drafted
<1>3. Queued' /\ Stored' /\ Asked' /\ Current' /\ Working(queue') = {}
  BY <1>1, <1>2, KeepsStored DEF Queued, Asked, Current, Shown
<1>4. Paged' /\ PageCurrent'
  BY <1>1, <1>2 DEF Paged, PageCurrent, RoomPages, DevicePages
<1>5. CASE WizardStep(DOMAIN store.endpoints) /\ Loaded("wizard")
  <2>1. /\ Stepped' /\ stack' # <<>> /\ IsDraft(draft')
        /\ draft'["enabled"] = draft["enabled"] /\ draft'["id"] = draft["id"]
    BY <1>2, <1>5, WizardStepKeeps
  <2>2. screen' = "wizard" /\ (sure' => sure)
    BY <1>1, <1>5 DEF Loaded
  <2>3. Drafted'
    BY <1>1, <1>2, <1>3, <2>1, <2>2 DEF Drafted, IsDraft
  <2>4. QED
    BY <1>3, <1>4, <2>3 DEF IInv
<1>6. CASE LeaveWizard /\ Loaded("schedules")
  <2>1. stack' = <<>> /\ draft' = NoDraft /\ screen' = "schedules"
    BY <1>6 DEF LeaveWizard, Left, Loaded
  <2>2. Drafted'
    BY <2>1, NoDraftIs
  <2>3. QED
    BY <1>3, <1>4, <2>2 DEF IInv
<1>7. QED
  BY <1>5, <1>6 DEF InWizard

(* What the last step hands to the brain is what the draft rests on.       *)
LEMMA FinishedIs ==
  ASSUME Drafted, stack # <<>>, NEW d \in Finished
  PROVE  /\ IsDraft(d) /\ d["id"] = draft["id"] /\ d["target"] # None /\ WhenExists(d)
         /\ d["recurrence"] = "days_of_week" => d["days"] # {}
         /\ d["enabled"] \in BOOLEAN
         /\ draft["enabled"] \in BOOLEAN => d["enabled"] = draft["enabled"]
<1>1. Step \in {"recurrence", "days"}
  BY DEF Finished
<1>2. /\ IsDraft(draft) /\ draft["target"] # None /\ WhenExists(draft)
      /\ draft["enabled"] \in BOOLEAN \cup {None} /\ None \notin BOOLEAN
  BY <1>1, StandsAt, NoneAssumption DEF Drafted, RestsOn, IsDraft
<1> DEFINE Edits ==
      CASE Step = "recurrence" -> {[draft EXCEPT !["recurrence"] = "plain", !["days"] = {}]}
        [] Step = "days" -> {[draft EXCEPT !["days"] = days] : days \in (SUBSET Days) \ {{}}}
        [] OTHER -> {}
<1>3. PICK e \in Edits :
        d = [e EXCEPT !["enabled"] = IF e["enabled"] = None THEN TRUE ELSE e["enabled"]]
  BY DEF Finished
<1>10. \/ e = [draft EXCEPT !["recurrence"] = "plain", !["days"] = {}]
       \/ \E days : days # {} /\ e = [draft EXCEPT !["days"] = days]
  <2>1. CASE Step = "recurrence"
    BY <2>1
  <2>2. CASE Step = "days"
    <3>1. Edits = {[draft EXCEPT !["days"] = days] : days \in (SUBSET Days) \ {{}}}
      BY <2>2
    <3>2. PICK days \in (SUBSET Days) \ {{}} : e = [draft EXCEPT !["days"] = days]
      BY <3>1
    <3>3. QED
      BY <3>2
  <2>3. QED
    BY <1>1, <2>1, <2>2
<1> HIDE DEF Edits
<1>4. /\ IsDraft(e) /\ e["id"] = draft["id"] /\ e["target"] = draft["target"]
      /\ e["type"] = draft["type"] /\ e["when"] = draft["when"]
      /\ e["enabled"] = draft["enabled"]
      /\ e["recurrence"] = "days_of_week" => e["days"] # {}
  <2>1. CASE e = [draft EXCEPT !["recurrence"] = "plain", !["days"] = {}]
    BY <1>2, <2>1 DEF IsDraft, Fields
  <2>2. ASSUME NEW days, days # {}, e = [draft EXCEPT !["days"] = days]
        PROVE  /\ IsDraft(e) /\ e["id"] = draft["id"] /\ e["target"] = draft["target"]
               /\ e["type"] = draft["type"] /\ e["when"] = draft["when"]
               /\ e["enabled"] = draft["enabled"] /\ e["days"] # {}
    BY <1>2, <2>2 DEF IsDraft, Fields
  <2>3. QED
    BY <1>10, <2>1, <2>2
<1>5. PICK on : on = IF e["enabled"] = None THEN TRUE ELSE e["enabled"]
  OBVIOUS
<1>6. /\ IsDraft(d) /\ d["id"] = e["id"] /\ d["target"] = e["target"] /\ d["type"] = e["type"]
      /\ d["when"] = e["when"] /\ d["recurrence"] = e["recurrence"] /\ d["days"] = e["days"]
      /\ d["enabled"] = on
  BY <1>3, <1>4, <1>5 DEF IsDraft, Fields
<1>7. on \in BOOLEAN /\ (draft["enabled"] \in BOOLEAN => on = draft["enabled"])
  BY <1>2, <1>4, <1>5
<1>8. WhenExists(d)
  BY <1>2, <1>4, <1>6 DEF WhenExists
<1>9. QED
  BY <1>2, <1>4, <1>6, <1>7, <1>8

(* What the wizard saves waits, and the wizard is closed.                  *)
LEMMA SaveScheduleStep ==
  ASSUME IInv, SaveSchedule
  PROVE  IInv'
<1>1. /\ Touch /\ screen = "wizard" /\ screen' = "schedules" /\ sure' = TRUE
      /\ stack' = <<>> /\ draft' = NoDraft
      /\ UNCHANGED <<repo, store, made, doubt, room, device>>
  BY DEF SaveSchedule, Brain, Loaded, Left
<1>2. PICK d \in Finished :
        IF d.id = None
        THEN Dispatch(Write("create", "schedules", None, Without(d, "id"), {}))
        ELSE Dispatch(Write("update", "schedules", d.id, Without(d, "id"), DOMAIN d \ {"enabled"}))
  BY DEF SaveSchedule
<1>3. Stored /\ Drafted /\ stack # <<>>
  BY <1>1 DEF IInv, Drafted
<1>4. /\ IsDraft(d) /\ d["id"] = draft["id"] /\ d["target"] # None /\ WhenExists(d)
      /\ d["recurrence"] = "days_of_week" => d["days"] # {}
      /\ d["enabled"] \in BOOLEAN
      /\ draft["enabled"] \in BOOLEAN => d["enabled"] = draft["enabled"]
  BY <1>3, FinishedIs
<1>5. PICK data : data = Without(d, "id")
  OBVIOUS
<1>6. DOMAIN d = Fields /\ {"enabled", "type", "when", "target", "recurrence", "days"} \subseteq Fields \ {"id"}
  BY <1>4 DEF IsDraft, Fields
<1>7. data = [x \in Fields \ {"id"} |-> d[x]]
  BY <1>5, <1>6 DEF Without
<1>8. /\ IsSchedule(data) /\ data["enabled"] = d["enabled"] /\ data["type"] = d["type"]
      /\ data["when"] = d["when"] /\ data["target"] = d["target"]
      /\ data["recurrence"] = d["recurrence"] /\ data["days"] = d["days"]
  BY <1>4, <1>6, <1>7 DEF IsSchedule
<1>9. ValidSchedule(data) \/ OffsetTooFar(data)
  <2>1. WhenExists(data)
    BY <1>4, <1>8 DEF WhenExists
  <2>2. QED
    BY <1>4, <1>8, <2>1 DEF ValidSchedule
<1>10. PICK o : /\ Dispatch(o) /\ o.on = "schedules" /\ o.data = data /\ o.sure = sure
                /\ \/ o.op = "create"
                   \/ o.op = "update" /\ d["id"] # None /\ o.id = d["id"]
                      /\ o.fields = Fields \ {"enabled"}
  <2>1. CASE d.id = None
    <3>1. PICK o : o = [op |-> "create", on |-> "schedules", id |-> None, data |-> data,
                        fields |-> {}, sure |-> sure] /\ Dispatch(o)
      BY <1>2, <1>5, <2>1 DEF Write
    <3>2. o.op = "create" /\ o.on = "schedules" /\ o.data = data /\ o.sure = sure
      BY <3>1
    <3>3. QED
      BY <3>1, <3>2
  <2>2. CASE d.id # None
    <3>1. PICK o : o = [op |-> "update", on |-> "schedules", id |-> d.id, data |-> data,
                        fields |-> DOMAIN d \ {"enabled"}, sure |-> sure] /\ Dispatch(o)
      BY <1>2, <1>5, <2>2 DEF Write
    <3>2. /\ o.op = "update" /\ o.on = "schedules" /\ o.data = data /\ o.sure = sure
          /\ o.id = d["id"] /\ o.fields = Fields \ {"enabled"}
      BY <1>6, <3>1
    <3>3. QED
      BY <2>2, <3>1, <3>2
  <2>3. QED
    BY <2>1, <2>2
<1>11. ~ Listing(o) /\ ~ Renames(o)
  BY <1>10 DEF Listing, Renames
<1>12. ASSUME o.op = "update", o.sure, o.id \in DOMAIN repo["schedules"]
       PROVE  o.data["enabled"] = repo["schedules"][o.id]["enabled"]
  <2>1. draft["enabled"] = repo["schedules"][o.id]["enabled"]
    BY <1>1, <1>3, <1>4, <1>10, <1>12 DEF Drafted
  <2>2. repo["schedules"][o.id]["enabled"] \in BOOLEAN
    BY <1>3, <1>12 DEF Stored, Tables, Collections, IsRecord, IsSchedule
  <2>3. QED
    BY <1>4, <1>8, <1>10, <2>1, <2>2
<1>13. FromPage(o)'
  BY <1>1, <1>8, <1>9, <1>10, <1>12 DEF FromPage, Saves
<1>14. Paged' /\ Stored' /\ Drafted' /\ PageCurrent'
  BY <1>1, <1>3, KeepsStored, NoDraftIs DEF IInv, Paged, PageCurrent, RoomPages, DevicePages
<1>15. \A c \in Collections : Shown(o, c) = repo[c]
  BY <1>10, <1>11 DEF Shown
<1>16. QED
  BY <1>1, <1>10, <1>11, <1>13, <1>14, <1>15, DispatchTap


(***************************************************************************)
(* The operations as they are served.                                      *)
(***************************************************************************)

(* The operation that is served is the only one, and no list is to come.   *)
LEMMA ServedIs ==
  ASSUME IInv, queue # <<>>, ~ Listing(Head1)
  PROVE  /\ Queued /\ Stored /\ Paged /\ Drafted /\ Working(queue) = {Head1}
         /\ FromPage(Head1) /\ screen # "wizard"
         /\ doubt \subseteq Collections
         /\ \A c \in Collections \ doubt : store[c] = Shown(Head1, c)
<1>1. Working(queue) = {Head1} /\ Lists(queue) = {}
  BY TakenQueue DEF IInv
<1>2. QED
  BY <1>1 DEF IInv, Asked, Current, Drafted

(* Once it is served every collection that is not in doubt, and no list is *)
(* to publish, is shown as it is stored.                                   *)
LEMMA ServedKeeps ==
  ASSUME IInv, queue # <<>>, ~ Listing(Head1), NEW asked,
         \/ queue' = Tail(queue) /\ asked = {}
         \/ \E c \in {"zones", "schedules"} : RanAndAsks(c) /\ asked = {c},
         UNCHANGED <<stack, draft>>, screen' # "wizard", Stored', Paged',
         screen' \in DevicePages /\ sure' => device'.row = repo'["endpoints"][device'.id],
         doubt' \subseteq Collections,
         \A c \in Collections \ (doubt' \cup asked) : store'[c] = repo'[c]
  PROVE  IInv'
<1>1. Queued' /\ Working(queue') = {} /\ Lists(queue') = asked
  BY RanQueue, AsksQueue DEF IInv
<1>2. Asked' /\ Current'
  BY <1>1 DEF Asked, Current
<1>3. PageCurrent'
  BY <1>1 DEF PageCurrent
<1>4. Drafted'
  BY KeepsDraft DEF IInv
<1>5. QED
  BY <1>1, <1>2, <1>3, <1>4 DEF IInv

(* An operation that changes nothing: the page is as current as it was.    *)
LEMMA ServedInVain ==
  ASSUME IInv, queue # <<>>, ~ Listing(Head1), ~ Renames(Head1), queue' = Tail(queue),
         UNCHANGED <<repo, store, made, doubt, screen, room, device, sure, stack, draft>>,
         \A c \in Collections : Shown(Head1, c) = repo[c]
  PROVE  IInv'
<1>1. /\ Stored /\ Paged /\ Working(queue) = {Head1} /\ screen # "wizard"
      /\ doubt \subseteq Collections
      /\ \A c \in Collections \ doubt : store[c] = Shown(Head1, c)
  BY ServedIs
<1>2. Stored' /\ Paged'
  BY <1>1, KeepsStored DEF Paged, RoomPages, DevicePages
<1>3. screen \in DevicePages /\ sure => device.row = repo["endpoints"][device.id]
  BY <1>1 DEF IInv, PageCurrent
<1>4. \A c \in Collections \ doubt' : store'[c] = repo'[c]
  BY <1>1
<1>5. QED
  BY <1>1, <1>2, <1>3, <1>4, ServedKeeps

(* A record keeps the radio it is about, a new one is about another.       *)
KeepsRadio(c, id, v) ==
  c = "endpoints" => IF id \in DOMAIN repo["endpoints"]
                     THEN v.ieee = repo["endpoints"][id].ieee
                     ELSE v.ieee \notin Linked(repo.endpoints)

(* A record is put into the repository, where there was one or with the id *)
(* that was given out last.                                                *)
LEMMA SavedIs ==
  ASSUME Stored, NEW c \in Collections, NEW id, NEW v, Saved(c, id, v), store' = store \/ store' = repo',
         IsRecord(c, v), made' \in [Collections -> Nat],
         \A d \in Collections : made[d] <= made'[d],
         id \in 1 .. made'[c], KeepsRadio(c, id, v)
  PROVE  /\ Stored'
         /\ DOMAIN repo'[c] = DOMAIN repo[c] \cup {id}
         /\ repo'[c] = With(repo[c], id, v)
         /\ \A d \in Collections \ {c} : repo'[d] = repo[d]
<1>1. Tables(repo) /\ Tables(store) /\ repo = [d \in Collections |-> repo[d]]
  BY DEF Stored, Tables
<1> DEFINE f == With(repo[c], id, v)
<1>2. f = [x \in DOMAIN repo[c] \cup {id} |-> IF x = id THEN v ELSE repo[c][x]]
  BY DEF With
<1>3. repo' = [repo EXCEPT ![c] = f]
  BY DEF Saved
<1> HIDE DEF f
<1>4. /\ repo'[c] = f /\ repo' = [d \in Collections |-> repo'[d]]
      /\ \A d \in Collections \ {c} : repo'[d] = repo[d]
  BY <1>1, <1>3
<1>5. DOMAIN f = DOMAIN repo[c] \cup {id} /\ f[id] = v
      /\ \A x \in DOMAIN repo[c] \ {id} : f[x] = repo[c][x]
  BY <1>2
<1>6. IsTable(f) /\ \A x \in DOMAIN f : IsRecord(c, f[x])
  <2>1. IsTable(f)
    BY <1>2, <1>5 DEF IsTable
  <2>2. \A x \in DOMAIN f : IsRecord(c, f[x])
    BY <1>1, <1>5 DEF Tables
  <2>3. QED
    BY <2>1, <2>2
<1>7. Tables(repo')
  BY <1>1, <1>4, <1>6 DEF Tables
<1>8. ASSUME NEW d \in Collections
      PROVE  DOMAIN repo'[d] \subseteq 1 .. made'[d] /\ DOMAIN store[d] \subseteq DOMAIN repo'[d]
  <2>1. made[d] \in Nat /\ made'[d] \in Nat /\ made[d] <= made'[d]
    BY DEF Stored
  <2>2. 1 .. made[d] \subseteq 1 .. made'[d]
    BY <2>1
  <2>3. DOMAIN repo[d] \subseteq 1 .. made'[d] /\ DOMAIN store[d] \subseteq DOMAIN repo[d]
    BY <2>2 DEF Stored
  <2>4. QED
    BY <1>4, <1>5, <2>3
<1>9. \A e \in DOMAIN repo["endpoints"] : /\ e \in DOMAIN repo'["endpoints"]
                                          /\ repo'["endpoints"][e].ieee = repo["endpoints"][e].ieee
  BY <1>4, <1>5 DEF Collections, KeepsRadio
<1>10. \A e \in DOMAIN store["endpoints"] :
         store["endpoints"][e].ieee = repo'["endpoints"][e].ieee
  BY <1>9 DEF Stored, Collections
<1>11. PairedOnce'
  <2>1. CASE c # "endpoints"
    <3>1. repo'["endpoints"] = repo["endpoints"]
      BY <1>4, <2>1 DEF Collections
    <3>2. QED
      BY <3>1 DEF PairedOnce, Stored
  <2>2. CASE c = "endpoints" /\ id \in DOMAIN repo["endpoints"]
    <3>1. DOMAIN repo'["endpoints"] = DOMAIN repo["endpoints"]
      BY <1>4, <1>5, <2>2
    <3>2. QED
      BY <1>9, <3>1 DEF PairedOnce, Stored
  <2>3. CASE c = "endpoints" /\ id \notin DOMAIN repo["endpoints"]
    <3>1. /\ DOMAIN repo'["endpoints"] = DOMAIN repo["endpoints"] \cup {id}
          /\ repo'["endpoints"][id] = v
      BY <1>4, <1>5, <2>3
    <3>2. \A e \in DOMAIN repo["endpoints"] : repo["endpoints"][e].ieee # v.ieee
      BY <2>3 DEF Linked, KeepsRadio
    <3>3. QED
      BY <1>9, <3>1, <3>2 DEF PairedOnce, Stored
  <2>4. QED
    BY <2>1, <2>2, <2>3
<1>12. Stored'
  <2>1. CASE store' = store
    BY <1>1, <1>7, <1>8, <1>10, <1>11, <2>1 DEF Stored, Tables
  <2>2. CASE store' = repo'
    BY <1>7, <1>8, <1>11, <2>2 DEF Stored, Tables
  <2>3. QED
    BY <2>1, <2>2
<1>13. QED
  BY <1>2, <1>4, <1>5, <1>12 DEF f

(* An id that was not given out yet is no record's.                        *)
LEMMA NextId ==
  ASSUME Stored, NEW c \in Collections, made' = [made EXCEPT ![c] = @ + 1]
  PROVE  /\ made' \in [Collections -> Nat] /\ \A d \in Collections : made[d] <= made'[d]
         /\ made'[c] \in 1 .. made'[c] /\ made'[c] \notin DOMAIN repo[c]
<1>1. made \in [Collections -> Nat] /\ made[c] \in Nat /\ DOMAIN repo[c] \subseteq 1 .. made[c]
  BY DEF Stored
<1>2. made'[c] = made[c] + 1 /\ \A d \in Collections \ {c} : made'[d] = made[d]
  BY <1>1
<1>3. made' \in [Collections -> Nat]
  BY <1>1
<1>4. made[c] + 1 \in Nat \ {0} /\ made[c] + 1 \notin 1 .. made[c] /\ made[c] <= made[c] + 1
  BY <1>1
<1>5. \A n \in Nat : n <= n
  OBVIOUS
<1>6. \A d \in Collections : made[d] <= made'[d]
  BY <1>1, <1>2, <1>4, <1>5
<1>7. \A n \in Nat \ {0} : n \in 1 .. n
  OBVIOUS
<1>8. QED
  BY <1>1, <1>2, <1>3, <1>4, <1>6, <1>7

(* What a table is when the record of an id that it has is put again.      *)
LEMMA WithIs ==
  ASSUME NEW f, NEW id, id \in DOMAIN f, NEW v
  PROVE  With(f, id, v) = [x \in DOMAIN f |-> IF x = id THEN v ELSE f[x]]
<1>1. DOMAIN f \cup {id} = DOMAIN f
  OBVIOUS
<1>2. QED
  BY <1>1 DEF With

(* A record is replaced.                                                   *)
LEMMA ReplacedIs ==
  ASSUME Stored, NEW c \in Collections, NEW id, id \in DOMAIN repo[c], NEW v, Saved(c, id, v),
         UNCHANGED <<store, made>>, IsRecord(c, v), KeepsRadio(c, id, v)
  PROVE  /\ Stored' /\ repo'[c] = With(repo[c], id, v)
         /\ \A d \in Collections \ {c} : repo'[d] = repo[d]
<1>1. /\ made' \in [Collections -> Nat] /\ id \in 1 .. made'[c]
      /\ \A d \in Collections : made[d] = made'[d] /\ made[d] \in Nat
  BY DEF Stored
<1>2. \A x \in Nat : x <= x
  OBVIOUS
<1>3. \A d \in Collections : made[d] <= made'[d]
  BY <1>1, <1>2
<1>4. QED
  BY <1>1, <1>3, SavedIs

(* The page is current as an operation other than a rename is served.      *)
LEMMA PageServed ==
  ASSUME IInv, queue # <<>>, ~ Listing(Head1), ~ Renames(Head1), screen \in DevicePages, sure
  PROVE  device.row = repo["endpoints"][device.id]
BY ServedIs DEF IInv, PageCurrent

(* The pages are kept while no device and no room they are about goes.     *)
LEMMA KeepsPages ==
  ASSUME Paged, UNCHANGED <<screen, room, device>>,
         store'["endpoints"] = store["endpoints"], repo'["endpoints"] = repo["endpoints"],
         DOMAIN repo["zones"] \subseteq DOMAIN repo'["zones"]
  PROVE  Paged'
BY DEF Paged, RoomPages, DevicePages

(* zones.create and schedules.create, and the list they ask for.           *)
LEMMA CreateStep ==
  ASSUME IInv, NEW c \in {"zones", "schedules"}, Create(c)
  PROVE  IInv'
<1>1. /\ queue # <<>> /\ Head1.op = "create" /\ Head1.on = c /\ c \in Collections
      /\ UNCHANGED <<store, doubt, screen, room, device, sure, stack, draft>>
  BY DEF Create, Runs, ui, Same, wizard, Collections
<1>2. ~ Listing(Head1) /\ ~ Renames(Head1)
  BY <1>1 DEF Listing, Renames
<1>3. \A d \in Collections : Shown(Head1, d) = repo[d]
  BY <1>1, <1>2 DEF Shown
<1>4. /\ Stored /\ Paged /\ FromPage(Head1) /\ screen # "wizard" /\ doubt \subseteq Collections
      /\ \A d \in Collections \ doubt : store[d] = repo[d]
  BY <1>1, <1>2, <1>3, ServedIs
<1>5. CASE Ran /\ UNCHANGED <<repo, made>>
  BY <1>1, <1>2, <1>3, <1>5, ServedInVain DEF Ran
<1>6. ASSUME made' = [made EXCEPT ![c] = @ + 1], Saved(c, made'[c], Head1.data), RanAndAsks(c)
      PROVE  IInv'
  <2>1. PICK n, v : n = made'[c] /\ v = Head1.data
    OBVIOUS
  <2>2. Saved(c, n, v)
    BY <1>6, <2>1
  <2>3. /\ made' \in [Collections -> Nat] /\ \A d \in Collections : made[d] <= made'[d]
        /\ n \in 1 .. made'[c] /\ n \notin DOMAIN repo[c]
    BY <1>1, <1>4, <1>6, <2>1, NextId
  <2>4. IsRecord(c, v)
    BY <1>1, <1>4, <2>1 DEF FromPage, IsRecord, Saves, Renames, Moves
  <2>5. /\ Stored' /\ DOMAIN repo'[c] = DOMAIN repo[c] \cup {n}
        /\ \A d \in Collections \ {c} : repo'[d] = repo[d]
    BY <1>1, <1>4, <2>2, <2>3, <2>4, SavedIs DEF KeepsRadio
  <2>6. repo'["endpoints"] = repo["endpoints"] /\ DOMAIN repo["zones"] \subseteq DOMAIN repo'["zones"]
    BY <2>5 DEF Collections
  <2>7. Paged'
    BY <1>1, <1>4, <2>6, KeepsPages
  <2>8. screen' \in DevicePages /\ sure' => device'.row = repo'["endpoints"][device'.id]
    BY <1>1, <1>2, <2>6, PageServed
  <2>9. \A d \in Collections \ (doubt' \cup {c}) : store'[d] = repo'[d]
    BY <1>1, <1>4, <2>5
  <2>10. PICK asked : asked = {c}
    OBVIOUS
  <2>11. \E b \in {"zones", "schedules"} : RanAndAsks(b) /\ asked = {b}
    BY <1>6, <2>10
  <2>12. \A d \in Collections \ (doubt' \cup asked) : store'[d] = repo'[d]
    BY <2>9, <2>10
  <2>13. QED
    BY <1>1, <1>2, <1>4, <2>5, <2>7, <2>8, <2>11, <2>12, ServedKeeps
<1>7. QED
  BY <1>5, <1>6 DEF Create

(* zones.update does what the tap has shown.                               *)
LEMMA UpdateRoomStep ==
  ASSUME IInv, UpdateRoom
  PROVE  IInv'
<1>1. /\ queue # <<>> /\ Head1.op = "update" /\ Head1.on = "zones" /\ queue' = Tail(queue)
      /\ UNCHANGED <<store, made, doubt, screen, room, device, sure, stack, draft>>
  BY DEF UpdateRoom, Runs, ui, Same, wizard, Ran
<1>2. ~ Listing(Head1) /\ ~ Renames(Head1) /\ "zones" \in Collections
  BY <1>1 DEF Listing, Renames, Collections
<1>3. /\ Stored /\ Paged /\ FromPage(Head1) /\ screen # "wizard" /\ doubt \subseteq Collections
      /\ \A d \in Collections \ doubt : store[d] = Shown(Head1, d)
  BY <1>1, <1>2, ServedIs
<1> DEFINE put == [id \in DOMAIN repo["zones"] |->
                     IF id = Head1.id THEN Head1.data ELSE repo["zones"][id]]
<1>4. Shown(Head1, "zones") = put /\ \A d \in Collections \ {"zones"} : Shown(Head1, d) = repo[d]
  BY <1>1, <1>2 DEF Shown
<1>5. CASE Head1.id \notin DOMAIN repo["zones"]
  <2>1. UNCHANGED repo
    BY <1>5 DEF UpdateRoom
  <2>2. put = repo["zones"]
    BY <1>2, <1>3, <1>5 DEF Stored, Tables, IsTable
  <2>3. \A d \in Collections : Shown(Head1, d) = repo[d]
    BY <1>4, <2>2
  <2>4. QED
    BY <1>1, <1>2, <2>1, <2>3, ServedInVain
<1>6. CASE Head1.id \in DOMAIN repo["zones"]
  <2>1. PICK n, v : n = Head1.id /\ v = Head1.data
    OBVIOUS
  <2>2. Saved("zones", n, v) /\ n \in DOMAIN repo["zones"]
    BY <1>6, <2>1 DEF UpdateRoom
  <2>3. IsRecord("zones", v)
    BY DEF IsRecord
  <2>4. /\ Stored' /\ repo'["zones"] = With(repo["zones"], n, v)
        /\ \A d \in Collections \ {"zones"} : repo'[d] = repo[d]
    BY <1>1, <1>2, <1>3, <2>2, <2>3, ReplacedIs DEF KeepsRadio
  <2>5. repo'["zones"] = put
    BY <2>1, <2>2, <2>4, WithIs
  <2> HIDE DEF put
  <2>6. repo'["endpoints"] = repo["endpoints"] /\ DOMAIN repo["zones"] \subseteq DOMAIN repo'["zones"]
    BY <2>4, <2>5 DEF Collections, put
  <2>7. Paged'
    BY <1>1, <1>3, <2>6, KeepsPages
  <2>8. screen' \in DevicePages /\ sure' => device'.row = repo'["endpoints"][device'.id]
    BY <1>1, <1>2, <2>6, PageServed
  <2>9. \A d \in Collections \ doubt' : store'[d] = repo'[d]
    BY <1>1, <1>3, <1>4, <2>4, <2>5
  <2>10. QED
    BY <1>1, <1>2, <1>3, <2>4, <2>7, <2>8, <2>9, ServedKeeps
<1>7. QED
  BY <1>5, <1>6

(* schedules.update publishes by the list that it asks for.                *)
LEMMA UpdateScheduleStep ==
  ASSUME IInv, UpdateSchedule
  PROVE  IInv'
<1>1. /\ queue # <<>> /\ Head1.op = "update" /\ Head1.on = "schedules"
      /\ UNCHANGED <<store, made, doubt, screen, room, device, sure, stack, draft>>
  BY DEF UpdateSchedule, Runs, ui, Same, wizard
<1>2. ~ Listing(Head1) /\ ~ Renames(Head1) /\ "schedules" \in Collections
  BY <1>1 DEF Listing, Renames, Collections
<1>3. \A d \in Collections : Shown(Head1, d) = repo[d]
  BY <1>1, <1>2 DEF Shown
<1>4. /\ Stored /\ Paged /\ FromPage(Head1) /\ screen # "wizard" /\ doubt \subseteq Collections
      /\ \A d \in Collections \ doubt : store[d] = repo[d]
  BY <1>1, <1>2, <1>3, ServedIs
<1>5. CASE Ran /\ UNCHANGED repo
  BY <1>1, <1>2, <1>3, <1>5, ServedInVain DEF Ran
<1>6. CASE /\ Head1.id \in DOMAIN repo.schedules /\ Saved("schedules", Head1.id, Head1.data)
           /\ RanAndAsks("schedules")
  <2>1. PICK n, v : n = Head1.id /\ v = Head1.data
    OBVIOUS
  <2>2. Saved("schedules", n, v) /\ n \in DOMAIN repo["schedules"]
    BY <1>6, <2>1
  <2>3. IsRecord("schedules", v)
    BY <1>1, <1>4, <2>1 DEF FromPage, IsRecord, Saves, Renames, Moves
  <2>5. Stored' /\ \A d \in Collections \ {"schedules"} : repo'[d] = repo[d]
    BY <1>1, <1>2, <1>4, <2>2, <2>3, ReplacedIs DEF KeepsRadio
  <2>6. repo'["endpoints"] = repo["endpoints"] /\ DOMAIN repo["zones"] \subseteq DOMAIN repo'["zones"]
    BY <2>5 DEF Collections
  <2>7. Paged'
    BY <1>1, <1>4, <2>6, KeepsPages
  <2>8. screen' \in DevicePages /\ sure' => device'.row = repo'["endpoints"][device'.id]
    BY <1>1, <1>2, <2>6, PageServed
  <2>9. \A d \in Collections \ (doubt' \cup {"schedules"}) : store'[d] = repo'[d]
    BY <1>1, <1>4, <2>5
  <2>10. QED
    BY <1>1, <1>2, <1>4, <1>6, <2>5, <2>7, <2>8, <2>9, ServedKeeps
<1>7. QED
  BY <1>5, <1>6 DEF UpdateSchedule

(* schedules.set_enabled does what the tap has shown.                      *)
LEMMA UpdateEnabledStep ==
  ASSUME IInv, UpdateEnabled
  PROVE  IInv'
<1>1. /\ queue # <<>> /\ Head1.op = "set_enabled" /\ Head1.on = "schedules" /\ queue' = Tail(queue)
      /\ UNCHANGED <<store, made, doubt, screen, room, device, sure, stack, draft>>
  BY DEF UpdateEnabled, Runs, ui, Same, wizard, Ran
<1>2. ~ Listing(Head1) /\ ~ Renames(Head1) /\ "schedules" \in Collections
  BY <1>1 DEF Listing, Renames, Collections
<1>3. /\ Stored /\ Paged /\ FromPage(Head1) /\ screen # "wizard" /\ doubt \subseteq Collections
      /\ \A d \in Collections \ doubt : store[d] = Shown(Head1, d)
  BY <1>1, <1>2, ServedIs
<1> DEFINE sch == repo["schedules"]
           new == [sch[Head1.id] EXCEPT !["enabled"] = Head1.data]
           put == [id \in DOMAIN sch |-> IF id = Head1.id THEN new ELSE sch[id]]
<1>4. Shown(Head1, "schedules") = put
      /\ \A d \in Collections \ {"schedules"} : Shown(Head1, d) = repo[d]
  BY <1>1, <1>2 DEF Shown
<1>5. CASE Head1.id \notin DOMAIN sch
  <2>1. UNCHANGED repo
    BY <1>5 DEF UpdateEnabled
  <2>2. put = sch
    BY <1>2, <1>3, <1>5 DEF Stored, Tables, IsTable
  <2>3. \A d \in Collections : Shown(Head1, d) = repo[d]
    BY <1>4, <2>2
  <2>4. QED
    BY <1>1, <1>2, <2>1, <2>3, ServedInVain
<1>6. CASE Head1.id \in DOMAIN sch
  <2>1. PICK n, v : n = Head1.id /\ v = new
    OBVIOUS
  <2>2. /\ IsTable(sch) /\ repo = [d \in Collections |-> repo[d]] /\ IsSchedule(sch[n])
        /\ Head1.data \in BOOLEAN /\ n \in DOMAIN sch
    BY <1>1, <1>2, <1>3, <1>6, <2>1 DEF Stored, Tables, IsRecord, FromPage, Saves, Renames, Moves
  <2>3. Saved("schedules", n, v)
    <3>1. repo' = [repo EXCEPT !["schedules"] = [sch EXCEPT ![n] = v]]
      BY <1>6, <2>1 DEF UpdateEnabled
    <3>2. [sch EXCEPT ![n] = v] = With(sch, n, v)
      BY <2>2 DEF IsTable, With
    <3>3. QED
      BY <3>1, <3>2 DEF Saved
  <2>4. IsRecord("schedules", v)
    <3>1. v = [sch[n] EXCEPT !["enabled"] = Head1.data]
      BY <2>1
    <3>2. "enabled" \in Fields \ {"id"}
      BY DEF Fields
    <3>3. IsSchedule(v)
      BY <2>2, <3>1, <3>2 DEF IsSchedule
    <3>4. QED
      BY <3>3 DEF IsRecord
  <2>5. /\ Stored'
        /\ repo'["schedules"] = [x \in DOMAIN sch |-> IF x = n THEN v ELSE sch[x]]
        /\ \A d \in Collections \ {"schedules"} : repo'[d] = repo[d]
    <3>1. n \in DOMAIN repo["schedules"] /\ "schedules" # "endpoints" /\ Stored
      BY <1>3, <2>2
    <3>2. UNCHANGED <<store, made>>
      BY <1>1
    <3>3. /\ Stored'
          /\ repo'["schedules"] = With(repo["schedules"], n, v)
          /\ \A d \in Collections \ {"schedules"} : repo'[d] = repo[d]
      BY <1>2, <2>3, <2>4, <3>1, <3>2, ReplacedIs DEF KeepsRadio
    <3>4. With(repo["schedules"], n, v) = [x \in DOMAIN repo["schedules"] |->
                                            IF x = n THEN v ELSE repo["schedules"][x]]
      BY <3>1, WithIs
    <3>5. QED
      BY <3>3, <3>4
  <2>6. repo'["schedules"] = put
    BY <2>1, <2>5
  <2> HIDE DEF put, sch, new
  <2>7. repo'["endpoints"] = repo["endpoints"] /\ DOMAIN repo["zones"] \subseteq DOMAIN repo'["zones"]
    BY <2>5 DEF Collections
  <2>8. Paged'
    BY <1>1, <1>3, <2>7, KeepsPages
  <2>9. screen' \in DevicePages /\ sure' => device'.row = repo'["endpoints"][device'.id]
    BY <1>1, <1>2, <2>7, PageServed
  <2>10. \A d \in Collections \ doubt' : store'[d] = repo'[d]
    BY <1>1, <1>3, <1>4, <2>5, <2>6
  <2>11. QED
    BY <1>1, <1>2, <1>3, <2>5, <2>8, <2>9, <2>10, ServedKeeps
<1>7. QED
  BY <1>5, <1>6


(* permit_join stores nothing.                                             *)
LEMMA PermitJoinStep ==
  ASSUME IInv, PermitJoin
  PROVE  IInv'
<1>1. /\ queue # <<>> /\ Head1.op = "permit_join" /\ Head1.on = "network" /\ queue' = Tail(queue)
      /\ UNCHANGED <<repo, store, made, doubt, screen, room, device, sure, stack, draft>>
  BY DEF PermitJoin, Runs, ui, Same, wizard, Ran
<1>2. ~ Listing(Head1) /\ ~ Renames(Head1)
  BY <1>1 DEF Listing, Renames
<1>3. \A d \in Collections : Shown(Head1, d) = repo[d]
  BY <1>1, <1>2 DEF Shown
<1>4. QED
  BY <1>1, <1>2, <1>3, ServedInVain

(* A record is taken out of the repository and of the store.               *)
LEMMA RemovedIs ==
  ASSUME Stored, NEW c \in Collections, NEW id, UNCHANGED made,
         repo' = [repo EXCEPT ![c] = Without(@, id)],
         store' = [store EXCEPT ![c] = Without(@, id)]
  PROVE  /\ Stored' /\ repo'[c] = Without(repo[c], id) /\ store'[c] = Without(store[c], id)
         /\ \A d \in Collections \ {c} : repo'[d] = repo[d] /\ store'[d] = store[d]
<1>1. Tables(repo) /\ Tables(store)
  BY DEF Stored
<1>2. /\ repo'[c] = Without(repo[c], id) /\ store'[c] = Without(store[c], id)
      /\ repo' = [d \in Collections |-> repo'[d]] /\ store' = [d \in Collections |-> store'[d]]
      /\ \A d \in Collections \ {c} : repo'[d] = repo[d] /\ store'[d] = store[d]
  BY <1>1 DEF Tables
<1>3. ASSUME NEW d \in Collections
      PROVE  /\ DOMAIN repo'[d] \subseteq DOMAIN repo[d] /\ DOMAIN store'[d] \subseteq DOMAIN store[d]
             /\ DOMAIN store'[d] \subseteq DOMAIN repo'[d]
             /\ \A x \in DOMAIN repo'[d] : repo'[d][x] = repo[d][x]
             /\ \A x \in DOMAIN store'[d] : store'[d][x] = store[d][x]
             /\ IsTable(repo'[d]) /\ IsTable(store'[d])
  <2>1. DOMAIN store[d] \subseteq DOMAIN repo[d] /\ IsTable(repo[d]) /\ IsTable(store[d])
    BY <1>1 DEF Stored, Tables
  <2>2. CASE d = c
    <3>1. repo'[d] = Without(repo[d], id) /\ store'[d] = Without(store[d], id)
      BY <1>2, <2>2
    <3>2. PICK f, g, h, k : f = repo[d] /\ g = repo'[d] /\ h = store[d] /\ k = store'[d]
      OBVIOUS
    <3>3. g = Without(f, id) /\ k = Without(h, id)
      BY <3>1, <3>2
    <3>4. /\ IsTable(g) /\ DOMAIN g = DOMAIN f \ {id} /\ \A x \in DOMAIN f \ {id} : g[x] = f[x]
          /\ IsTable(k) /\ DOMAIN k = DOMAIN h \ {id} /\ \A x \in DOMAIN h \ {id} : k[x] = h[x]
      BY <3>3 DEF Without, IsTable
    <3>5. DOMAIN h \subseteq DOMAIN f
      BY <2>1, <3>2
    <3>6. /\ DOMAIN g \subseteq DOMAIN f /\ DOMAIN k \subseteq DOMAIN h /\ DOMAIN k \subseteq DOMAIN g
          /\ (\A x \in DOMAIN g : g[x] = f[x]) /\ (\A x \in DOMAIN k : k[x] = h[x])
      BY <3>4, <3>5
    <3>7. QED
      BY <3>2, <3>4, <3>6
  <2>3. CASE d # c
    BY <1>2, <2>1, <2>3
  <2>4. QED
    BY <2>2, <2>3
<1>4. Tables(repo') /\ Tables(store')
  BY <1>1, <1>2, <1>3 DEF Tables
<1>5. "endpoints" \in Collections
  BY DEF Collections
<1>6. PairedOnce'
  BY <1>3, <1>5 DEF Stored, PairedOnce
<1>7. \A d \in Collections : DOMAIN repo'[d] \subseteq 1 .. made'[d]
  BY <1>3 DEF Stored
<1>8. \A e \in DOMAIN store'["endpoints"] :
        store'["endpoints"][e].ieee = repo'["endpoints"][e].ieee
  BY <1>3, <1>5 DEF Stored
<1>9. made' \in [Collections -> Nat]
  BY DEF Stored
<1>10. Stored'
  BY <1>3, <1>4, <1>6, <1>7, <1>8, <1>9 DEF Stored, Tables
<1>11. QED
  BY <1>2, <1>10

(* A delete that is refused changes nothing; else the page is left.        *)
LEMMA DeleteStep ==
  ASSUME IInv, NEW c \in Collections, Delete(c)
  PROVE  IInv'
<1>1. /\ queue # <<>> /\ Head1.op = "delete" /\ Head1.on = c /\ queue' = Tail(queue)
      /\ UNCHANGED <<made, doubt, stack, draft>>
  BY DEF Delete, Runs, Same, wizard, Ran
<1>2. ~ Listing(Head1) /\ ~ Renames(Head1)
  BY <1>1 DEF Listing, Renames
<1>3. /\ Stored /\ Paged /\ FromPage(Head1) /\ screen # "wizard" /\ doubt \subseteq Collections
      /\ \A d \in Collections \ doubt : store[d] = Shown(Head1, d)
  BY <1>1, <1>2, ServedIs
<1>4. /\ \A d \in Collections \ {"schedules"} : Shown(Head1, d) = repo[d]
      /\ c # "schedules" => Shown(Head1, "schedules") = repo["schedules"]
      /\ c = "schedules" => Shown(Head1, "schedules") = Without(repo["schedules"], Head1.id)
  BY <1>1, <1>2 DEF Shown
<1>5. CASE Head1.id \notin DOMAIN repo[c] \/ InUse(c, Head1.id)
  <2>1. UNCHANGED <<repo, store, screen, room, device, sure>>
    BY <1>5 DEF Delete, ui
  <2>2. c = "schedules" => Head1.id \notin DOMAIN repo["schedules"]
    BY <1>5 DEF InUse
  <2>3. c = "schedules" => Without(repo["schedules"], Head1.id) = repo["schedules"]
    <3>1. "schedules" \in Collections => IsTable(repo["schedules"])
      BY <1>3 DEF Stored, Tables
    <3>2. QED
      BY <2>2, <3>1 DEF Without, IsTable, Collections
  <2>4. \A d \in Collections : Shown(Head1, d) = repo[d]
    BY <1>4, <2>3
  <2>5. QED
    BY <1>1, <1>2, <2>1, <2>4, ServedInVain
<1>6. CASE ~ (Head1.id \notin DOMAIN repo[c] \/ InUse(c, Head1.id))
  <2>1. PICK n : n = Head1.id
    OBVIOUS
  <2>2. /\ repo' = [repo EXCEPT ![c] = Without(@, n)]
        /\ store' = [store EXCEPT ![c] = Without(@, n)]
        /\ Gone(c)
    BY <1>6, <2>1 DEF Delete
  <2>3. /\ Stored' /\ repo'[c] = Without(repo[c], n) /\ store'[c] = Without(store[c], n)
        /\ \A d \in Collections \ {c} : repo'[d] = repo[d] /\ store'[d] = store[d]
    BY <1>1, <1>3, <2>2, RemovedIs
  <2>4. ASSUME NEW d \in Collections \ doubt'
        PROVE  store'[d] = repo'[d]
    <3>1. store[d] = Shown(Head1, d)
      BY <1>1, <1>3
    <3>2. CASE d # c
      <4>1. Shown(Head1, d) = repo[d]
        BY <1>4, <3>2
      <4>2. QED
        BY <2>3, <3>1, <3>2, <4>1
    <3>3. CASE d = c /\ c # "schedules"
      BY <1>4, <2>3, <3>1, <3>3
    <3>4. CASE d = c /\ c = "schedules"
      <4>1. store[c] = Without(repo[c], n)
        BY <1>4, <2>1, <3>1, <3>4
      <4>2. Without(Without(repo[c], n), n) = Without(repo[c], n)
        BY DEF Without
      <4>3. QED
        BY <2>3, <3>4, <4>1, <4>2
    <3>5. QED
      BY <3>2, <3>3, <3>4
  <2>5. CASE c = "zones"
    <3>1. screen = "room"
      BY <1>1, <1>3, <2>5 DEF FromPage, Renames, Moves, Saves
    <3>2. screen' = "house" /\ room' = None /\ device' = device
      BY <2>2, <2>5, <3>1, BackIs DEF Gone, Loaded, LeftPage
    <3>3. Paged'
      BY <1>3, <3>1, <3>2 DEF Paged, RoomPages, DevicePages
    <3>4. screen' # "wizard" /\ screen' \notin DevicePages
      BY <3>2 DEF DevicePages
    <3>5. QED
      BY <1>1, <1>2, <1>3, <2>3, <2>4, <3>3, <3>4, ServedKeeps
  <2>6. CASE c = "endpoints"
    <3>1. screen = "device"
      BY <1>1, <1>3, <2>6 DEF FromPage, Renames, Moves, Saves
    <3>2. screen' = "room" /\ room' = room /\ device' = NoDevice
      BY <2>2, <2>6, <3>1, BackIs DEF Gone, Loaded, LeftPage
    <3>3. repo'["zones"] = repo["zones"]
      BY <2>3, <2>6 DEF Collections
    <3>4. NoDevice = [id |-> NoDevice.id, row |-> NoDevice.row]
      BY DEF NoDevice
    <3>5. Paged'
      BY <1>3, <3>1, <3>2, <3>3, <3>4 DEF Paged, RoomPages, DevicePages
    <3>6. screen' # "wizard" /\ screen' \notin DevicePages
      BY <3>2 DEF DevicePages
    <3>7. QED
      BY <1>1, <1>2, <1>3, <2>3, <2>4, <3>5, <3>6, ServedKeeps
  <2>7. CASE c = "schedules"
    <3>1. screen = "schedules"
      BY <1>1, <1>3, <2>7 DEF FromPage, Renames, Moves, Saves
    <3>2. screen' = screen /\ room' = room /\ device' = device
      BY <2>2, <2>7 DEF Gone, ui
    <3>3. /\ repo'["zones"] = repo["zones"] /\ repo'["endpoints"] = repo["endpoints"]
          /\ store'["endpoints"] = store["endpoints"]
      BY <2>3, <2>7 DEF Collections
    <3>4. Paged'
      BY <1>3, <3>2, <3>3, KeepsPages
    <3>5. screen' # "wizard" /\ screen' \notin DevicePages
      BY <3>1, <3>2 DEF DevicePages
    <3>6. QED
      BY <1>1, <1>2, <1>3, <2>3, <2>4, <3>4, <3>5, ServedKeeps
  <2>8. QED
    BY <2>5, <2>6, <2>7 DEF Collections
<1>7. QED
  BY <1>5, <1>6

(* What a page asks for does not depend on what is published.              *)
LEMMA AskedStill ==
  ASSUME NEW o, FromPage(o), UNCHANGED <<screen, room, device, sure>>,
         repo'["schedules"] = repo["schedules"]
  PROVE  FromPage(o)'
BY DEF FromPage, Renames, Moves, Saves, IsSchedule, ValidSchedule, WhenExists, OffsetTooFar

(* A change shows in the collection that it is about.                      *)
LEMMA ShownElsewhere ==
  ASSUME NEW o, NEW c, o.on # c
  PROVE  Shown(o, c) = repo[c]
BY DEF Shown, Renames

(* The draft is kept while the schedules and the wizard stay.              *)
LEMMA DraftStill ==
  ASSUME Drafted, UNCHANGED <<stack, draft, screen, sure>>,
         repo'["schedules"] = repo["schedules"], Working(queue') = Working(queue)
  PROVE  Drafted'
BY DEF Drafted, Stepped, RestsOn, WhenExists

(* A list publishes what is stored, unless a tap has overtaken it.         *)
LEMMA ListStep ==
  ASSUME IInv, NEW c \in {"zones", "schedules"}, List(c)
  PROVE  IInv'
<1>1. /\ queue # <<>> /\ Listing(Head1) /\ Head1.on = c /\ queue' = Tail(queue)
      /\ c \in Collections /\ store' = [store EXCEPT ![c] = repo[c]]
      /\ doubt' = Published({c}, queue')
      /\ UNCHANGED <<repo, made, screen, room, device, sure, stack, draft>>
  BY DEF List, Runs, Listing, ui, Same, wizard, Ran, Collections
<1>2. Queued /\ Stored /\ Paged /\ Asked /\ Current /\ PageCurrent /\ Drafted
  BY DEF IInv
<1>3. /\ Queued' /\ Working(queue') = Working(queue) /\ Lists(queue) = {c} /\ Lists(queue') = {}
      /\ \A d : Pending(d, queue') <=> \E o \in Working(queue) : o.on = d
  BY <1>1, <1>2, ListedQueue
<1>4. Tables(repo) /\ Tables(store)
  BY <1>2 DEF Stored
<1>5. /\ store'[c] = repo[c] /\ store' = [d \in Collections |-> store'[d]]
      /\ \A d \in Collections \ {c} : store'[d] = store[d]
  BY <1>1, <1>4 DEF Tables
<1>6. store'["endpoints"] = store["endpoints"]
  BY <1>5 DEF Collections
<1>7. Stored'
  <2>1. Tables(store')
    BY <1>4, <1>5 DEF Tables
  <2>2. \A d \in Collections : DOMAIN store'[d] \subseteq DOMAIN repo[d]
    BY <1>2, <1>5 DEF Stored
  <2>3. QED
    BY <1>1, <1>2, <1>6, <2>1, <2>2 DEF Stored, Tables, PairedOnce
<1>8. Paged'
  BY <1>1, <1>2, <1>6, KeepsPages
<1>9. Asked'
  BY <1>1, <1>2, <1>3, AskedStill DEF Asked
<1>10. Current'
  <2>1. /\ doubt' \subseteq Collections /\ doubt \subseteq doubt' \cup {c}
        /\ c \notin doubt' => \A o \in Working(queue) : o.on # c
    BY <1>1, <1>2, <1>3 DEF Published, Current
  <2>2. ASSUME NEW d \in Collections \ doubt'
        PROVE  /\ Working(queue') = {} => store'[d] = repo'[d]
               /\ \A o \in Working(queue') : store'[d] = Shown(o, d)
    <3>1. CASE d = c
      BY <1>1, <1>3, <1>5, <2>1, <3>1, ShownElsewhere
    <3>2. CASE d # c
      BY <1>1, <1>2, <1>3, <1>5, <2>1, <3>2 DEF Current
    <3>3. QED
      BY <3>1, <3>2
  <2>3. \A o, d : Shown(o, d)' = Shown(o, d)
    BY <1>1 DEF Shown, Renames, Without
  <2>4. QED
    BY <1>3, <2>1, <2>2, <2>3 DEF Current
<1>11. PageCurrent'
  BY <1>1, <1>2, <1>3 DEF PageCurrent
<1>12. Drafted'
  BY <1>1, <1>2, <1>3, DraftStill
<1>13. QED
  BY <1>3, <1>7, <1>8, <1>9, <1>10, <1>11, <1>12 DEF IInv


(* A rename keeps the radio of the record, and so does a move; the page    *)
(* that asked for it is still open.                                        *)
LEMMA UpdateDeviceStep ==
  ASSUME IInv, UpdateDevice
  PROVE  IInv'
<1>1. /\ queue # <<>> /\ Head1.op = "update" /\ Head1.on = "endpoints" /\ queue' = Tail(queue)
      /\ doubt' = (IF Head1.sure THEN doubt ELSE doubt \cup {"endpoints"})
      /\ UNCHANGED <<made, screen, room, stack, draft>>
  BY DEF UpdateDevice, Runs, Same, wizard, Ran
<1>2. ~ Listing(Head1) /\ "endpoints" \in Collections
  BY <1>1 DEF Listing, Collections
<1>3. /\ Stored /\ Paged /\ FromPage(Head1) /\ screen # "wizard" /\ doubt \subseteq Collections
      /\ Working(queue) = {Head1}
      /\ \A d \in Collections \ doubt : store[d] = Shown(Head1, d)
  BY <1>1, <1>2, ServedIs
<1>4. PICK n, row : n = Head1.id /\ row = Head1.data
  OBVIOUS
<1>5. /\ screen = "device" /\ n = device.id /\ Head1.sure = sure
      /\ \/ Head1.fields = {"name"} /\ row = device.row
         \/ Head1.fields = {"zone"} /\ row = [device.row EXCEPT !.zone = row.zone]
  BY <1>1, <1>3, <1>4 DEF FromPage, Renames, Moves, Saves
<1>6. /\ n \in DOMAIN store["endpoints"] /\ n \in DOMAIN repo["endpoints"]
      /\ IsEndpoint(device.row) /\ device.row.ieee = repo["endpoints"][n].ieee
      /\ device = [id |-> device.id, row |-> device.row]
  BY <1>2, <1>3, <1>5 DEF Paged, Stored, DevicePages
<1>7. IsEndpoint(row) /\ row.ieee = repo["endpoints"][n].ieee
  BY <1>5, <1>6 DEF IsEndpoint
<1>8. Saved("endpoints", n, row)
  BY <1>4, <1>6 DEF UpdateDevice
<1>9. "zones" # "endpoints" /\ "zones" \in Collections /\ IsRecord("endpoints", row)
  BY <1>7 DEF Collections, IsRecord
<1>10. PICK there : there = With(repo["endpoints"], n, row)
  OBVIOUS
<1>11. there = [x \in DOMAIN repo["endpoints"] |-> IF x = n THEN row ELSE repo["endpoints"][x]]
  BY <1>6, <1>10 DEF With
<1>12. doubt' \subseteq Collections /\ doubt \subseteq doubt'
  BY <1>1, <1>2, <1>3
<1>13. \A d \in Collections \ {"endpoints"} : Shown(Head1, d) = repo[d]
  BY <1>1, ShownElsewhere
<1>14. CASE Head1.fields = {"name"}
  <2>1. UNCHANGED <<store, device, sure>>
    <3>1. "zone" \notin Head1.fields
      BY <1>14
    <3>2. QED
      BY <1>4, <1>6, <3>1 DEF UpdateDevice
  <2>2. /\ Stored' /\ repo'["endpoints"] = there
        /\ \A d \in Collections \ {"endpoints"} : repo'[d] = repo[d]
    <3>1. UNCHANGED <<store, made>> /\ Stored
      BY <1>1, <1>3, <2>1
    <3>2. KeepsRadio("endpoints", n, row)
      BY <1>6, <1>7 DEF KeepsRadio
    <3>3. Stored' /\ repo'["endpoints"] = With(repo["endpoints"], n, row)
          /\ \A d \in Collections \ {"endpoints"} : repo'[d] = repo[d]
      <4>1. "endpoints" \in Collections /\ n \in DOMAIN repo["endpoints"]
            /\ Saved("endpoints", n, row) /\ IsRecord("endpoints", row) /\ Stored
        BY <1>2, <1>6, <1>8, <1>9, <3>1
      <4>2. QED
        BY <4>1, <3>1, <3>2, ReplacedIs
    <3>4. QED
      BY <1>10, <3>3
  <2>3. row = device.row
    BY <1>5, <1>14
  <2>4. there[n] = row /\ DOMAIN there = DOMAIN repo["endpoints"]
    BY <1>6, <1>11
  <2>5. repo'["zones"] = repo["zones"]
    BY <1>9, <2>2
  <2>6. Paged'
    BY <1>1, <1>3, <1>5, <1>6, <1>7, <2>1, <2>2, <2>3, <2>4, <2>5 DEF Paged, RoomPages, DevicePages
  <2>7. screen' \in DevicePages /\ sure' => device'.row = repo'["endpoints"][device'.id]
    BY <1>5, <2>1, <2>2, <2>3, <2>4
  <2>8. ASSUME sure, "endpoints" \notin doubt PROVE store["endpoints"] = there
    <3>1. Renames(Head1)
      BY <1>1, <1>14 DEF Renames
    <3>2. store["endpoints"] = [id \in DOMAIN repo["endpoints"] |->
             IF id = n THEN [repo["endpoints"][n] EXCEPT !.name = row.name]
             ELSE repo["endpoints"][id]]
      BY <1>1, <1>2, <1>3, <1>4, <2>8, <3>1 DEF Shown
    <3>3. row = [repo["endpoints"][n] EXCEPT !.name = row.name]
      BY <1>3, <1>5, <2>3, <2>8, <3>1 DEF IInv, PageCurrent, DevicePages
    <3>4. QED
      BY <1>11, <3>2, <3>3
  <2>9. \A d \in Collections \ doubt' : store'[d] = repo'[d]
    <3>1. "endpoints" \notin doubt' => sure /\ "endpoints" \notin doubt
      BY <1>1, <1>5
    <3>2. QED
      BY <1>3, <1>12, <1>13, <2>1, <2>2, <2>8, <3>1
  <2>10. QED
    BY <1>1, <1>2, <1>3, <1>12, <2>2, <2>6, <2>7, <2>9, ServedKeeps
<1>15. CASE Head1.fields = {"zone"}
  <2> DEFINE eps == store["endpoints"]
  <2>1. PICK new : new = [eps[n] EXCEPT !.zone = row.zone]
    OBVIOUS
  <2>2. /\ store' = [store EXCEPT !["endpoints"] = [eps EXCEPT ![n] = new]]
        /\ device' = [device EXCEPT !.row = store'["endpoints"][n]]
        /\ sure' = (sure /\ "endpoints" \notin doubt)
    BY <1>4, <1>6, <1>15, <2>1 DEF UpdateDevice
  <2>3. /\ Tables(store) /\ Tables(repo) /\ IsTable(eps) /\ IsEndpoint(eps[n])
        /\ eps[n].ieee = repo["endpoints"][n].ieee
    BY <1>2, <1>3, <1>6 DEF Stored, Tables, IsRecord
  <2>4. PICK here : here = [eps EXCEPT ![n] = new]
    OBVIOUS
  <2>5. /\ here = [x \in DOMAIN eps |-> IF x = n THEN new ELSE eps[x]]
        /\ DOMAIN here = DOMAIN eps /\ here[n] = new
    BY <1>6, <2>3, <2>4 DEF IsTable
  <2>6. /\ store'["endpoints"] = here /\ store' = [d \in Collections |-> store'[d]]
        /\ \A d \in Collections \ {"endpoints"} : store'[d] = store[d]
    BY <1>2, <2>2, <2>3, <2>4 DEF Tables
  <2>7. IsEndpoint(new) /\ new.ieee = eps[n].ieee /\ new.zone = row.zone
    BY <2>1, <2>3 DEF IsEndpoint
  <2>8. device' = [id |-> device'.id, row |-> device'.row] /\ device'.id = n /\ device'.row = new
    BY <1>5, <1>6, <2>2, <2>5, <2>6
  <2> HIDE DEF eps
  <2>9. /\ repo'["endpoints"] = there /\ repo' = [d \in Collections |-> repo'[d]]
        /\ \A d \in Collections \ {"endpoints"} : repo'[d] = repo[d]
    BY <1>2, <1>8, <1>10, <2>3 DEF Saved, Tables
  <2>10. there[n] = row /\ DOMAIN there = DOMAIN repo["endpoints"] /\ IsTable(there)
         /\ \A x \in DOMAIN there : x # n => there[x] = repo["endpoints"][x]
    BY <1>6, <1>11 DEF IsTable
  <2>11. Stored'
    <3>1. \A x \in DOMAIN there : IsRecord("endpoints", there[x])
      BY <1>2, <1>9, <2>3, <2>10 DEF Tables
    <3>2. \A x \in DOMAIN here : IsRecord("endpoints", here[x])
      BY <1>2, <2>3, <2>5, <2>7 DEF Tables, IsRecord, eps
    <3>3. IsTable(here)
      BY <2>5 DEF IsTable
    <3>4. Tables(repo') /\ Tables(store')
      BY <2>3, <2>6, <2>9, <2>10, <3>1, <3>2, <3>3 DEF Tables
    <3>5. \A x \in DOMAIN there : there[x].ieee = repo["endpoints"][x].ieee
      BY <1>7, <2>10
    <3>6. PairedOnce'
      BY <1>3, <2>9, <2>10, <3>5 DEF Stored, PairedOnce
    <3>7. ASSUME NEW d \in Collections
          PROVE  DOMAIN repo'[d] = DOMAIN repo[d] /\ DOMAIN store'[d] = DOMAIN store[d]
      BY <2>5, <2>6, <2>9, <2>10 DEF eps
    <3>8. \A d \in Collections : /\ DOMAIN repo'[d] \subseteq 1 .. made'[d]
                                 /\ DOMAIN store'[d] \subseteq DOMAIN repo'[d]
      BY <1>1, <1>3, <3>7 DEF Stored
    <3>9. \A e \in DOMAIN store'["endpoints"] :
            store'["endpoints"][e].ieee = repo'["endpoints"][e].ieee
      <4>1. ASSUME NEW e \in DOMAIN here PROVE here[e].ieee = there[e].ieee
        <5>1. e \in DOMAIN eps /\ e \in DOMAIN there
          BY <1>2, <1>3, <2>5, <2>10 DEF Stored, eps
        <5>2. here[e].ieee = eps[e].ieee
          BY <2>5, <2>7, <5>1
        <5>3. eps[e].ieee = repo["endpoints"][e].ieee
          BY <1>3, <5>1 DEF Stored, eps
        <5>4. QED
          BY <3>5, <5>1, <5>2, <5>3
      <4>2. QED
        BY <2>6, <2>9, <4>1
    <3>10. made' \in [Collections -> Nat]
      BY <1>1, <1>3 DEF Stored
    <3>11. QED
      BY <3>4, <3>6, <3>8, <3>9, <3>10 DEF Stored, Tables
  <2>12. repo'["zones"] = repo["zones"] /\ n \in DOMAIN here
    BY <1>6, <1>9, <2>5, <2>9 DEF eps
  <2>13. new.ieee = there[n].ieee
    BY <1>7, <2>3, <2>7, <2>10
  <2>14. Paged'
    BY <1>1, <1>3, <1>5, <2>6, <2>7, <2>8, <2>9, <2>12, <2>13 DEF Paged, RoomPages, DevicePages
  <2>15. ASSUME sure, "endpoints" \notin doubt PROVE eps = repo["endpoints"] /\ new = row
    <3>1. ~ Renames(Head1)
      BY <1>15 DEF Renames
    <3>2. eps = repo["endpoints"]
      BY <1>1, <1>2, <1>3, <2>15, <3>1 DEF Shown, eps
    <3>3. device.row = repo["endpoints"][n]
      BY <1>1, <1>2, <1>5, <2>15, <3>1, PageServed DEF DevicePages
    <3>4. row = [device.row EXCEPT !.zone = row.zone]
      BY <1>5, <1>15
    <3>5. QED
      BY <2>1, <3>2, <3>3, <3>4
  <2>16. screen' \in DevicePages /\ sure' => device'.row = repo'["endpoints"][device'.id]
    BY <2>2, <2>8, <2>9, <2>10, <2>15
  <2>17. \A d \in Collections \ doubt' : store'[d] = repo'[d]
    <3>1. "endpoints" \notin doubt' => sure /\ "endpoints" \notin doubt
      BY <1>1, <1>5
    <3>2. sure /\ "endpoints" \notin doubt => here = there
      BY <1>11, <2>5, <2>15
    <3>3. QED
      BY <1>3, <1>12, <1>13, <2>6, <2>9, <3>1, <3>2
  <2>18. QED
    BY <1>1, <1>2, <1>3, <1>12, <2>11, <2>14, <2>16, <2>17, ServedKeeps
<1>16. QED
  BY <1>5, <1>14, <1>15


(***************************************************************************)
(* The refresh, the world, and the whole.                                  *)
(***************************************************************************)

(* Nothing the invariant is about changes.                                 *)
LEMMA Unmoved ==
  ASSUME IInv,
         UNCHANGED <<repo, store, made, queue, doubt, screen, room, device, sure, stack, draft>>
  PROVE  IInv'
<1>1. Queued' /\ Stored' /\ Paged' /\ Drafted'
  BY KeepsStored, DraftStill DEF IInv, Queued, Paged, RoomPages, DevicePages
<1>2. Working(queue') = Working(queue) /\ Lists(queue') = Lists(queue)
  OBVIOUS
<1>3. \A o, c : Shown(o, c)' = Shown(o, c)
  BY DEF Shown, Renames, Without
<1>4. Asked' /\ PageCurrent'
  BY <1>2, AskedStill DEF IInv, Asked, PageCurrent
<1>5. Current'
  BY <1>2, <1>3 DEF IInv, Current
<1>6. QED
  BY <1>1, <1>4, <1>5 DEF IInv

(* Everything is published as it is stored, once what was joined is        *)
(* adopted; what waits will still be done.                                 *)
LEMMA RefreshStep ==
  ASSUME IInv, Refresh
  PROVE  IInv'
<1>1. /\ doubt' = Published(Collections, queue)
      /\ UNCHANGED <<queue, screen, room, device, sure, stack, draft>>
  BY DEF Refresh, ui, wizard
<1>2. Queued /\ Stored /\ Paged /\ Asked /\ Current /\ PageCurrent /\ Drafted
  BY DEF IInv
<1>3. /\ Stored' /\ store' = repo' /\ repo'["schedules"] = repo["schedules"]
      /\ repo'["zones"] = repo["zones"]
      /\ \A e \in DOMAIN repo["endpoints"] : /\ e \in DOMAIN repo'["endpoints"]
                                             /\ repo'["endpoints"][e] = repo["endpoints"][e]
  <2>1. CASE store' = repo /\ UNCHANGED <<repo, made>>
    BY <1>2, <2>1 DEF Stored, Tables, PairedOnce
  <2>2. ASSUME NEW ieee \in Adoptable, NEW name \in Names,
               made' = [made EXCEPT !["endpoints"] = @ + 1],
               Saved("endpoints", made'["endpoints"], [name |-> name, zone |-> pairing, ieee |-> ieee]),
               store' = repo'
        PROVE  /\ Stored' /\ store' = repo' /\ repo'["schedules"] = repo["schedules"]
               /\ repo'["zones"] = repo["zones"]
               /\ \A e \in DOMAIN repo["endpoints"] : /\ e \in DOMAIN repo'["endpoints"]
                                                      /\ repo'["endpoints"][e] = repo["endpoints"][e]
    <3>1. PICK n, v : n = made'["endpoints"] /\ v = [name |-> name, zone |-> pairing, ieee |-> ieee]
      OBVIOUS
    <3>2. Saved("endpoints", n, v) /\ "endpoints" \in Collections
      BY <2>2, <3>1 DEF Collections
    <3>3. /\ made' \in [Collections -> Nat] /\ \A d \in Collections : made[d] <= made'[d]
          /\ n \in 1 .. made'["endpoints"] /\ n \notin DOMAIN repo["endpoints"]
      BY <1>2, <2>2, <3>1, <3>2, NextId
    <3>4. IsRecord("endpoints", v) /\ v.ieee = ieee
      BY <3>1 DEF IsRecord, IsEndpoint
    <3>5. KeepsRadio("endpoints", n, v)
      BY <3>3, <3>4 DEF KeepsRadio, Adoptable
    <3>6. /\ Stored' /\ repo'["endpoints"] = With(repo["endpoints"], n, v)
          /\ \A d \in Collections \ {"endpoints"} : repo'[d] = repo[d]
      BY <1>2, <2>2, <3>2, <3>3, <3>4, <3>5, SavedIs
    <3>7. \A e \in DOMAIN repo["endpoints"] : /\ e \in DOMAIN repo'["endpoints"]
                                              /\ repo'["endpoints"][e] = repo["endpoints"][e]
      BY <3>3, <3>6 DEF With
    <3>8. QED
      BY <2>2, <3>6, <3>7 DEF Collections
  <2>3. QED
    BY <2>1, <2>2 DEF Refresh
<1>4. Queued' /\ Working(queue') = Working(queue) /\ Lists(queue') = Lists(queue)
  BY <1>1, <1>2 DEF Queued
<1>5. Paged'
  <2>1. ASSUME screen \in DevicePages
        PROVE  /\ device.id \in DOMAIN store'["endpoints"]
               /\ device.row.ieee = repo'["endpoints"][device.id].ieee
    <3>1. device.id \in DOMAIN repo["endpoints"]
      BY <1>2, <2>1 DEF Paged, Stored, Collections
    <3>2. QED
      BY <1>2, <1>3, <2>1, <3>1 DEF Paged
  <2>2. QED
    BY <1>1, <1>2, <1>3, <2>1 DEF Paged, RoomPages, DevicePages
<1>6. Asked'
  BY <1>1, <1>2, <1>3, <1>4, AskedStill DEF Asked
<1>7. Current'
  <2>1. doubt' = {c \in Collections : Pending(c, queue)}
    BY <1>1, <1>2 DEF Published, Current
  <2>2. ASSUME NEW c \in Collections \ doubt', NEW o \in Working(queue)
        PROVE  store'[c] = Shown(o, c)'
    <3>1. o.on # c
      BY <1>2, <2>1, <2>2, PendingIs
    <3>2. Shown(o, c)' = repo'[c]
      BY <3>1 DEF Shown, Renames
    <3>3. QED
      BY <1>3, <3>2
  <2>3. QED
    BY <1>3, <1>4, <2>1, <2>2 DEF Current
<1>8. PageCurrent'
  <2>1. ASSUME screen \in DevicePages
        PROVE  repo'["endpoints"][device.id] = repo["endpoints"][device.id]
    <3>1. device.id \in DOMAIN repo["endpoints"]
      BY <1>2, <2>1 DEF Paged, Stored, Collections
    <3>2. QED
      BY <1>3, <3>1
  <2>2. QED
    BY <1>1, <1>2, <1>4, <2>1 DEF PageCurrent
<1>9. Drafted'
  BY <1>1, <1>2, <1>3, <1>4, DraftStill
<1>10. QED
  BY <1>3, <1>4, <1>5, <1>6, <1>7, <1>8, <1>9 DEF IInv

(* A reboot keeps what is stored and forgets the rest.                     *)
LEMMA RebootStep ==
  ASSUME IInv, Reboot
  PROVE  IInv'
<1>1. /\ store' = Nothing /\ doubt' = Collections /\ queue' = <<>> /\ screen' = "home"
      /\ device' = NoDevice /\ stack' = <<>> /\ draft' = NoDraft /\ UNCHANGED <<repo, made>>
  BY DEF Reboot
<1>2. Queued' /\ Working(queue') = {} /\ Lists(queue') = {}
  BY <1>1, ClearedQueue
<1>3. Stored'
  <2>1. /\ Nothing = [c \in Collections |-> Nothing[c]]
        /\ \A c \in Collections : DOMAIN Nothing[c] = {} /\ IsTable(Nothing[c])
    BY DEF Nothing, IsTable
  <2>2. Tables(store') /\ "endpoints" \in Collections
    BY <1>1, <2>1 DEF Tables, Collections
  <2>3. QED
    BY <1>1, <2>1, <2>2 DEF IInv, Stored, Tables, PairedOnce
<1>4. NoDevice = [id |-> NoDevice.id, row |-> NoDevice.row]
  BY DEF NoDevice
<1>5. Paged' /\ PageCurrent'
  BY <1>1, <1>4 DEF Paged, PageCurrent, RoomPages, DevicePages
<1>6. Asked' /\ Current'
  BY <1>1, <1>2 DEF Asked, Current
<1>7. Drafted'
  BY <1>1, NoDraftIs
<1>8. QED
  BY <1>2, <1>3, <1>5, <1>6, <1>7 DEF IInv

(* The invariant holds after the first boot.                               *)
LEMMA InitHolds ==
  ASSUME Init
  PROVE  IInv
<1>1. /\ store = Nothing /\ doubt = Collections /\ queue = <<>> /\ screen = "home"
      /\ device = NoDevice /\ stack = <<>> /\ draft = NoDraft
      /\ made = [c \in Collections |-> 1]
  BY DEF Init
<1>2. IsSequence(<<>>) /\ Len(<<>>) = 0
  BY EmptySeq DEF IsSequence
<1>3. Queued /\ Working(queue) = {} /\ Lists(queue) = {}
  BY <1>1, <1>2, EmptyQueue DEF Queued
<1>4. PICK ieee \in Ieees, name \in Names :
        repo = [zones |-> [id \in {1} |-> name],
                endpoints |-> [id \in {1} |-> [name |-> name, zone |-> 1, ieee |-> ieee]],
                schedules |-> [id \in {1} |-> FirstSchedule]]
  BY DEF Init
<1>5. /\ repo["zones"] = [id \in {1} |-> name]
      /\ repo["endpoints"] = [id \in {1} |-> [name |-> name, zone |-> 1, ieee |-> ieee]]
      /\ repo["schedules"] = [id \in {1} |-> FirstSchedule]
      /\ repo = [c \in Collections |-> repo[c]]
  BY <1>4 DEF Collections
<1>6. IsSchedule(FirstSchedule)
  BY DEF FirstSchedule, IsSchedule, Fields
<1>7. IsEndpoint([name |-> name, zone |-> 1, ieee |-> ieee])
  BY DEF IsEndpoint
<1>8. ASSUME NEW c \in Collections
      PROVE  /\ IsTable(repo[c]) /\ DOMAIN repo[c] = {1}
             /\ \A id \in DOMAIN repo[c] : IsRecord(c, repo[c][id])
  <2>1. CASE c = "zones"
    BY <1>5, <2>1 DEF IsTable, IsRecord
  <2>2. CASE c = "endpoints"
    BY <1>5, <1>7, <2>2 DEF IsTable, IsRecord
  <2>3. CASE c = "schedules"
    BY <1>5, <1>6, <2>3 DEF IsTable, IsRecord
  <2>4. QED
    BY <2>1, <2>2, <2>3 DEF Collections
<1>9. Tables(repo)
  BY <1>5, <1>8 DEF Tables
<1>10. /\ Nothing = [c \in Collections |-> Nothing[c]]
       /\ \A c \in Collections : DOMAIN Nothing[c] = {} /\ IsTable(Nothing[c])
  BY DEF Nothing, IsTable
<1>11. Tables(store) /\ "endpoints" \in Collections
  BY <1>1, <1>10 DEF Tables, Collections
<1>12. made \in [Collections -> Nat] /\ 1 .. 1 = {1} /\ \A c \in Collections : made[c] = 1
  BY <1>1
<1>13. PairedOnce
  BY <1>8, <1>11 DEF PairedOnce
<1>14. Stored
  BY <1>1, <1>8, <1>9, <1>10, <1>11, <1>12, <1>13 DEF Stored
<1>15. NoDevice = [id |-> NoDevice.id, row |-> NoDevice.row]
  BY DEF NoDevice
<1>16. Paged /\ PageCurrent
  BY <1>1, <1>15 DEF Paged, PageCurrent, RoomPages, DevicePages
<1>17. Asked /\ Current
  BY <1>1, <1>3 DEF Asked, Current
<1>18. IsDraft(NoDraft) /\ NoDraft["enabled"] = None
  BY DEF NoDraft, IsDraft, Fields
<1>19. Drafted
  BY <1>1, <1>2, <1>18 DEF Drafted, Stepped, IsDraft
<1>20. QED
  BY <1>3, <1>14, <1>16, <1>17, <1>19 DEF IInv

(* Every step keeps the invariant.                                         *)
LEMMA StepHolds ==
  ASSUME IInv, [Next]_vars
  PROVE  IInv'
<1>1. CASE Tap
  BY <1>1, PageOpenStep, BackStep, TextOpenStep, OpenRoomStep, OpenDeviceStep, MoveStep,
     CreateRoomStep, SaveRoomNameStep, SaveNameStep, DeleteRoomStep, AddDeviceStep,
     ApplyMoveStep, RemoveDeviceStep, SetEnabledStep, DeleteScheduleStep, EditScheduleStep,
     InWizardStep, SaveScheduleStep DEF Tap
<1>2. CASE Serve
  BY <1>2, CreateStep, ListStep, DeleteStep, UpdateRoomStep, UpdateDeviceStep,
     UpdateScheduleStep, UpdateEnabledStep, PermitJoinStep DEF Serve
<1>3. CASE Refresh
  BY <1>3, RefreshStep
<1>4. CASE \E ieee \in Ieees : Join(ieee)
  BY <1>4, Unmoved DEF Join, ui, wizard
<1>5. CASE NetworkCloses
  BY <1>5, Unmoved DEF NetworkCloses, ui, wizard
<1>6. CASE Reboot
  BY <1>6, RebootStep
<1>7. CASE UNCHANGED vars
  BY <1>7, Unmoved DEF vars, ui, wizard
<1>8. QED
  BY <1>1, <1>2, <1>3, <1>4, <1>5, <1>6, <1>7 DEF Next


(* Whatever is tapped, served, published or lost, the screens, the wizard  *)
(* and what waits agree with the records: the invariant is inductive.      *)
THEOREM PanelInductive == Spec => []IInv
BY InitHolds, StepHolds, PTL DEF Spec

(***************************************************************************)
(* The properties.                                                         *)
(***************************************************************************)

(* With no operation on a collection it is shown as it is stored.          *)
LEMMA CurrentIs ==
  ASSUME IInv
  PROVE  StoreIsCurrent
<1>1. ASSUME NEW c \in Collections \ doubt, ~ Pending(c, queue)
      PROVE  store[c] = repo[c]
  <2>1. c \notin Lists(queue) /\ \A o \in Working(queue) : o.on # c
    BY <1>1, PendingIs DEF IInv
  <2>2. CASE Working(queue) = {}
    BY <2>1, <2>2 DEF IInv, Current
  <2>3. ASSUME NEW o \in Working(queue)
        PROVE  store[c] = repo[c]
    <3>1. store[c] = Shown(o, c) /\ o.on # c
      BY <2>1 DEF IInv, Current
    <3>2. QED
      BY <3>1, ShownElsewhere
  <2>4. QED
    BY <2>2, <2>3
<1>2. QED
  BY <1>1 DEF StoreIsCurrent

(* What waits to be saved is what the wizard let through.                  *)
LEMMA SavesValidIs ==
  ASSUME IInv
  PROVE  WizardSavesValid
<1>1. ASSUME NEW i \in DOMAIN queue, queue[i].on = "schedules",
             queue[i].op \in {"create", "update"}
      PROVE  ValidSchedule(queue[i].data) \/ OffsetTooFar(queue[i].data)
  <2>1. DOMAIN queue = 1 .. Len(queue)
    BY SequenceIs DEF IInv, Queued
  <2>2. PICK o : o = queue[i]
    OBVIOUS
  <2>3. o.on = "schedules" /\ o.op \in {"create", "update"} /\ ~ Listing(o)
    BY <1>1, <2>2 DEF Listing
  <2>4. o \in Working(queue)
    BY <2>1, <2>2, <2>3 DEF Working
  <2>5. FromPage(o)
    BY <2>4 DEF IInv, Asked
  <2>6. ValidSchedule(o.data) \/ OffsetTooFar(o.data)
    BY <2>3, <2>5 DEF FromPage, Renames, Moves
  <2>7. QED
    BY <2>2, <2>6
<1>2. QED
  BY <1>1 DEF WizardSavesValid

(* What a page is about is stored.                                         *)
LEMMA PageIs ==
  ASSUME IInv
  PROVE  PageHasItsRecord
<1>1. Paged /\ DOMAIN store["endpoints"] \subseteq DOMAIN repo["endpoints"]
  BY DEF IInv, Stored, Collections
<1>2. QED
  BY <1>1 DEF Paged, PageHasItsRecord, RoomPages, DevicePages

(* What changes in a record that stays is what the operation is about.     *)
OneThing ==
  \A c \in Collections :
    \A id \in DOMAIN repo[c] \cap DOMAIN repo'[c] :
      c # "zones" /\ queue # <<>> /\ repo[c][id] # repo'[c][id] /\ Head1.sure =>
        \A f \in DOMAIN repo[c][id] \ Head1.fields : repo'[c][id][f] = repo[c][id][f]

(* An operation that changes no record of a device or of a schedule.       *)
LEMMA SameRecords ==
  ASSUME \A c \in Collections : \A id \in DOMAIN repo[c] \cap DOMAIN repo'[c] :
           c # "zones" => repo'[c][id] = repo[c][id]
  PROVE  OneThing
BY DEF OneThing

(* A rename leaves the room and a move the name.                           *)
LEMMA RenameOrMove ==
  ASSUME IInv, UpdateDevice
  PROVE  OneThing
<1>1. queue # <<>> /\ Head1.op = "update" /\ Head1.on = "endpoints"
  BY DEF UpdateDevice, Runs
<1>2. ~ Listing(Head1) /\ "endpoints" \in Collections
  BY <1>1 DEF Listing, Collections
<1>3. Stored /\ Paged /\ FromPage(Head1) /\ Working(queue) = {Head1} /\ Tables(repo)
  BY <1>1, <1>2, ServedIs DEF Stored
<1>4. PICK n, row : n = Head1.id /\ row = Head1.data
  OBVIOUS
<1>5. /\ screen = "device" /\ n = device.id /\ Head1.sure = sure
      /\ \/ Head1.fields = {"name"} /\ row = device.row
         \/ Head1.fields = {"zone"} /\ row = [device.row EXCEPT !.zone = row.zone]
  BY <1>1, <1>3, <1>4 DEF FromPage, Renames, Moves, Saves
<1>6. n \in DOMAIN repo["endpoints"]
  BY <1>2, <1>3, <1>5 DEF Paged, Stored, DevicePages
<1>7. Saved("endpoints", n, row)
  BY <1>4, <1>6 DEF UpdateDevice
<1>8. PICK old : old = repo["endpoints"][n]
  OBVIOUS
<1>9. old = [name |-> old.name, zone |-> old.zone, ieee |-> old.ieee]
  BY <1>2, <1>3, <1>6, <1>8 DEF Tables, IsRecord, IsEndpoint
<1>10. ASSUME sure
       PROVE  \/ Head1.fields = {"name"} /\ row = [old EXCEPT !.name = row.name]
              \/ Head1.fields = {"zone"} /\ row = [old EXCEPT !.zone = row.zone]
  <2>1. CASE Head1.fields = {"name"}
    <3>1. row = device.row
      BY <1>5, <2>1
    <3>2. Renames(Head1)
      BY <1>1, <2>1 DEF Renames
    <3>3. device.row = [repo["endpoints"][device.id] EXCEPT !.name = device.row.name]
      BY <1>3, <1>5, <1>10, <3>2 DEF IInv, PageCurrent, DevicePages
    <3>4. QED
      BY <1>5, <1>8, <2>1, <3>1, <3>3
  <2>2. CASE Head1.fields = {"zone"}
    <3>1. row = [device.row EXCEPT !.zone = row.zone]
      BY <1>5, <2>2
    <3>2. ~ Renames(Head1)
      BY <2>2 DEF Renames
    <3>3. device.row = repo["endpoints"][device.id]
      BY <1>1, <1>2, <1>5, <1>10, <3>2, PageServed DEF DevicePages
    <3>4. QED
      BY <1>5, <1>8, <2>2, <3>1, <3>3
  <2>3. QED
    BY <1>5, <2>1, <2>2
<1>11. /\ repo'["endpoints"] = With(repo["endpoints"], n, row)
       /\ \A d \in Collections \ {"endpoints"} : repo'[d] = repo[d]
  BY <1>2, <1>3, <1>7 DEF Saved, Tables
<1>12. /\ repo'["endpoints"][n] = row
       /\ \A x \in DOMAIN repo["endpoints"] : x # n => repo'["endpoints"][x] = repo["endpoints"][x]
  BY <1>6, <1>11 DEF With
<1>13. sure => \A f \in DOMAIN old \ Head1.fields : row[f] = old[f]
  BY <1>9, <1>10
<1>14. QED
  BY <1>5, <1>8, <1>11, <1>12, <1>13 DEF OneThing

(* An edit leaves a schedule enabled or disabled.                          *)
LEMMA EditOfSchedule ==
  ASSUME IInv, UpdateSchedule
  PROVE  OneThing
<1>1. queue # <<>> /\ Head1.op = "update" /\ Head1.on = "schedules" /\ "schedules" \in Collections
  BY DEF UpdateSchedule, Runs, Collections
<1>2. ~ Listing(Head1)
  BY <1>1 DEF Listing
<1>3. Stored /\ FromPage(Head1) /\ Tables(repo)
  BY <1>1, <1>2, ServedIs DEF Stored
<1>4. PICK n, s : n = Head1.id /\ s = Head1.data
  OBVIOUS
<1>5. CASE UNCHANGED repo
  BY <1>5, SameRecords
<1>6. CASE n \in DOMAIN repo["schedules"] /\ Saved("schedules", n, s)
  <2>1. /\ IsSchedule(s) /\ Head1.fields = Fields \ {"enabled"}
        /\ Head1.sure => s["enabled"] = repo["schedules"][n]["enabled"]
    BY <1>1, <1>3, <1>4, <1>6 DEF FromPage, Renames, Moves, Saves
  <2>2. DOMAIN repo["schedules"][n] = Fields \ {"id"}
    BY <1>1, <1>3, <1>6 DEF Tables, IsRecord, IsSchedule
  <2>3. /\ repo'["schedules"] = With(repo["schedules"], n, s)
        /\ \A d \in Collections \ {"schedules"} : repo'[d] = repo[d]
    BY <1>1, <1>3, <1>6 DEF Saved, Tables
  <2>4. /\ repo'["schedules"][n] = s
        /\ \A x \in DOMAIN repo["schedules"] : x # n => repo'["schedules"][x] = repo["schedules"][x]
    BY <1>6, <2>3 DEF With
  <2>5. \A f \in DOMAIN repo["schedules"][n] \ Head1.fields : f = "enabled"
    BY <2>1, <2>2
  <2>6. QED
    BY <2>1, <2>3, <2>4, <2>5 DEF OneThing
<1>7. QED
  BY <1>4, <1>5, <1>6 DEF UpdateSchedule

(* A switch leaves the rest of the schedule.                               *)
LEMMA SwitchOfSchedule ==
  ASSUME IInv, UpdateEnabled
  PROVE  OneThing
<1>1. /\ queue # <<>> /\ Head1.op = "set_enabled" /\ Head1.on = "schedules"
      /\ "schedules" \in Collections
  BY DEF UpdateEnabled, Runs, Collections
<1>2. ~ Listing(Head1)
  BY <1>1 DEF Listing
<1>3. Stored /\ FromPage(Head1) /\ Tables(repo)
  BY <1>1, <1>2, ServedIs DEF Stored
<1>4. PICK n, on : n = Head1.id /\ on = Head1.data
  OBVIOUS
<1>5. CASE UNCHANGED repo
  BY <1>5, SameRecords
<1>6. CASE n \in DOMAIN repo["schedules"]
  <2> DEFINE sch == repo["schedules"]
  <2>1. PICK new : new = [sch[n] EXCEPT !["enabled"] = on]
    OBVIOUS
  <2>2. repo' = [repo EXCEPT !["schedules"] = [sch EXCEPT ![n] = new]]
    BY <1>4, <1>6, <2>1 DEF UpdateEnabled
  <2>3. Head1.fields = {"enabled"} /\ IsTable(sch)
    BY <1>1, <1>3 DEF FromPage, Renames, Moves, Saves, Tables
  <2>4. /\ repo'["schedules"] = [sch EXCEPT ![n] = new]
        /\ \A d \in Collections \ {"schedules"} : repo'[d] = repo[d]
    BY <1>1, <1>3, <2>2 DEF Tables
  <2>5. /\ repo'["schedules"][n] = new
        /\ \A x \in DOMAIN sch : x # n => repo'["schedules"][x] = sch[x]
    BY <1>6, <2>3, <2>4 DEF IsTable
  <2>6. \A f \in DOMAIN sch[n] : f # "enabled" => new[f] = sch[n][f]
    BY <2>1
  <2>7. QED
    BY <2>3, <2>4, <2>5, <2>6 DEF OneThing
<1>7. QED
  BY <1>4, <1>5, <1>6 DEF UpdateEnabled

(* Nothing else changes a record of an endpoint or of a schedule.          *)
LEMMA OtherSteps ==
  ASSUME IInv, [Next]_vars
  PROVE  OneThing \/ UpdateDevice \/ UpdateSchedule \/ UpdateEnabled
<1>1. Stored /\ Stored' /\ repo = [d \in Collections |-> repo[d]]
  BY StepHolds DEF IInv, Stored, Tables
<1>2. CASE UNCHANGED repo
  BY <1>2, SameRecords
<1>3. ASSUME NEW c \in Collections, NEW n, NEW v, Saved(c, n, v),
             c # "zones" => n \notin DOMAIN repo[c]
      PROVE  OneThing
  <2>1. repo'[c] = With(repo[c], n, v) /\ \A d \in Collections \ {c} : repo'[d] = repo[d]
    BY <1>1, <1>3 DEF Saved
  <2>2. \A id \in DOMAIN repo[c] : id # n => repo'[c][id] = repo[c][id]
    BY <2>1 DEF With
  <2>3. QED
    BY <1>3, <2>1, <2>2, SameRecords
<1>4. ASSUME NEW c \in {"zones", "schedules"}, Create(c)
      PROVE  OneThing
  <2>1. c \in Collections
    BY DEF Collections
  <2>2. CASE UNCHANGED repo
    BY <2>2, SameRecords
  <2>3. CASE made' = [made EXCEPT ![c] = @ + 1] /\ Saved(c, made'[c], Head1.data)
    <3>1. PICK n, v : n = made'[c] /\ v = Head1.data
      OBVIOUS
    <3>2. n \notin DOMAIN repo[c]
      BY <1>1, <2>1, <2>3, <3>1, NextId
    <3>3. QED
      BY <1>3, <2>1, <2>3, <3>1, <3>2
  <2>4. QED
    BY <1>4, <2>2, <2>3 DEF Create
<1>5. CASE UpdateRoom
  <2>1. CASE UNCHANGED repo
    BY <2>1, SameRecords
  <2>2. CASE Saved("zones", Head1.id, Head1.data)
    <3>1. PICK n, v : n = Head1.id /\ v = Head1.data
      OBVIOUS
    <3>2. QED
      BY <1>3, <2>2, <3>1 DEF Collections
  <2>3. QED
    BY <1>5, <2>1, <2>2 DEF UpdateRoom
<1>6. ASSUME NEW c \in Collections, Delete(c)
      PROVE  OneThing
  <2>1. CASE UNCHANGED repo
    BY <2>1, SameRecords
  <2>2. ASSUME NEW n, repo' = [repo EXCEPT ![c] = Without(@, n)]
        PROVE  OneThing
    <3>1. repo'[c] = Without(repo[c], n) /\ \A d \in Collections \ {c} : repo'[d] = repo[d]
      BY <1>1, <2>2
    <3>2. \A id \in DOMAIN repo'[c] : repo'[c][id] = repo[c][id]
      BY <3>1 DEF Without
    <3>3. QED
      BY <3>1, <3>2, SameRecords
  <2>3. QED
    BY <1>6, <2>1, <2>2 DEF Delete
<1>7. CASE Refresh
  <2>1. ASSUME NEW ieee \in Adoptable, NEW name \in Names,
               made' = [made EXCEPT !["endpoints"] = @ + 1],
               Saved("endpoints", made'["endpoints"], [name |-> name, zone |-> pairing, ieee |-> ieee])
        PROVE  OneThing
    <3>1. PICK n, v : n = made'["endpoints"] /\ v = [name |-> name, zone |-> pairing, ieee |-> ieee]
      OBVIOUS
    <3>2. "endpoints" \in Collections
      BY DEF Collections
    <3>3. n \notin DOMAIN repo["endpoints"]
      BY <1>1, <2>1, <3>1, <3>2, NextId
    <3>4. QED
      BY <1>3, <2>1, <3>1, <3>2, <3>3
  <2>2. QED
    BY <1>2, <1>7, <2>1 DEF Refresh
<1>8. CASE Serve
  BY <1>2, <1>4, <1>5, <1>6, <1>8 DEF Serve, List, PermitJoin
<1>9. CASE Tap
  BY <1>2, <1>9 DEF Tap, PageOpen, Back, TextOpen, OpenRoom, CreateRoom, SaveRoomName, DeleteRoom,
     AddDevice, OpenDevice, SaveName, Move, ApplyMove, RemoveDevice, SetEnabled, DeleteSchedule,
     EditSchedule, InWizard, SaveSchedule, Brain
<1>10. QED
  BY <1>2, <1>7, <1>8, <1>9 DEF Next, Join, NetworkCloses, Reboot, vars

(* No step changes more than what its operation is about.                  *)
LEMMA OneThingIs ==
  ASSUME IInv, [Next]_vars
  PROVE  OneThing
BY OtherSteps, RenameOrMove, EditOfSchedule, SwitchOfSchedule

(* Outside doubt what the screens show is what the brain holds, once the   *)
(* taps are served: what a tap puts into the store before the answer       *)
(* (store.replace, store.update and store.remove in the screens) is what   *)
(* the operation of the Api then does.                                     *)
THEOREM ScreenIsCurrent == Spec => []StoreIsCurrent
BY PanelInductive, CurrentIs, PTL

(* The wizard closes before it is answered, so what its steps let through  *)
(* (schedule_add.py) passes validate_schedule, a far offset apart.         *)
THEOREM WizardIsValid == Spec => []WizardSavesValid
BY PanelInductive, SavesValidIs, PTL

(* What _try_autopair makes of a radio that joined is its one endpoint.    *)
THEOREM RadioPairedOnce == Spec => []PairedOnce
<1>1. IInv => PairedOnce
  BY DEF IInv, Stored
<1>2. QED
  BY <1>1, PanelInductive, PTL

(* The on_ok of a delete leaves the page of what is gone, so the pages of  *)
(* a room and of a device act on a record that exists.                     *)
THEOREM PageIsAlive == Spec => []PageHasItsRecord
BY PanelInductive, PageIs, PTL

(* The Api replaces records whole, from the copy that a page or a draft    *)
(* holds; yet one edit changes the fields that it is about.                *)
THEOREM EditChangesOneThing == Spec => OneThingPerEdit
<1>1. IInv /\ [Next]_vars => [OneThing]_vars
  BY OneThingIs
<1>2. Spec => [][OneThing]_vars
  BY <1>1, PanelInductive, PTL DEF Spec
<1>3. QED
  BY <1>2 DEF OneThing, OneThingPerEdit
=============================================================================
