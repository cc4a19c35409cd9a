------------------------------- MODULE Catalog -------------------------------
(***************************************************************************)
(* The stored configuration of a hub or panel: the entity collections of   *)
(* JsonRepository, SettingsStore and the gateway's registry file, changed  *)
(* by the operations of Api through CrudService, read back and migrated at *)
(* every start, with OSErrors and power cuts at every step.                *)
(*                                                                         *)
(* A call of Api is synchronous, so each is one action that ends well,     *)
(* raises, or is cut off.  Ids are never reused (four random bytes).       *)
(***************************************************************************)
EXTENDS Naturals, FiniteSets, Sequences, AtomicFile

CONSTANTS
  Types,        \* entity collections with instances here, in load order
  Ids,
  TypeOf,       \* TypeOf[i]: the collection of id i
  Bodies,       \* Bodies[i]: the records a client may write for id i
  Devices,      \* ieee addresses
  None,
  Cities,       \* packaged cities
  DefaultCity,  \* SETTINGS_DEFAULTS
  Own,          \* a place that is no packaged city
  Requests,     \* the patches settings.update may be sent
  Shipped,      \* the files a device may start its life with
  MaxCalls, MaxCuts, MaxErrors, MaxMisreads   \* bounds

(* Which collections _check_not_referenced searches.                       *)
Referrers == [zones |-> {"endpoints"}, endpoints |-> {"groups", "schedules"},
              groups |-> {"schedules"}, schedules |-> {}]

Collections == {Types[k] : k \in DOMAIN Types}
Cells == Collections \cup {"settings"}
Entity == [id : Ids, refs : SUBSET Ids, dev : Devices \cup {None},
           mark : {"on", "off", "retired"}]
Unset == "unset"
(* The elevation of a city is named after it; one a client sets is "set".  *)
Elevations == Cities \cup {"sea", "set"}
Settings == [place : Cities \cup {Own, Unset}, elev : Elevations \cup {Unset}]
ContentOf(c) == IF c = "settings" THEN Settings ELSE SUBSET Entity
(* get(): what is stored, over the defaults.                               *)
Effective(s) ==
  [place |-> IF s.place = Unset THEN DefaultCity ELSE s.place,
   elev  |-> IF s.elev = Unset THEN DefaultCity ELSE s.elev]
(* The elevation is that of the city, or one a client set.                 *)
Located(s) ==
  LET e == Effective(s) IN e.place \in Cities => e.elev \in {e.place, "set"}

Empty(c) == IF c = "settings" THEN [place |-> Unset, elev |-> Unset] ELSE {}

(* refs holds what the fields say that a deletion searches: zone_id of an  *)
(* endpoint, member_ids of a group, target_id of a schedule.               *)
Refers(c, e) == \A i \in e.refs : c \in Referrers[TypeOf[i]]

ASSUME CatalogAssumption ==
  /\ Types \in Seq(DOMAIN Referrers)
  /\ TypeOf \in [Ids -> Collections]
  /\ \A i \in Ids : Bodies[i] \subseteq {e \in Entity : e.id = i /\ Refers(TypeOf[i], e)}
  /\ DefaultCity \in Cities /\ {"sea", "set", None} \cap Cities = {}
  /\ Own \notin Cities /\ Unset \notin Cities \cup {Own}
  /\ \A s \in Shipped, c \in Cells :
       s[c] = Absent \/ (s[c].content \in ContentOf(c) /\ s[c] = Whole(s[c].content))

(* settings.update may name a packaged city, coordinates of its own, an    *)
(* elevation of its own, or none of them.                                  *)
ASSUME RequestAssumption ==
  Requests \subseteq
    [city : Cities \cup {None}, coordinates : BOOLEAN, elevation : BOOLEAN]

(* What older releases wrote: references as they are today, and settings   *)
(* without an elevation, with that of the city or with one a client set.   *)
ASSUME ShippedAssumption ==
  \A s \in Shipped, c \in Cells :
    s[c] = Absent \/
      IF c = "settings"
      THEN s[c].content.elev # Unset => Located(s[c].content)
      ELSE \A e \in s[c].content : Refers(c, e)

VARIABLES
  file,      \* file[c]: its names on the medium
  regfile,   \* the registry file
  mem,       \* mem[c]: the collection in memory, and SettingsStore._stored
  registry,  \* ZigbeeGateway._registry
  power,     \* "off", "starting" or "up"
  todo,      \* steps of the start still to come
  calls, cuts, errors, misreads,   \* bound counters
  (* history *)
  tried,     \* changes attempted since the last acknowledged one or start
  used,      \* ids given out
  gone,      \* ids deleted while memory and medium agreed, not misread since
  told       \* devices told to leave the mesh

disk == <<file, regfile>>
counters == <<calls, cuts, errors, misreads>>
history == <<tried, used, gone, told>>
vars == <<disk, mem, registry, power, todo, counters, history>>

-----------------------------------------------------------------------------
(* Contents                                                                *)

RefsOf(v) == UNION {e.refs : e \in v}
Live(v) == {e \in v : e.mark # "retired"}
(* _drop_retired: a retired schedule is held out of the loaded collection. *)
Kept(c, v) == IF c = "schedules" THEN Live(v) ELSE v
(* What a start may find after a failed write besides old and new content: *)
(* the registry is rewritten in place, and SettingsStore falls back to the *)
(* defaults when it cannot move its backup into place.                     *)
Wreck(c) ==
  CASE c = "registry" -> {{}}
    [] c = "settings" -> {Empty(c)}
    [] OTHER -> {}
(* upsert, in memory order aside.                                          *)
With(v, e) == {x \in v : x.id # e.id} \cup {e}
Without(v, i) == {x \in v : x.id # i}
Has(v, i) == \E x \in v : x.id = i
Find(v, i) == CHOOSE x \in v : x.id = i

ElevationAt(p) == IF p \in Cities THEN p ELSE "sea"

(* backfill_missing_elevation.                                             *)
LacksElevation(s) == s.elev = Unset
Backfilled(s) == LET e == Effective(s) IN [e EXCEPT !.elev = ElevationAt(e.place)]
(* _with_city_geography: with a city go its coordinates and its elevation, *)
(* unless the request has its own; bare coordinates take no elevation.     *)
Relocated(s, r) ==
  LET e == Effective(s)
  IN [place |-> IF r.coordinates THEN Own ELSE IF r.city # None THEN r.city ELSE e.place,
      elev  |-> IF r.elevation THEN "set" ELSE IF r.city # None THEN r.city ELSE e.elev]

-----------------------------------------------------------------------------
(* Saving a cell: it ends well, raises, or is cut off.                     *)

Ready ==
  power = "up" /\ calls < MaxCalls /\ calls' = calls + 1 /\ UNCHANGED misreads

Ends(c, v) ==
  /\ file' = [file EXCEPT ![c] = Saved(@, v)]
  /\ mem' = [mem EXCEPT ![c] = v]
  /\ tried' = [tried EXCEPT ![c] = {}]

(* Mutant of Raises: memory is changed before the files are.               *)
RaisesInMemory(c, v) ==
  /\ errors < MaxErrors /\ errors' = errors + 1
  /\ \E f \in Refused(file[c], v) : file' = [file EXCEPT ![c] = f]
  /\ mem' = [mem EXCEPT ![c] = v]
  /\ tried' = [tried EXCEPT ![c] = @ \cup {v} \cup Wreck(c)]
  /\ UNCHANGED cuts

Raises(c, v) ==
  /\ errors < MaxErrors /\ errors' = errors + 1
  /\ \E f \in Refused(file[c], v) : file' = [file EXCEPT ![c] = f]
  /\ tried' = [tried EXCEPT ![c] = @ \cup {v} \cup Wreck(c)]
  /\ UNCHANGED <<mem, cuts>>

IsCutOff(c, v) ==
  /\ cuts < MaxCuts /\ cuts' = cuts + 1
  /\ \E f \in Interrupted(file[c], v) : file' = [file EXCEPT ![c] = f]
  /\ tried' = [tried EXCEPT ![c] = @ \cup {v} \cup Wreck(c)]
  /\ power' = "off" /\ todo' = <<>>
  /\ UNCHANGED <<mem, errors>>

Stays == UNCHANGED <<power, todo>>

(* A save by a call that touches nothing else.                             *)
Save(c, v) ==
  /\ \/ Ends(c, v) /\ Stays /\ UNCHANGED <<cuts, errors>>
     \/ Raises(c, v) /\ Stays
     \/ IsCutOff(c, v)
  /\ UNCHANGED <<regfile, registry, told>>

(* The registry is rewritten in place; a failure is only logged.           *)
SavesRegistry ==
  \/ regfile' = Whole(registry') /\ Stays /\ UNCHANGED <<cuts, errors>>
  \/ /\ errors < MaxErrors /\ errors' = errors + 1
     /\ regfile' \in {regfile, Torn}
     /\ Stays /\ UNCHANGED cuts
  \/ /\ cuts < MaxCuts /\ cuts' = cuts + 1
     /\ regfile' \in {regfile, Torn, Whole(registry')}
     /\ power' = "off" /\ todo' = <<>> /\ UNCHANGED errors

RegistryDoubt ==
  tried' = [tried EXCEPT !["registry"] =
              IF regfile' = Whole(registry') /\ power' = "up" THEN {} ELSE @ \cup {registry} \cup Wreck("registry")]

-----------------------------------------------------------------------------
(* Operations of Api                                                       *)

Write(e) ==
  LET c == TypeOf[e.id]
  IN /\ Save(c, With(mem[c], e))
     /\ gone' = gone \ e.refs

(* validate_entity refuses a zman the product no longer computes.          *)
Valid(e) == e.mark # "retired"

Create(e) ==
  /\ Ready
  /\ e.id \notin used /\ Valid(e)
  /\ used' = used \cup {e.id}
  /\ Write(e)

Update(e) ==
  /\ Ready
  /\ Has(mem[TypeOf[e.id]], e.id) /\ Valid(e)
  /\ Write(e)
  /\ UNCHANGED used

(* schedules.set_enabled: read, change the flag, write back.               *)
SetEnabled(i, mark) ==
  /\ Ready
  /\ TypeOf[i] = "schedules" /\ Has(mem["schedules"], i)
  /\ Write([Find(mem["schedules"], i) EXCEPT !.mark = mark])
  /\ UNCHANGED used

(* Mutant: only schedules are searched.                                    *)
ReferencedBySchedule(i) ==
  "schedules" \in Collections /\ \E e \in mem["schedules"] : i \in e.refs

(* _check_not_referenced.                                                  *)
Referenced(i) ==
  \E c \in Referrers[TypeOf[i]] \cap Collections : \E e \in mem[c] : i \in e.refs
(* Mutant: without the reference check.                                    *)
ReleasableAlways(d, endpoints) == d # None

(* _release_radio_device: another endpoint may still use the device.       *)
Releasable(d, endpoints) == d # None /\ \A e \in endpoints : e.dev # d
Deletable(i) == Has(mem[TypeOf[i]], i) /\ ~ Referenced(i)

(* delete: the collection, then for the last endpoint of a device the      *)
(* registry and the mesh; a failure of the latter two is swallowed.        *)
Delete(i) ==
  LET c == TypeOf[i]
      v == Without(mem[c], i)
      d == Find(mem[c], i).dev
      frees == c = "endpoints" /\ Releasable(d, v)
  IN /\ Ready /\ Deletable(i)
     /\ \/ /\ ~ frees
           /\ Save(c, v)
           /\ gone' = IF mem' = mem \/ \E b \in Cells : tried[b] # {} THEN gone
                      ELSE gone \cup {i}
        \/ /\ frees
           /\ (Raises(c, v) /\ Stays) \/ IsCutOff(c, v)
           /\ UNCHANGED <<regfile, registry, told, gone>>
        \/ /\ frees
           /\ file' = [file EXCEPT ![c] = Saved(@, v)]
           /\ mem' = [mem EXCEPT ![c] = v]
           /\ registry' = registry \ {d}
           /\ SavesRegistry
           /\ tried' = [tried EXCEPT ![c] = {}, !["registry"] =
                          IF regfile' = Whole(registry') /\ power' = "up" THEN {}
                          ELSE @ \cup {registry} \cup Wreck("registry")]
           /\ told' \in {told} \cup IF power' = "up" THEN {told \cup ({d} \cap registry)} ELSE {}
           /\ gone' = IF \E b \in Cells : tried[b] # {} THEN gone ELSE gone \cup {i}
     /\ UNCHANGED used

UpdateSettings(r) ==
  /\ Ready
  /\ Save("settings", Relocated(mem["settings"], r))
  /\ UNCHANGED <<used, gone>>

(* _on_device_joined.                                                      *)
Join(d) ==
  /\ Ready
  /\ d \notin registry
  /\ registry' = registry \cup {d}
  /\ SavesRegistry /\ RegistryDoubt
  /\ UNCHANGED <<file, mem, used, gone, told>>

-----------------------------------------------------------------------------
(* Start                                                                   *)

PowerOn ==
  /\ power = "off"
  /\ power' = "starting"
  /\ todo' = Types \o <<"registry", "settings", "purge", "backfill">>
  /\ UNCHANGED <<disk, mem, registry, counters, history>>

At(step) == power = "starting" /\ step = Head(todo)
Advances ==
  /\ todo' = Tail(todo)
  /\ power' = IF Len(todo) = 1 THEN "up" ELSE "starting"

Loaded(c, v, f) ==
  /\ Advances
  /\ mem' = [mem EXCEPT ![c] = Kept(c, v)]
  /\ file' = [file EXCEPT ![c] = f]

(* SettingsStore falls back to the defaults; RepositoryCorruptionError ends *)
(* main(), which resets the machine.                                       *)
Resets == power' = "off" /\ todo' = <<>>
FailsToLoad(c, f) ==
  \/ /\ c = "settings" /\ Loaded(c, Empty(c), f)
     /\ tried' = [tried EXCEPT ![c] = @ \cup {mem[c]}]
  \/ /\ c # "settings" /\ Resets
     /\ file' = [file EXCEPT ![c] = f]
     /\ UNCHANGED <<mem, tried>>

LoadCleanly(c) ==
  /\ \/ /\ \/ file[c] = Only(Absent) /\ Loaded(c, Empty(c), file[c])
           \/ \E n \in Names :
                /\ IsFirst(file[c], n)
                /\ Loaded(c, file[c][n].content, Adopted(file[c], n))
        /\ tried' = [tried EXCEPT ![c] = {}]
     \/ file[c] # Only(Absent) /\ Unreadable(file[c]) /\ FailsToLoad(c, file[c])
  /\ UNCHANGED errors

(* Moving a recovered file into place fails, before or after it happened:  *)
(* after .tmp, .bak is tried.                                              *)
LoadWithError(c) ==
  /\ errors < MaxErrors /\ errors' = errors + 1
  /\ IsFirst(file[c], "tmp") \/ IsFirst(file[c], "bak")
  /\ \E f \in Adoptions(file[c]) :
       \/ /\ IsFirst(file[c], "tmp") /\ Readable(f.bak)
          /\ Loaded(c, f.bak.content, Adopted(f, "bak"))
          /\ tried' = [tried EXCEPT ![c] = {}]
       \/ \E g \in {f} \cup IF Readable(f.bak) THEN {Adopted(f, "bak")} ELSE {} :
            FailsToLoad(c, g)

(* A name that is whole cannot be read (OSError): the next readable one is *)
(* moved over it and taken, though it may be older.  When none can be, or  *)
(* the power fails on the way, a later start may find any of them.         *)
GivesUp(c, f) ==
  LET found == Wholes(file[c])
  IN \/ /\ c = "settings" /\ Loaded(c, Empty(c), f)
        /\ tried' = [tried EXCEPT ![c] = @ \cup {mem[c]} \cup found]
     \/ /\ Resets /\ file' = [file EXCEPT ![c] = f]
        /\ tried' = [tried EXCEPT ![c] = @ \cup {mem[c]} \cup found]
        /\ UNCHANGED mem

LoadMisread(c) ==
  /\ misreads < MaxMisreads /\ misreads' = misreads + 1
  /\ ~ Unreadable(file[c])
  /\ \/ /\ \E n \in {"tmp", "bak"} : \E f \in Passed(file[c], n) :
             /\ Readable(f[n]) /\ ~ IsFirst(file[c], n)
             /\ Loaded(c, f[n].content, Adopted(f, n))
        /\ tried' = [tried EXCEPT ![c] = {}]
     \/ \E f \in Misplaced(file[c]) : GivesUp(c, f)
  /\ gone' = gone \ IF c \in Collections THEN RefsOf(UNION Wholes(file[c])) ELSE {}
  /\ UNCHANGED errors

Load(c) ==
  /\ At(c)
  /\ \/ (LoadCleanly(c) \/ LoadWithError(c)) /\ UNCHANGED <<misreads, gone>>
     \/ LoadMisread(c)
  /\ UNCHANGED <<regfile, registry, calls, cuts, used, told>>

(* _load_registry: what cannot be read is taken for empty.                 *)
LoadRegistry ==
  /\ At("registry") /\ Advances
  /\ \/ /\ registry' = IF Readable(regfile) THEN regfile.content ELSE {}
        /\ tried' = [tried EXCEPT !["registry"] = {}]
        /\ UNCHANGED misreads
     \/ /\ misreads < MaxMisreads /\ misreads' = misreads + 1
        /\ registry' = {}
        /\ tried' = [tried EXCEPT !["registry"] = @ \cup {registry}]
  /\ UNCHANGED <<disk, mem, calls, cuts, errors, used, gone, told>>

(* A migration that saves: an OSError ends the start.                      *)
Repair(c, v) ==
  /\ \/ Ends(c, v) /\ Advances /\ UNCHANGED <<cuts, errors>>
     \/ Raises(c, v) /\ Resets
     \/ IsCutOff(c, v)

(* purge_retired_zman_schedules: only when the load dropped something.     *)
Dropped(x) == Readable(x) /\ Live(x.content) # x.content
Purge ==
  /\ At("purge")
  /\ IF "schedules" \in Collections /\ Dropped(file["schedules"].pri)
     THEN Repair("schedules", mem["schedules"])
     ELSE Advances /\ UNCHANGED <<file, mem, tried, cuts, errors>>
  /\ UNCHANGED <<regfile, registry, calls, misreads, used, gone, told>>

Backfill ==
  /\ At("backfill")
  /\ IF LacksElevation(mem["settings"])
     THEN Repair("settings", Backfilled(mem["settings"]))
     ELSE Advances /\ UNCHANGED <<file, mem, tried, cuts, errors>>
  /\ UNCHANGED <<regfile, registry, calls, misreads, used, gone, told>>

(* A power cut between two calls or two steps of the start.                *)
PowerCut ==
  /\ power # "off" /\ cuts < MaxCuts
  /\ cuts' = cuts + 1
  /\ power' = "off" /\ todo' = <<>>
  /\ UNCHANGED <<disk, mem, registry, calls, errors, misreads, history>>

-----------------------------------------------------------------------------
(* Specification                                                           *)

Init ==
  /\ \E s \in Shipped :
       /\ file = [c \in Cells |-> Only(s[c])]
       /\ mem = [c \in Cells |-> IF s[c] = Absent THEN Empty(c) ELSE s[c].content]
  /\ regfile = Absent /\ registry = {}
  /\ power = "off" /\ todo = <<>>
  /\ calls = 0 /\ cuts = 0 /\ errors = 0 /\ misreads = 0
  /\ tried = [c \in Cells \cup {"registry"} |-> {}]
  /\ used = UNION {{e.id : e \in mem[c]} : c \in Collections}
  /\ gone = {} /\ told = {}

Operation ==
  \/ \E i \in Ids : \E e \in Bodies[i] : Create(e) \/ Update(e)
  \/ \E i \in Ids : SetEnabled(i, "on") \/ SetEnabled(i, "off") \/ Delete(i)
  \/ \E r \in Requests : UpdateSettings(r)
  \/ \E d \in Devices : Join(d)

StartStep == (\E c \in Cells : Load(c)) \/ LoadRegistry \/ Purge \/ Backfill

Next == Operation \/ PowerOn \/ StartStep \/ PowerCut

(* Power returns, and the start runs on.                                   *)
Spec == Init /\ [][Next]_vars /\ WF_vars(PowerOn) /\ WF_vars(StartStep)

-----------------------------------------------------------------------------
(* Properties                                                              *)

IsFile(c, f) ==
  /\ f = [pri |-> f.pri, tmp |-> f.tmp, bak |-> f.bak]
  /\ \A n \in Names : \/ f[n] \in {Absent, Torn}
                      \/ f[n] = Whole(f[n].content) /\ f[n].content \in ContentOf(c)
TypeOK ==
  /\ DOMAIN file = Cells
  /\ \A c \in Cells : IsFile(c, file[c])
  /\ \A c \in Cells : mem[c] \in ContentOf(c)
  /\ registry \subseteq Devices
  /\ regfile \in {Absent, Torn} \cup {Whole(r) : r \in SUBSET Devices}
  /\ power \in {"off", "starting", "up"}
  /\ (power = "starting") = (todo # <<>>)

(* Each collection, the settings and the registry file keep the promise of *)
(* DurableStore: what was acknowledged survives any errors and power cuts,  *)
(* and what failed comes back whole or not at all, although memory and     *)
(* medium disagree after a failed sync (json_repository.py:190).  The      *)
(* registry may come back empty after a failed write, the settings as the  *)
(* defaults; a start that cannot read a file that is whole may take an     *)
(* older content another of its names still holds.                         *)
Store == INSTANCE DurableStore WITH
  Cells <- Cells \cup {"registry"},
  shown <- [c \in Cells \cup {"registry"} |->
              IF c = "registry" THEN registry ELSE mem[c]],
  maybe <- tried,
  open  <- {c \in Cells \cup {"registry"} :
              power # "off" /\ \A k \in DOMAIN todo : todo[k] # c},
  left  <- [c \in Cells \cup {"registry"} |->
              IF c # "registry" THEN Wholes(file[c])
              ELSE IF Readable(regfile) THEN {regfile.content} ELSE {}]
Durable == Store!Spec

(* After every power cut the device starts again (_atomic_io.py:5): no     *)
(* state of the medium ends every start in RepositoryCorruptionError,      *)
(* except the fragment a first save leaves of a collection that was empty. *)
FirstSaveTorn ==
  \E c \in Collections :
    Unreadable(file[c]) /\ file[c] # Only(Absent) /\ mem[c] = {}
StartsAgain == (power = "off") ~> (power = "up" \/ FirstSaveTorn)

(* A device is told to leave the mesh only when no endpoint uses it, in    *)
(* memory or in the file a restart would read.                             *)
Found(f) == IF Unreadable(f) THEN {} ELSE f[CHOOSE n \in Names : IsFirst(f, n)].content
LeavesUnused ==
  \A d \in told' \ told :
    \A e \in mem'["endpoints"] \cup Found(file'["endpoints"]) : e.dev # d
ReleasedOnlyUnused == [][LeavesUnused]_vars

(* The deletion of something in use is refused (CrudService.delete): no    *)
(* entity refers to a deleted one, whatever restarts bring back, until a   *)
(* client writes that reference again or a start cannot read the file and  *)
(* takes an older one that has it.                                         *)
GoneStaysUnused ==
  \A c \in Collections : \A e \in mem[c] : e.refs \cap gone = {}

(* Before anything reads them, old contents are repaired (apply_all): the  *)
(* elevation is that of the city, and no schedule names a retired zman.    *)
Repaired ==
  /\ Located(mem["settings"])
  /\ "schedules" \in Collections =>
       \A e \in mem["schedules"] \cup Found(file["schedules"]) : e.mark # "retired"

(* What is up works on sound contents: nothing refers to what was deleted, *)
(* and what older releases wrote was repaired before anything could read   *)
(* it, also by a start that was cut off and begun again.                   *)
SoundOnceUp == power = "up" => GoneStaysUnused /\ Repaired
=============================================================================
