------------------------------ MODULE Automation ------------------------------
(***************************************************************************)
(* The automation pipeline of the brain: Scheduler -> Planner ->           *)
(* RecoveryService -> Executor -> gateway -> event journal, together with  *)
(* the manual taps (ControlService) that share the Executor and its        *)
(* journal, the settable clock, schedule edits and power cuts.             *)
(*                                                                         *)
(* An element of Events is one dated occurrence the planner can produce    *)
(* (schedule id + date + minute, i.e. one event_id); an element of Taps is *)
(* one manual command (a fresh "ctrl_" id).  Minutes are UTC minutes; a    *)
(* clock below MinValid is one that was never set.  The journal is its     *)
(* durable content here; module EventJournal opens it up.                  *)
(***************************************************************************)
EXTENDS Integers, Sequences, FiniteSets, Functions

CONSTANTS
  Events,       \* dated schedule occurrences (event ids)
  Taps,         \* manual commands (event ids)
  Due,          \* Due[e]: the UTC minute of event e
  MinValid,     \* first minute of MIN_VALID_YEAR
  CatchUp,      \* CATCH_UP_MINUTES
  MaxRecords,   \* journal capacity
  MaxAttempts,  \* Executor.max_attempts
  DeliveryAck,  \* does the coordinator prove delivery (ACK ladder)?
  Horizon,      \* bound: the last minute of the behaviour
  MaxFaults     \* bound: crashes, clock settings and edits of schedules

Ids == Events \cup Taps
Minutes == 0 .. Horizon
None == -1

ASSUME DisjointIds == Events \cap Taps = {}
ASSUME FiniteIds == IsFiniteSet(Ids)
ASSUME DueAssumption == Due \in [Events -> 1 .. Horizon]
ASSUME BoundsAssumption ==
  /\ MinValid \in Nat /\ MinValid > 0
  /\ CatchUp \in Nat \ {0}
  /\ MaxRecords \in Nat \ {0}
  /\ MaxAttempts \in Nat \ {0}
  /\ DeliveryAck \in BOOLEAN
  /\ Horizon \in Nat
  /\ MaxFaults \in Nat

VARIABLES
  now,         \* the RTC, in minutes
  enabled,     \* events of the schedules that are stored and enabled
  journal,     \* Seq(Ids): the newest MaxRecords executed ids, oldest first
  last,        \* Scheduler._last (None after boot)
  anchor,      \* `now` as the running tick read it, None between ticks
  todo,        \* events of the tick still to execute (earliest first)
  unfinished,  \* events of the tick whose outcome was not journaled
  attempt,     \* attempt[id]: running attempt of execute(id), 0 = no call
  sent,        \* ids of which a frame may be under way on the wire or the radio
  acted,       \* ids whose device has acted on a frame
  tapped,      \* manual commands already issued
  faults,      \* bound counter
  (* history: observed by the properties, read by no action's guard *)
  done,        \* ids whose success was ever journaled
  newer,       \* newer[id]: other ids journaled since id last was
  reach,       \* highest minute a tick has planned up to
  late         \* events (re)enabled after their minute left the window

tickVars  == <<last, anchor, todo, unfinished>>
callVars  == <<attempt, sent, acted>>
history   == <<done, newer, reach, late>>
vars == <<now, enabled, journal, tickVars, callVars, tapped, faults, history>>

-----------------------------------------------------------------------------
Larger(a, b)  == IF a >= b THEN a ELSE b
Smaller(a, b) == IF a <= b THEN a ELSE b

(* The ids the journal knows: JsonEventJournal._by_id.                      *)
Journaled == Range(journal)

(* JsonEventJournal._records_with: drop an older record of the same id,    *)
(* append, keep the newest MaxRecords.                                     *)
Without(s, id) ==
  IF id \in Range(s)
  THEN LET k == CHOOSE i \in DOMAIN s : s[i] = id
       IN  SubSeq(s, 1, k - 1) \o SubSeq(s, k + 1, Len(s))
  ELSE s

(* Mutants of Remember: one record short, and no limit at all.             *)
RememberFewer(s, id) ==
  LET longer == Append(Without(s, id), id)
  IN  IF Len(longer) >= MaxRecords
      THEN SubSeq(longer, Len(longer) - MaxRecords + 2, Len(longer))
      ELSE longer

RememberAll(s, id) == Append(Without(s, id), id)

Remember(s, id) ==
  LET longer == Append(Without(s, id), id)
  IN  IF Len(longer) > MaxRecords
      THEN SubSeq(longer, Len(longer) - MaxRecords + 1, Len(longer))
      ELSE longer

(* plan_window: where the window of a tick at minute m starts, exclusive.  *)
HasWindow(m) == last = None \/ last < m

WindowStart(m) ==
  IF last = None THEN m - CatchUp ELSE Larger(last, m - CatchUp)

(* Planner.events_between over the stored, enabled schedules.              *)
EventsBetween(start, end) ==
  {e \in enabled : start < Due[e] /\ Due[e] <= end}

(* Mutants of AdvanceTo: never rewind, and rewind onto the event's minute  *)
(* (the window is exclusive at its start).                                 *)
AdvanceToAlways(m, pending) == m

AdvanceToEarliest(m, pending) ==
  IF pending = {} THEN m
  ELSE Smaller(CHOOSE d \in {Due[e] : e \in pending} :
                 \A f \in pending : d <= Due[f], m)

(* Scheduler._advance_to: past what got through, else just before the      *)
(* earliest unfinished event.                                              *)
AdvanceTo(m, pending) ==
  IF pending = {} THEN m
  ELSE LET retryFrom == (CHOOSE d \in {Due[e] : e \in pending} :
                           \A f \in pending : d <= Due[f]) - 1
       IN  Smaller(retryFrom, m)

Ticking == anchor # None
Executing == {e \in Events : attempt[e] > 0}

-----------------------------------------------------------------------------
Init ==
  /\ now \in {0, MinValid} \cap Minutes
  /\ enabled \in SUBSET Events
  /\ journal = <<>>
  /\ last = None /\ anchor = None /\ todo = {} /\ unfinished = {}
  /\ attempt = [id \in Ids |-> 0] /\ sent = {} /\ acted = {}
  /\ tapped = {} /\ faults = 0
  /\ done = {} /\ newer = [id \in Ids |-> {}]
  /\ reach = 0 /\ late = {}

-----------------------------------------------------------------------------
(* The clock.                                                              *)
Minute ==
  /\ now < Horizon
  /\ now' = now + 1
  /\ UNCHANGED <<enabled, journal, tickVars, callVars, tapped, faults, history>>

(* time.set accepts only years of the valid range, in either direction.    *)
SetClock(m) ==
  /\ faults < MaxFaults /\ faults' = faults + 1
  /\ m >= MinValid
  /\ now' = m
  /\ UNCHANGED <<enabled, journal, tickVars, callVars, tapped, history>>

(* Schedule edits (CRUD, set_enabled, a settings change that moves a zman).*)
Enable(e) ==
  /\ faults < MaxFaults /\ faults' = faults + 1
  /\ e \notin enabled
  /\ enabled' = enabled \cup {e}
  /\ late' = IF Due[e] <= Larger(last, anchor) THEN late \cup {e} ELSE late
  /\ UNCHANGED <<now, journal, tickVars, callVars, tapped, done, newer, reach>>

Disable(e) ==
  /\ faults < MaxFaults /\ faults' = faults + 1
  /\ e \in enabled
  /\ enabled' = enabled \ {e}
  /\ UNCHANGED <<now, journal, tickVars, callVars, tapped, history>>

-----------------------------------------------------------------------------
(* Scheduler.tick                                                          *)

(* No new minute, or the clock moved back: re-anchor.                      *)
TickReanchor ==
  /\ ~ Ticking
  /\ now >= MinValid
  /\ ~ HasWindow(now)
  /\ last' = now
  /\ UNCHANGED <<now, enabled, journal, anchor, todo, unfinished, callVars,
                 tapped, faults, history>>

TickStart ==
  /\ ~ Ticking
  /\ now >= MinValid
  /\ HasWindow(now)
  /\ anchor' = now
  /\ todo' = EventsBetween(WindowStart(now), now)
  /\ unfinished' = {}
  /\ reach' = Larger(reach, now)
  /\ UNCHANGED <<now, enabled, journal, last, callVars, tapped, faults,
                 done, newer, late>>

(* execute_many walks the list sorted by minute; ties (broken by event_id  *)
(* in the code) may go either way.                                         *)
IsNext(e) ==
  /\ Executing = {}
  /\ e \in todo
  /\ \A f \in todo : Due[e] <= Due[f]

(* Executor.execute, journal.was_executed: "already_executed".             *)
SkipExecuted(e) ==
  /\ IsNext(e)
  /\ e \in Journaled
  /\ todo' = todo \ {e}
  /\ UNCHANGED <<now, enabled, journal, last, anchor, unfinished, callVars,
                 tapped, faults, history>>

(* Executor.execute, first gateway.send of the call.                       *)
SendFirst(id) ==
  /\ id \notin Journaled
  /\ attempt' = [attempt EXCEPT ![id] = 1]
  /\ sent' = sent \cup {id}
  /\ UNCHANGED acted

ExecuteEvent(e) ==
  /\ IsNext(e)
  /\ SendFirst(e)
  /\ UNCHANGED <<now, enabled, journal, tickVars, tapped, faults, history>>

TickEnd ==
  /\ Ticking
  /\ todo = {}
  /\ last' = AdvanceTo(anchor, unfinished)
  /\ anchor' = None
  /\ unfinished' = {}
  /\ UNCHANGED <<now, enabled, journal, todo, callVars, tapped, faults, history>>

(* ControlService.send: a manual command under a fresh event_id.           *)
Tap(t) ==
  /\ t \notin tapped
  /\ tapped' = tapped \cup {t}
  /\ SendFirst(t)
  /\ UNCHANGED <<now, enabled, journal, tickVars, faults, history>>

-----------------------------------------------------------------------------
(* One gateway.send of a call of execute(id).                              *)

(* The device acts on a frame, at once or when the call has timed out, was *)
(* given up or was forgotten by a reboot of the hub: nobody takes a frame  *)
(* back.  That one is lost is this step not taken.                         *)
DeviceActs(id) ==
  /\ id \in sent
  /\ acted' = acted \cup {id}
  /\ UNCHANGED <<now, enabled, journal, tickVars, attempt, sent, tapped, faults,
                 history>>

(* Mutant of SuccessReported: a frame that was taken counts as delivered.  *)
SuccessOnceSent(id) == attempt[id] > 0

(* May gateway.send report a status of EXECUTION_SUCCESS_STATUSES?  With   *)
(* the ACK ladder only once the device confirmed a frame of this id (the   *)
(* rid is the event_id, so an ACK of an earlier attempt counts, and so     *)
(* does a late one of an earlier call); without it as soon as the          *)
(* coordinator took the frame.                                             *)
SuccessReported(id) ==
  /\ attempt[id] > 0
  /\ DeliveryAck => id \in acted

(* Mutant of Return: what failed stays on the list of the tick.            *)
ReturnRequeued(id, journaled) ==
  /\ attempt' = [attempt EXCEPT ![id] = 0]
  /\ UNCHANGED <<sent, acted>>
  /\ todo' = IF journaled THEN todo \ {id} ELSE todo
  /\ unfinished' = unfinished

(* The call returns: an event leaves the list of the tick.                 *)
Return(id, journaled) ==
  /\ attempt' = [attempt EXCEPT ![id] = 0]
  /\ UNCHANGED <<sent, acted>>
  /\ todo' = todo \ {id}
  /\ unfinished' = IF id \in Events /\ ~ journaled
                   THEN unfinished \cup {id} ELSE unfinished

(* "executed": success reported and journaled.                             *)
Executed(id) ==
  /\ SuccessReported(id)
  /\ Return(id, TRUE)
  /\ journal' = Remember(journal, id)
  /\ done' = done \cup {id}
  /\ newer' = [i \in Ids |-> IF i = id THEN {} ELSE newer[i] \cup {id}]
  /\ UNCHANGED <<now, enabled, last, anchor, tapped, faults, reach, late>>

(* "ack_unjournaled": success reported, journal.record raised.             *)
AckUnjournaled(id) ==
  /\ SuccessReported(id)
  /\ Return(id, FALSE)
  /\ UNCHANGED <<now, enabled, journal, last, anchor, tapped, faults, history>>

(* Timeout, error, or a status that is no proof of execution: try again.   *)
Retry(id) ==
  /\ attempt[id] \in 1 .. MaxAttempts - 1
  /\ attempt' = [attempt EXCEPT ![id] = @ + 1]
  /\ UNCHANGED <<now, enabled, journal, tickVars, sent, acted, tapped, faults,
                 history>>

(* "failed": the last attempt was not successful either.                   *)
GiveUp(id) ==
  /\ attempt[id] = MaxAttempts
  /\ Return(id, FALSE)
  /\ UNCHANGED <<now, enabled, journal, last, anchor, tapped, faults, history>>

-----------------------------------------------------------------------------
(* Power cut and reboot: RAM is lost, the journal and the repository stay, *)
(* and so does what is under way.  The battery-backed RTC keeps time or    *)
(* comes back unset.                                                       *)
Crash ==
  /\ faults < MaxFaults /\ faults' = faults + 1
  /\ now' \in {now, 0}
  /\ last' = None /\ anchor' = None /\ todo' = {} /\ unfinished' = {}
  /\ attempt' = [id \in Ids |-> 0]
  /\ late' = {}
  /\ UNCHANGED <<enabled, journal, tapped, sent, acted, done, newer, reach>>

-----------------------------------------------------------------------------
Call(id) ==
  \/ DeviceActs(id)
  \/ Executed(id)
  \/ AckUnjournaled(id)
  \/ Retry(id)
  \/ GiveUp(id)

Tick ==
  \/ TickReanchor
  \/ TickStart
  \/ \E e \in Events : SkipExecuted(e) \/ ExecuteEvent(e)
  \/ TickEnd

Environment ==
  \/ Minute
  \/ \E m \in Minutes : SetClock(m)
  \/ \E e \in Events : Enable(e) \/ Disable(e)
  \/ Crash

Next ==
  \/ Tick
  \/ \E t \in Taps : Tap(t)
  \/ \E id \in Ids : Call(id)
  \/ Environment

Spec == Init /\ [][Next]_vars

(* A call always returns: the gateway bounds every send by its ack timeout *)
(* and the attempts are bounded.  The scheduler task keeps ticking.        *)
Returns(id) == Executed(id) \/ AckUnjournaled(id) \/ Retry(id) \/ GiveUp(id)

Fairness ==
  /\ WF_vars(Tick)
  /\ \A id \in Ids : WF_vars(Returns(id))

(* A device that is commanded for ever acts and answers some day, and the  *)
(* flash takes the record some day.                                        *)
DeviceFairness ==
  \A e \in Events : SF_vars(DeviceActs(e)) /\ SF_vars(Executed(e))

FairSpec == Spec /\ Fairness

-----------------------------------------------------------------------------
(* Properties                                                              *)

TypeOK ==
  /\ now \in Minutes
  /\ enabled \subseteq Events
  /\ journal \in Seq(Ids)
  /\ last \in Minutes \cup {None}
  /\ anchor \in Minutes \cup {None}
  /\ todo \subseteq Events
  /\ unfinished \subseteq Events
  /\ attempt \in [Ids -> 0 .. MaxAttempts]
  /\ sent \subseteq Ids
  /\ acted \subseteq Ids
  /\ tapped \subseteq Taps
  /\ faults \in 0 .. MaxFaults
  /\ done \subseteq Ids
  /\ newer \in [Ids -> SUBSET Ids]
  /\ reach \in Minutes
  /\ late \subseteq Events

(* The windows of the ticks tile the timeline: an event whose schedule was *)
(* enabled in time is never behind the scheduler's marker unless its       *)
(* success was journaled or a tick has planned a minute at least CatchUp   *)
(* past it (plan_window's clamp, _advance_to's rewind, the re-anchoring).  *)
NothingSkipped ==
  \A e \in enabled \ late :
    Due[e] <= last => e \in done \/ Due[e] <= reach - CatchUp

(* Executor.execute looks the id up once, before the first of up to        *)
(* max_attempts sends that interleave with the records of other calls: no  *)
(* send of any attempt happens while the id is in the journal.             *)
NeverSentWhileJournaled ==
  [][\A id \in Ids : attempt'[id] > attempt[id] => id \notin Journaled]_vars

(* How much journal the dedup needs: an id that was journaled is sent      *)
(* again only after MaxRecords other ids have been journaled since.        *)
ResendNeedsEviction ==
  [][\A id \in Ids : attempt'[id] > attempt[id] /\ id \in done
        => Cardinality(newer[id]) >= MaxRecords]_vars

(* README: a command that never reached the relay is not journaled.        *)
JournaledMeansActed ==
  DeliveryAck => Journaled \subseteq acted

(* The inductive strengthening of the four properties above, in parts.     *)

(* The ids of the running calls are not journaled (execute's only lookup   *)
(* stays true while its sends are outstanding), the journaled ones were    *)
(* executed, and a device acts only on what was sent.                      *)
CallsAndJournal ==
  /\ Journaled \subseteq done
  /\ \A id \in Ids : attempt[id] > 0 => id \notin Journaled
  /\ DeliveryAck => Journaled \subseteq acted
  /\ \A id \in Ids : attempt[id] > 0 => id \in sent
  /\ acted \subseteq sent

(* Every event that is behind the window of the running tick is accounted  *)
(* for: executed, still on its list, unfinished, or out of the span.       *)
TickAccounts ==
  Ticking =>
    /\ anchor <= reach
    /\ \A e \in enabled \ late :
         Due[e] <= anchor =>
           \/ e \in done \cup todo \cup unfinished
           \/ Due[e] <= reach - CatchUp

(* The journal lists distinct ids, oldest first; what it forgot has been   *)
(* followed by at least MaxRecords other ids.                              *)
JournalIsNewest ==
  /\ Len(journal) <= MaxRecords
  /\ \A i, j \in DOMAIN journal : i < j => journal[i] # journal[j]
  /\ \A i, j \in DOMAIN journal : i < j => journal[j] \in newer[journal[i]]
  /\ \A id \in Ids : id \notin newer[id]
  /\ \A id \in done \ Journaled : Cardinality(newer[id]) >= MaxRecords

IInv ==
  /\ TypeOK
  /\ CallsAndJournal
  /\ NothingSkipped
  /\ TickAccounts
  /\ JournalIsNewest

(* A tick ends: execute_many's calls each end, whatever the radio does.    *)
TickEnds == Ticking ~> ~ Ticking

(* With a device that can be reached in the end, an event that came due is *)
(* executed, or has left the catch-up span, or was withdrawn.              *)
EventHandled ==
  DeviceFairness =>
  \A e \in Events :
    (e \in enabled \ late /\ MinValid <= now /\ Due[e] <= now)
      ~> \/ e \in done
         \/ Due[e] <= reach - CatchUp
         \/ e \notin enabled \ late
         \/ now < Larger(MinValid, Due[e])

(* The pipeline keeps the executor's promise.                              *)
Promise == INSTANCE ExecutionPromise WITH
  open <- {id \in Ids : attempt[id] > 0},
  begun <- sent,
  remembered <- Journaled,
  moved <- acted

KeepsPromise == Promise!Spec
=============================================================================
