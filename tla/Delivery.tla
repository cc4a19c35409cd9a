------------------------------- MODULE Delivery -------------------------------
(***************************************************************************)
(* One call of control.send or of the scheduler on its way to the relays:  *)
(* the attempts of Executor.execute, the worker pool of                    *)
(* ZigbeeGateway._deliver, the pending table, _toggle, and what the hub    *)
(* believes of each device meanwhile: _states (its own word), _expected    *)
(* (what it was told), wait_for_report.                                    *)
(*                                                                         *)
(* A device, known by its ieee address, has one relay or more: the gangs   *)
(* of a switch are endpoints of one device, and the hub keeps one word and *)
(* one expectation for all of them.  A call is a sequence of relays;       *)
(* member i of call c writes under the request id <<c, i>> in every        *)
(* attempt.  The coordinator and the radio are external: a frame acts on   *)
(* its relay once, at any time, or never; what a device says arrives in    *)
(* order; an answer may be lost or late.                                   *)
(***************************************************************************)
EXTENDS Integers, Sequences, FiniteSets, Functions

CONSTANTS
  Devices,     \* by ieee address
  Relays,      \* endpoints of devices
  DeviceOf,    \* DeviceOf[r]: the device that relay r is a gang of
  Calls,       \* events: a tap or a planned event each
  Targets,     \* Targets[c]: its relays; one for an endpoint, several for a group
  Actions,     \* Actions[c]: which of "on", "off" and "toggle" it may ask for
  Confirming,  \* taps with confirm_ms, which a toggle ignores
  Window,      \* _COMMAND_WINDOW
  MaxAttempts, \* Executor.max_attempts
  OldCalls,    \* bound: the calls made over a coordinator that proves no delivery
  MaxFaults,   \* bound: lost frames and words, late answers, departures, a dead link
  MaxPresses   \* bound: presses of wall switches

Unknown == "unknown"
None == "none"
Levels == {"on", "off"}
Other(v) == IF v = "on" THEN "off" ELSE "on"
Members(c) == DOMAIN Targets[c]
Device(c, i) == DeviceOf[Targets[c][i]]
Gangs(d) == {r \in Relays : DeviceOf[r] = d}

ASSUME CallsAssumption ==
  /\ DeviceOf \in [Relays -> Devices]
  /\ Targets \in [Calls -> Seq(Relays)] /\ \A c \in Calls : Targets[c] # <<>>
  /\ Actions \in [Calls -> SUBSET (Levels \cup {"toggle"})]
  /\ \A c \in Confirming : c \in Calls /\ Len(Targets[c]) = 1
ASSUME LimitsAssumption ==
  /\ OldCalls \subseteq Calls
  /\ Window \in Nat \ {0} /\ MaxAttempts \in Nat \ {0}
  /\ MaxFaults \in Nat /\ MaxPresses \in Nat

(* Statuses of the port, weakest first (_STATUS_RANK).                     *)
Rank == <<"error", "timeout", "accepted_by_h2", "sent_to_zigbee",
          "confirmed_by_device", "observed_state">>
Success == {"sent_to_zigbee", "confirmed_by_device", "observed_state"}
Running == {"reading", "setting"}

VARIABLES
  real,        \* the relays
  registered,  \* keys of _registry
  coordinator, \* "old": does not prove deliveries; "new": does, but no ping or
               \* boot event has said so yet; "known": delivery_ack in _capabilities
  states, expected,
  phase,       \* per call: "idle", "sending", "confirming", or how it ended
  action, attempt, \* per call
  job,         \* per call and member: "todo", a step of Running, or its status
  inbox,       \* replies in _pending: per call and member
  frames,      \* commands under way, from the hub's UART to the device
  replies,     \* acks and errors under way to the hub
  says,        \* per device: its reports and read answers under way
  faults, presses,
  (* history *)
  acted,       \* per call: members whose device acted on a frame of the call
  had,         \* per call: levels the device of its first target has had since it began
  sure,        \* calls that began when no word of that device was missed or under way
  missed,      \* devices whose last word was lost, or came while they were not registered
  echoed,      \* devices of a call that took the answer to an earlier attempt
  unproven     \* devices that have not spoken since a command that no one
               \* had proved was counted as sent

belief == <<states, expected, unproven>>
hub == <<registered, coordinator>>
calls == <<phase, action, attempt, job, inbox>>
wire == <<frames, replies, says>>
world == <<real, hub, faults, presses>>
history == <<acted, had, sure, missed, echoed>>
vars == <<belief, calls, wire, world, history>>

Init ==
  /\ real \in [Relays -> Levels] /\ registered = Devices
  /\ coordinator \in {"old", "new"}
  /\ states = [d \in Devices |-> Unknown]
  /\ expected = [d \in Devices |-> None]
  /\ phase = [c \in Calls |-> "idle"] /\ action = [c \in Calls |-> None]
  /\ attempt = [c \in Calls |-> 0]
  /\ job = [c \in Calls |-> [i \in Members(c) |-> "todo"]]
  /\ inbox = [c \in Calls |-> [i \in Members(c) |-> None]]
  /\ frames = {} /\ replies = {} /\ says = [d \in Devices |-> <<>>]
  /\ faults = 0 /\ presses = 0
  /\ acted = [c \in Calls |-> {}] /\ had = [c \in Calls |-> {}]
  /\ sure = {} /\ missed = {} /\ echoed = {} /\ unproven = {}

Fault == faults < MaxFaults /\ faults' = faults + 1

-----------------------------------------------------------------------------
(* Executor.execute and send.                                              *)

(* _resolve_targets: an unknown member fails the attempt as a whole.       *)
Try(c) ==
  /\ attempt' = [attempt EXCEPT ![c] = @ + 1]
  /\ job' = [job EXCEPT ![c] =
       [i \in Members(c) |-> IF \A j \in Members(c) : Device(c, j) \in registered
                             THEN "todo" ELSE "error"]]

Begin(c) ==
  /\ phase[c] = "idle"
  /\ coordinator = "old" => c \in OldCalls
  /\ phase' = [phase EXCEPT ![c] = "sending"]
  /\ \E a \in Actions[c] : action' = [action EXCEPT ![c] = a]
  /\ Try(c)
  /\ LET d == Device(c, 1)
     IN  IF c \in Confirming
         THEN /\ had' = [had EXCEPT ![c] = {real[r] : r \in Gangs(d)}]
              /\ sure' = IF says[d] = <<>> /\ d \notin missed THEN sure \cup {c} ELSE sure
         ELSE UNCHANGED <<had, sure>>
  /\ UNCHANGED <<belief, inbox, wire, world, acted, missed, echoed>>

(* Mutant of Worst: the best member speaks for the group.                  *)
WorstIsBest(c) ==
  LET found == {n \in DOMAIN Rank : \E i \in Members(c) : job[c][i] = Rank[n]}
  IN  Rank[CHOOSE n \in found : \A m \in found : m <= n]

(* _worst_status: a group is only as good as its worst member.             *)
Worst(c) ==
  LET found == {n \in DOMAIN Rank : \E i \in Members(c) : job[c][i] = Rank[n]}
  IN  Rank[CHOOSE n \in found : \A m \in found : n <= m]

Delivered(c) == phase[c] = "sending" /\ \A i \in Members(c) : job[c][i] \in Range(Rank)

Executed(c) ==
  /\ Delivered(c) /\ Worst(c) \in Success
  /\ phase' = [phase EXCEPT ![c] = IF c \in Confirming /\ action[c] # "toggle"
                                 THEN "confirming" ELSE "executed"]
  /\ UNCHANGED <<belief, action, attempt, job, inbox, wire, world, history>>

Retry(c) ==
  /\ Delivered(c) /\ Worst(c) \notin Success
  /\ IF attempt[c] < MaxAttempts
     THEN Try(c) /\ UNCHANGED phase
     ELSE phase' = [phase EXCEPT ![c] = "failed"] /\ UNCHANGED <<attempt, job>>
  /\ UNCHANGED <<belief, action, inbox, wire, world, history>>

(* Mutant of Confirmed: what the device was told counts as its word.       *)
ConfirmedByBelief(c) ==
  /\ phase[c] = "confirming"
  /\ action[c] \in {states[Device(c, 1)], expected[Device(c, 1)]}
  /\ phase' = [phase EXCEPT ![c] = "confirmed"]
  /\ UNCHANGED <<belief, action, attempt, job, inbox, wire, world, history>>

(* wait_for_report: the state in hand counts; else one that comes in time. *)
Confirmed(c) ==
  /\ phase[c] = "confirming"
  /\ states[Device(c, 1)] = action[c]
  /\ phase' = [phase EXCEPT ![c] = "confirmed"]
  /\ UNCHANGED <<belief, action, attempt, job, inbox, wire, world, history>>

Unconfirmed(c) ==
  /\ phase[c] = "confirming"
  /\ states[Device(c, 1)] # action[c]
  /\ phase' = [phase EXCEPT ![c] = "unconfirmed"]
  /\ UNCHANGED <<belief, action, attempt, job, inbox, wire, world, history>>

-----------------------------------------------------------------------------
(* _deliver, _deliver_one, _toggle, _command.                              *)

(* `open`: the coordinator has not answered it yet.                        *)
Frame(c, i, op) ==
  [rid |-> <<c, i>>, try |-> attempt[c], relay |-> Targets[c][i], op |-> op, open |-> TRUE]

(* An open breaker answers for the link (LinkBreaker has it).              *)
Write(c, i, step, op) ==
  /\ inbox' = [inbox EXCEPT ![c][i] = None]
  /\ \/ /\ job' = [job EXCEPT ![c][i] = step]
        /\ frames' = frames \cup {Frame(c, i, op)} /\ UNCHANGED faults
     \/ /\ Fault
        /\ job' = [job EXCEPT ![c][i] = "error"] /\ UNCHANGED frames

(* _expect before the command, and not if it was refused.                  *)
Set(c, i, level) ==
  /\ Write(c, i, "setting", level)
  /\ expected' = [expected EXCEPT ![Device(c, i)] =
                    IF job'[c][i] = "setting" THEN level ELSE None]

(* A worker takes the next member; a toggle goes by the last word of the   *)
(* device and reads only when there is none.                               *)
Take(c, i) ==
  /\ phase[c] = "sending" /\ job[c][i] = "todo"
  /\ \A j \in Members(c) : j < i => job[c][j] # "todo"
  /\ Cardinality({j \in Members(c) : job[c][j] \in Running}) < Window
  /\ LET known == states[Device(c, i)]
     IN  IF action[c] # "toggle" THEN Set(c, i, action[c])
         ELSE IF known # Unknown THEN Set(c, i, Other(known))
         ELSE Write(c, i, "reading", "read") /\ UNCHANGED expected
  /\ UNCHANGED <<states, unproven, phase, action, attempt, replies, says, real, hub, presses, history>>

(* Mutant of Doubted: the belief outlives the command.                     *)
DoubtedNever(c, i) == expected

(* A command that did not get through: stop claiming it did.               *)
Doubted(c, i) ==
  IF job[c][i] = "setting" THEN [expected EXCEPT ![Device(c, i)] = None] ELSE expected

(* _ack_status, and the error frames.  A coordinator without delivery_ack, *)
(* or of which none is known yet, has sent what it does not refuse.        *)
AckStatus(r) ==
  CASE r \in Levels \cup {"delivered"} -> "confirmed_by_device"
    [] r \in {"failed", "error"}       -> "error"
    [] coordinator = "known"           -> "accepted_by_h2"
    [] OTHER                           -> "sent_to_zigbee"

(* The reply resumes the worker: a read that succeeded goes on to the set. *)
Returns(c, i) ==
  /\ job[c][i] \in Running /\ inbox[c][i] # None
  /\ LET status == AckStatus(inbox[c][i])
     IN  IF job[c][i] = "reading" /\ status \in Success
         THEN Set(c, i, Other(IF inbox[c][i] = "on" THEN "on" ELSE "off")) /\ UNCHANGED unproven
         ELSE /\ job' = [job EXCEPT ![c][i] = status]
              /\ expected' = IF status \in Success THEN expected ELSE Doubted(c, i)
              /\ unproven' = IF status = "sent_to_zigbee" THEN unproven \cup {Device(c, i)}
                             ELSE unproven
              /\ inbox' = [inbox EXCEPT ![c][i] = None]
              /\ UNCHANGED <<frames, faults>>
  /\ UNCHANGED <<states, phase, action, attempt, replies, says, real, hub, presses, history>>

(* The ack timeout: nothing will come any more, or it comes too late; it   *)
(* may even win over a reply that is just in.                              *)
Outstanding(c, i) ==
  \/ inbox[c][i] # None
  \/ \E w \in {f \in frames : f.open} \cup replies \cup Range(says[Device(c, i)]) :
       w.rid = <<c, i>> /\ w.try = attempt[c]

TimesOut(c, i) ==
  /\ job[c][i] \in Running
  /\ job' = [job EXCEPT ![c][i] = "timeout"]
  /\ inbox' = [inbox EXCEPT ![c][i] = None]
  /\ expected' = Doubted(c, i)
  /\ IF Outstanding(c, i) THEN Fault ELSE UNCHANGED faults
  /\ UNCHANGED <<states, unproven, phase, action, attempt, wire, real, hub, presses, history>>

-----------------------------------------------------------------------------
(* The coordinator and the devices.                                        *)

Reply(f, what) == [rid |-> f.rid, try |-> f.try, step |-> IF f.op = "read" THEN "reading" ELSE "setting",
                   what |-> what]

(* The relay changes, and the calls on its device have seen a level.       *)
Becomes(r, level) ==
  /\ real' = [real EXCEPT ![r] = level]
  /\ had' = [c \in Calls |-> IF c \in Confirming /\ Device(c, 1) = DeviceOf[r] /\ phase[c] \in {"sending", "confirming"}
                             THEN had[c] \cup {level} ELSE had[c]]
Report(r, level) == [relay |-> r, level |-> level, rid |-> <<>>, try |-> 0]

(* A coordinator that cannot prove deliveries answers before the radio has *)
(* tried, and no more after that.                                          *)
Accepts(f) ==
  /\ coordinator = "old"
  /\ f \in frames /\ f.op \in Levels /\ f.open
  /\ frames' = (frames \ {f}) \cup {[f EXCEPT !.open = FALSE]}
  /\ replies' = replies \cup {Reply(f, "accepted")}
  /\ UNCHANGED <<belief, calls, says, world, history>>

(* The relay acts on the frame and reports a change.  Where deliveries are *)
(* proved its radio answers too; an answer that the radio loses on its way *)
(* is reported as a failure.                                               *)
Acts(f) ==
  /\ f \in frames /\ f.op \in Levels
  /\ frames' = frames \ {f}
  /\ Becomes(f.relay, f.op)
  /\ says' = IF real[f.relay] = f.op THEN says
             ELSE [says EXCEPT ![DeviceOf[f.relay]] = Append(@, Report(f.relay, f.op))]
  /\ IF coordinator = "old"
     THEN ~ f.open /\ UNCHANGED <<replies, faults>>
     ELSE \/ replies' = replies \cup {Reply(f, "delivered")} /\ UNCHANGED faults
          \/ Fault /\ replies' = replies \cup {Reply(f, "failed")}
  /\ acted' = [acted EXCEPT ![f.rid[1]] = @ \cup {f.rid[2]}]
  /\ UNCHANGED <<belief, calls, hub, presses, sure, missed, echoed>>

AnswersRead(f) ==
  /\ f \in frames /\ f.op = "read"
  /\ frames' = frames \ {f}
  /\ says' = [says EXCEPT ![DeviceOf[f.relay]] =
                Append(@, [relay |-> f.relay, level |-> real[f.relay], rid |-> f.rid, try |-> f.try])]
  /\ UNCHANGED <<belief, calls, replies, world, history>>

(* Lost, refused or expired, with an answer or without.                    *)
Fails(f) ==
  /\ Fault /\ f \in frames
  /\ frames' = frames \ {f}
  /\ replies' \in {replies} \cup IF f.open THEN {replies \cup {Reply(f, "failed")}} ELSE {}
  /\ UNCHANGED <<belief, calls, says, real, hub, presses, history>>

WallSwitch(r) ==
  /\ presses < MaxPresses /\ presses' = presses + 1
  /\ Becomes(r, Other(real[r]))
  /\ says' = [says EXCEPT ![DeviceOf[r]] = Append(@, Report(r, Other(real[r])))]
  /\ UNCHANGED <<belief, calls, frames, replies, hub, faults, acted, sure, missed, echoed>>

-----------------------------------------------------------------------------
(* process_line.                                                           *)

(* A reply under a pending id is its answer, whichever attempt wrote it.   *)
Takes(rid, try, step, what) ==
  /\ LET c == rid[1]
         i == rid[2]
         awaited == job[c][i] = step
     IN  /\ inbox' = IF awaited THEN [inbox EXCEPT ![c][i] = what] ELSE inbox
         /\ echoed' = IF awaited /\ try # attempt[c] THEN echoed \cup {Device(c, i)}
                      ELSE echoed

ReplyArrives(r) ==
  /\ r \in replies
  /\ replies' = replies \ {r}
  /\ Takes(r.rid, r.try, r.step, r.what)
  /\ UNCHANGED <<belief, phase, action, attempt, job, frames, says, world, acted, had, sure, missed>>

(* _on_state: the device spoke, stop guessing.  A report carries the       *)
(* endpoint, but it is not looked at: the word of one gang stands for all. *)
OnState(d, level) ==
  /\ expected' = [expected EXCEPT ![d] = None]
  /\ states' = [states EXCEPT ![d] = level]
  /\ unproven' = unproven \ {d}

(* A word of a device that is not registered is nobody's.                  *)
WordArrives(d) ==
  /\ says[d] # <<>>
  /\ says' = [says EXCEPT ![d] = Tail(@)]
  /\ LET w == Head(says[d])
     IN  /\ IF d \in registered THEN OnState(d, w.level)
            ELSE UNCHANGED belief
         /\ IF w.rid = <<>> THEN UNCHANGED <<inbox, echoed>>
            ELSE Takes(w.rid, w.try, "reading", w.level)
  /\ missed' = IF d \in registered THEN missed \ {d} ELSE missed \cup {d}
  /\ UNCHANGED <<phase, action, attempt, job, frames, replies, world, acted, had, sure>>

WordLost(d) ==
  /\ Fault /\ says[d] # <<>>
  /\ says' = [says EXCEPT ![d] = Tail(@)]
  /\ missed' = IF Head(says[d]).rid = <<>> THEN missed \cup {d} ELSE missed
  /\ UNCHANGED <<belief, calls, frames, replies, real, hub, presses, acted, had, sure, echoed>>

(* _on_device_left and forget_device, then _on_device_joined.              *)
Forgotten(d) ==
  /\ Fault /\ d \in registered
  /\ registered' = registered \ {d}
  /\ states' = [states EXCEPT ![d] = Unknown]
  /\ expected' = [expected EXCEPT ![d] = None]
  /\ UNCHANGED <<unproven, calls, wire, real, coordinator, presses, history>>

Joins(d) ==
  /\ d \notin registered
  /\ registered' = registered \cup {d}
  /\ UNCHANGED <<belief, calls, wire, real, coordinator, faults, presses, history>>

(* _learn_capabilities: the answer to the first ping.                      *)
LearnCapabilities ==
  /\ coordinator = "new"
  /\ coordinator' = "known"
  /\ UNCHANGED <<belief, calls, wire, real, registered, faults, presses, history>>

-----------------------------------------------------------------------------
Next ==
  \/ \E c \in Calls :
       \/ Begin(c) \/ Executed(c) \/ Retry(c) \/ Confirmed(c) \/ Unconfirmed(c)
       \/ \E i \in Members(c) : Take(c, i) \/ Returns(c, i) \/ TimesOut(c, i)
  \/ \E f \in frames : Accepts(f) \/ Acts(f) \/ AnswersRead(f) \/ Fails(f)
  \/ \E r \in replies : ReplyArrives(r)
  \/ \E r \in Relays : WallSwitch(r)
  \/ \E d \in Devices : WordArrives(d) \/ WordLost(d) \/ Forgotten(d) \/ Joins(d)
  \/ LearnCapabilities

Spec == Init /\ [][Next]_vars

-----------------------------------------------------------------------------
(* Properties                                                              *)

TypeOK ==
  /\ real \in [Relays -> Levels] /\ registered \subseteq Devices
  /\ coordinator \in {"old", "new", "known"}
  /\ states \in [Devices -> Levels \cup {Unknown}]
  /\ expected \in [Devices -> Levels \cup {None}]
  /\ attempt \in [Calls -> 0 .. MaxAttempts]
  /\ \A c \in Calls : \A i \in Members(c) :
       /\ job[c][i] \in {"todo"} \cup Running \cup Range(Rank)
       /\ inbox[c][i] # None => job[c][i] \in Running

(* zigbee_gateway.py "a group is only as good as its worst member": where  *)
(* deliveries are proved, a call that ended well has moved every member of *)
(* it, none on the strength of the others, none left out by the worker     *)
(* pool, and none before the hub knew that they are proved.                *)
GroupProven ==
  \A c \in Calls :
    coordinator # "old" /\ phase[c] \in {"executed", "confirming", "confirmed"}
      => acted[c] = Members(c)

(* wait_for_report, "the device's own word, not an ack echo": a confirmed  *)
(* tap has seen its level, a relay of the device has really had it since   *)
(* the tap, also where nothing else proves that it was delivered.  The     *)
(* state in hand may be older than the tap, and is right if the device had *)
(* been heard to the end when the tap began; if not, a word from before    *)
(* the tap confirms a command that was lost.                               *)
ConfirmedIsTrue ==
  \A c \in sure : phase[c] = "confirmed" => action[c] \in had[c]

(* devices(): what the screens show, once no worker is at a device and no  *)
(* word of it is under way, is what a relay of it is, whatever failed, was *)
(* lost, raced, was given up and is still on its way, or was switched on   *)
(* the wall; unless its last word was lost, a retry took the answer to its *)
(* own first try, or a sending that was not proved was believed.  Of two   *)
(* gangs it is the one that spoke or was commanded last.                   *)
Shown(d) == IF expected[d] # None THEN expected[d] ELSE states[d]
LeftAlone(d) ==
  /\ says[d] = <<>>
  /\ \A c \in Calls : \A i \in Members(c) : Device(c, i) = d => job[c][i] \notin Running
ShownIsReal ==
  \A d \in Devices \ (missed \cup echoed \cup unproven) :
    LeftAlone(d) => Shown(d) \in {Unknown} \cup {real[r] : r \in Gangs(d)}
=============================================================================
