------------------------------ MODULE LinkBreaker ------------------------------
(***************************************************************************)
(* The circuit breaker of ZigbeeGateway: the counter of silent pings, the  *)
(* _down flag, the watchdog, the probe that classifies a silent device     *)
(* command, and the commands themselves, on a link that goes up and down   *)
(* and loses frames.                                                       *)
(*                                                                         *)
(* Tasks interleave at their awaits: a ping is sent in one step, its ack   *)
(* is taken by the reader in another, and the task goes on in a third.     *)
(* The names of the specification say Breaker, so that a module can extend *)
(* it together with Reporting, the other protocol of the gateway.          *)
(***************************************************************************)
EXTENDS Integers, FiniteSets

CONSTANTS
  Watchdog,    \* the task of watchdog()
  Probe,       \* the task _probe_link starts, one at a time
  Commands,    \* tasks that send device commands
  Threshold,   \* _BREAKER_THRESHOLD
  MaxFaults    \* bound: link changes and lost acks

Pingers == {Watchdog, Probe}
Tasks == Pingers \cup Commands

ASSUME TasksAssumption ==
  Watchdog # Probe /\ Pingers \cap Commands = {} /\ IsFiniteSet(Tasks)
ASSUME ThresholdAssumption == Threshold \in Nat \ {0} /\ MaxFaults \in Nat

VARIABLES
  down,      \* _down
  timeouts,  \* _ping_timeouts, counted up to Threshold
  probing,   \* _probe_inflight
  waiting,   \* tasks that await the reply to their frame
  wasDown,   \* pings that found the breaker open (ping()'s was_down)
  answered,  \* waiting tasks whose reply has arrived
  unheard,   \* waiting tasks whose frame or reply was lost
  link,      \* does the coordinator answer?
  faults,    \* bound counter
  stale,     \* history: pings of wasDown when the last valid frame came
  relatched  \* history: has one of them opened the breaker since?

breaker == <<down, timeouts>>
tasks == <<waiting, wasDown, answered, unheard>>
reprobes == <<stale, relatched>>
breakerVars == <<breaker, probing, tasks, link, faults, reprobes>>

BreakerInit ==
  /\ down = FALSE /\ timeouts = 0 /\ probing = FALSE
  /\ waiting = {} /\ wasDown = {} /\ answered = {} /\ unheard = {}
  /\ link \in BOOLEAN
  /\ faults = 0
  /\ stale = {} /\ relatched = FALSE

-----------------------------------------------------------------------------
(* _command up to its await.                                               *)
Sent(t) ==
  /\ waiting' = waiting \cup {t}
  /\ unheard' = IF link THEN unheard ELSE unheard \cup {t}
  /\ UNCHANGED answered

(* Mutant of StartPing: the ping fails fast like any other command.        *)
StartPingClosed(p) ==
  /\ ~ down
  /\ wasDown' = wasDown
  /\ UNCHANGED down
  /\ Sent(p)

(* ping(): the breaker is set aside so that the frame reaches the wire.    *)
StartPing(p) ==
  /\ wasDown' = IF down THEN wasDown \cup {p} ELSE wasDown
  /\ down' = FALSE
  /\ Sent(p)

WatchdogPings ==
  /\ Watchdog \notin waiting
  /\ StartPing(Watchdog)
  /\ UNCHANGED <<timeouts, probing, link, faults, reprobes>>

(* The task _probe_link has created runs; it clears its flag at its end.   *)
ProbePings ==
  /\ probing
  /\ Probe \notin waiting
  /\ StartPing(Probe)
  /\ UNCHANGED <<timeouts, probing, link, faults, reprobes>>

(* _command of a device op: fails fast while the breaker is open.          *)
StartCommand(c) ==
  /\ c \notin waiting
  /\ ~ down
  /\ Sent(c)
  /\ UNCHANGED <<down, timeouts, wasDown, probing, link, faults, reprobes>>

-----------------------------------------------------------------------------
(* Mutant of ValidFrame: only the counter is reset.                        *)
ValidFrameKept ==
  /\ timeouts' = 0 /\ UNCHANGED down
  /\ stale' = wasDown /\ relatched' = FALSE

(* process_line: any valid frame resets the breaker.  A re-probe that is   *)
(* out still remembers it as open.                                         *)
ValidFrame ==
  /\ timeouts' = 0 /\ down' = FALSE
  /\ stale' = wasDown /\ relatched' = FALSE

(* An event or a report of the coordinator.                                *)
EventArrives ==
  /\ link
  /\ ValidFrame
  /\ UNCHANGED <<probing, tasks, link, faults>>

ReplyArrives(t) ==
  /\ link
  /\ t \in waiting \ (answered \cup unheard)
  /\ answered' = answered \cup {t}
  /\ ValidFrame
  /\ UNCHANGED <<probing, waiting, wasDown, unheard, link, faults>>

Ended(t) ==
  /\ waiting' = waiting \ {t}
  /\ wasDown' = wasDown \ {t}
  /\ answered' = answered \ {t}
  /\ unheard' = unheard \ {t}

(* The awaiting task goes on with the reply.                               *)
Returns(t) ==
  /\ t \in answered
  /\ Ended(t)
  /\ probing' = (probing /\ t # Probe)
  /\ stale' = stale \ {t}
  /\ UNCHANGED <<breaker, link, faults, relatched>>

(* Mutant of PingTimesOut: it re-latches whatever the counter says.        *)
PingTimesOutOnly(p) ==
  /\ p \in unheard \ answered
  /\ timeouts' = IF timeouts < Threshold THEN timeouts + 1 ELSE timeouts
  /\ down' = (down \/ (timeouts' >= Threshold /\ timeouts < Threshold))
  /\ Ended(p)
  /\ probing' = (probing /\ p # Probe)
  /\ UNCHANGED <<link, faults, reprobes>>

(* _command: a silent ping counts, enough of them open the breaker.        *)
(* ping(): a breaker that was open when it began is opened again, even if  *)
(* a frame has closed it since.                                            *)
PingTimesOut(p) ==
  /\ p \in unheard \ answered
  /\ timeouts' = IF timeouts < Threshold THEN timeouts + 1 ELSE timeouts
  /\ down' = (down \/ timeouts' >= Threshold \/ p \in wasDown)
  /\ Ended(p)
  /\ probing' = (probing /\ p # Probe)
  /\ relatched' = (relatched \/ p \in stale)
  /\ stale' = stale \ {p}
  /\ UNCHANGED <<link, faults>>

(* _probe_link: one probe at a time, none while the breaker is open.       *)
ProbeLink == probing' = (probing \/ ~ down)

(* A silent device, or a silent link: a probe decides.                     *)
CommandTimesOut(c) ==
  /\ c \in waiting \ answered
  /\ Ended(c)
  /\ ProbeLink
  /\ UNCHANGED <<breaker, link, faults, reprobes>>

-----------------------------------------------------------------------------
(* The coordinator stops or starts answering; a reply is lost.             *)
LinkChanges ==
  /\ faults < MaxFaults /\ faults' = faults + 1
  /\ link' = ~ link
  /\ unheard' = unheard \cup (waiting \ answered)
  /\ UNCHANGED <<breaker, probing, waiting, wasDown, answered, reprobes>>

LoseReply(t) ==
  /\ faults < MaxFaults /\ faults' = faults + 1
  /\ t \in waiting \ (answered \cup unheard)
  /\ unheard' = unheard \cup {t}
  /\ UNCHANGED <<breaker, probing, waiting, wasDown, answered, link, reprobes>>

-----------------------------------------------------------------------------
BreakerNext ==
  \/ WatchdogPings
  \/ ProbePings
  \/ \E p \in Pingers : PingTimesOut(p)
  \/ \E c \in Commands : StartCommand(c) \/ CommandTimesOut(c)
  \/ \E t \in Tasks : ReplyArrives(t) \/ Returns(t) \/ LoseReply(t)
  \/ EventArrives
  \/ LinkChanges

BreakerSpec == BreakerInit /\ [][BreakerNext]_breakerVars

(* The watchdog never stops; a ping is answered when nothing is lost, and  *)
(* wait_for bounds it when something is.                                   *)
BreakerFairSpec ==
  /\ BreakerSpec
  /\ WF_breakerVars(WatchdogPings)
  /\ WF_breakerVars(ProbePings)
  /\ \A p \in Pingers : WF_breakerVars(ReplyArrives(p)) /\ WF_breakerVars(PingTimesOut(p))
  /\ \A t \in Tasks : WF_breakerVars(Returns(t))

-----------------------------------------------------------------------------
(* Properties                                                              *)

BreakerTypeOK ==
  /\ down \in BOOLEAN /\ probing \in BOOLEAN /\ link \in BOOLEAN
  /\ timeouts \in 0 .. Threshold
  /\ waiting \subseteq Tasks
  /\ wasDown \subseteq Pingers \cap waiting
  /\ answered \subseteq waiting /\ unheard \subseteq waiting
  /\ faults \in 0 .. MaxFaults
  /\ stale \subseteq wasDown /\ relatched \in BOOLEAN

(* zigbee_gateway.py: once down, commands fail fast until a valid frame    *)
(* proves the link again.  The code keeps it between the re-probes: after  *)
(* enough silent pings in a row the breaker is open whenever no ping is    *)
(* outstanding, whoever sent it and whatever it found.                     *)
FailsFastBetweenProbes ==
  timeouts >= Threshold /\ Pingers \cap waiting = {} => down

(* Its inductive form: the ping that set the open breaker aside is still   *)
(* unanswered, and its timeout will open it again.                         *)
SetAside ==
  timeouts >= Threshold => down \/ \E p \in Pingers : p \in waiting \ answered

(* zigbee_gateway.py: "2 consecutive timeouts before failing fast", and a  *)
(* valid frame begins the count anew.  That much the code does not keep: a *)
(* re-probe that was out as the frame came opens the breaker again by its  *)
(* own silence.  It keeps that nothing else does: no other ping, nor any   *)
(* command, opens the breaker below the threshold.                         *)
OpenForCause == down => timeouts >= Threshold \/ relatched

(* Its inductive form: whoever would open it again has the same cause.     *)
ReprobeForCause ==
  timeouts < Threshold => relatched \/ wasDown \subseteq stale

(* A link that stays up closes the breaker for good, whatever pings were   *)
(* outstanding when it came back, and one that stays dead is noticed,      *)
(* although every re-probe begins by closing the breaker.                  *)
Recovers == <>[]link => <>[]~ down
Noticed == <>[]~ link => []<>down
FollowsLink == Recovers /\ Noticed
=============================================================================
