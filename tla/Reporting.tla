------------------------------ MODULE Reporting ------------------------------
(***************************************************************************)
(* How the hub makes every relay report its own wall switch: the queue of  *)
(* devices to ask, the credits that bound the requests under way, and the  *)
(* registry of ZigbeeGateway, beside the chains (bind, then configure)     *)
(* that the coordinator runs for it and the devices that come and go.      *)
(*                                                                         *)
(* Requests and answers name a device by its short address, which changes  *)
(* when it joins again; the registry is keyed by the stable one.  Times    *)
(* count down; a device waits for its turn when `due` reaches 0.           *)
(***************************************************************************)
EXTENDS Integers, FiniteSets, Bags

CONSTANTS
  Devices,     \* devices, by their ieee address
  Shorts,      \* short addresses
  Off,         \* no short address: not in the mesh
  Window,      \* _REPORTING_WINDOW
  CreditTime,  \* _REPORTING_INFLIGHT_MS
  RetryBase,   \* _REPORTING_RETRY_BASE_MS
  MaxShift,    \* the delay grows at most so many times
  Delay,       \* the delay after n attempts: RetryBase * 2 ^ n
  StepTime,    \* REPORTING_TIMEOUT_MS, of the bind and of the configure
  MaxNews,     \* bound: joins, departures, removals and restarts
  MaxLost      \* bound: frames lost or refused, departures to rejoin

ASSUME ReportingAssumption ==
  /\ Off \notin Shorts /\ IsFiniteSet(Devices)
  /\ Window \in Nat \ {0} /\ MaxShift \in Nat
  /\ MaxNews \in Nat /\ MaxLost \in Nat
  /\ StepTime \in Nat \ {0}

(* 8 s, 12 s and 30 s: a credit outlives a step of a chain but not a chain, *)
(* and a retry comes after it.                                             *)
ASSUME TimesAssumption ==
  /\ CreditTime \in Nat /\ RetryBase \in Nat
  /\ StepTime < CreditTime /\ 2 * StepTime < RetryBase
  /\ Delay \in [0 .. MaxShift -> Nat]
  /\ \A n \in 0 .. MaxShift : Delay[n] >= RetryBase

VARIABLES
  registered,  \* keys of _registry
  short,       \* their "short_addr"
  reporting,   \* those whose "reporting" is true
  queue,       \* keys of _reporting_retry
  due,         \* their "due", relative to now
  attempts,    \* their "attempts", up to MaxShift + 1
  inflight,    \* keys of _reporting_inflight
  credit,      \* their expiry, relative to now
  chains,      \* the chains of the coordinator, a bag
  addr,        \* the short address each device really has
  news, lost,  \* bound counters
  proven,      \* history: devices that have accepted a configure
  misled,      \* history: devices whose departure the hub missed, or whose
               \* address it still holds while another device has it
  orphans,     \* history: devices whose queue entry a restart of the hub dropped
  spacing      \* history: time until RetryBase has passed since the last request

registry == <<registered, short, reporting>>
requests == <<queue, due, attempts, inflight, credit>>
bounds == <<news, lost>>
vars == <<registry, requests, chains, addr, bounds, proven, misled, orphans, spacing>>

Lesser(a, b) == IF a <= b THEN a ELSE b
Zero == [d \in Devices |-> 0]

(* The value of f on S, 0 elsewhere.                                       *)
On(f, S) == [d \in Devices |-> IF d \in S THEN f[d] ELSE 0]

Init ==
  /\ registered = {} /\ short = [d \in Devices |-> Off] /\ reporting = {}
  /\ queue = {} /\ due = Zero /\ attempts = Zero
  /\ inflight = {} /\ credit = Zero
  /\ chains = EmptyBag
  /\ addr = [d \in Devices |-> Off]
  /\ news = 0 /\ lost = 0
  /\ proven = {} /\ misled = {} /\ orphans = {} /\ spacing = Zero

-----------------------------------------------------------------------------
(* pump_reporting, on the registry its caller leaves and on the queue and  *)
(* the credits as the caller has changed them.                             *)

(* Entries of devices that are gone or need nothing more are dropped, with *)
(* their credits; credits that have expired are reclaimed.                 *)
Needs == registered' \ reporting'

(* Mutant of Charged: a request that is never answered keeps its credit.   *)
ChargedForever(q, inf) == inf \ (q \ Needs)

Charged(q, inf) == {d \in inf : credit[d] > 0} \ (q \ Needs)

(* Those served: as many as there are credits, the longest waiting first.  *)
Turn(q, du, inf) ==
  LET ready == {d \in (q \cap Needs) \ inf : du[d] <= 0}
  IN  {S \in SUBSET ready :
         /\ Cardinality(S) = Lesser(Cardinality(ready), Window - Cardinality(inf))
         /\ \A d \in S, e \in ready \ S : du[d] <= du[e]}

(* cmd_enable_reporting: a chain for whoever has that address now.         *)
NewChain(s) ==
  [dev   |-> IF \E d \in Devices : addr'[d] = s
             THEN CHOOSE d \in Devices : addr'[d] = s ELSE Off,
   short |-> s, phase |-> "bind", left |-> StepTime]

NewChains(S) == BagOfAll(LAMBDA d : NewChain(short'[d]), SetToBag(S))

(* _request_reporting for the devices of S.  The requests of R are refused *)
(* or lost: the hub does not look at their acks.                           *)
Request(S, q, du, at, inf, rest) ==
  \E R \in SUBSET S :
    /\ due' = [d \in Devices |-> IF d \in S THEN Delay[Lesser(at[d], MaxShift)] ELSE On(du, q)[d]]
    /\ attempts' = [d \in Devices |->
                      IF d \in S THEN Lesser(at[d] + 1, MaxShift + 1) ELSE On(at, q)[d]]
    /\ inflight' = inf \cup S
    /\ credit' = [d \in Devices |-> IF d \in S THEN CreditTime ELSE On(credit, inf)[d]]
    /\ chains' = rest (+) NewChains(S \ R)
    /\ (R # {} => lost < MaxLost)
    /\ lost' = IF R = {} THEN lost ELSE lost + 1
    /\ spacing' = [d \in Devices |-> IF d \in S THEN RetryBase ELSE spacing[d]]

Pump(q, du, at, inf, rest) ==
  /\ queue' = q \cap Needs
  /\ LET inf1 == Charged(q, inf)
     IN  \E S \in Turn(q, du, inf1) : Request(S, q \cap Needs, du, at, inf1, rest)

(* watchdog(): the heartbeat serves the queue.                             *)
Heartbeat ==
  /\ UNCHANGED <<registry, addr, news, proven, misled, orphans>>
  /\ Pump(queue, due, attempts, inflight, chains)

-----------------------------------------------------------------------------
(* Devices join, leave and are removed.                                    *)

News == news < MaxNews /\ news' = news + 1
Losing == lost < MaxLost /\ lost' = lost + 1

(* _on_device_joined: the address is healed, the device goes to the queue. *)
OnDeviceJoined(d, s) ==
  /\ registered' = registered \cup {d}
  /\ short' = [short EXCEPT ![d] = s]
  /\ UNCHANGED reporting
  /\ orphans' = orphans \ {d}
  /\ Pump(queue \cup {d}, [due EXCEPT ![d] = 0], [attempts EXCEPT ![d] = 0],
          inflight, chains)

Joins(d, s) ==
  /\ News
  /\ \A e \in Devices \ {d} : addr[e] # s
  /\ addr' = [addr EXCEPT ![d] = s]
  /\ misled' = misled \cup {e \in registered \ {d} : short[e] = s}
  /\ UNCHANGED proven
  /\ \/ OnDeviceJoined(d, s)
     \/ /\ Losing
        /\ UNCHANGED <<registry, requests, chains, orphans, spacing>>

(* What the registry and its companions keep when d is dropped.            *)
Dropped(d) ==
  /\ registered' = registered \ {d}
  /\ short' = [short EXCEPT ![d] = Off]
  /\ reporting' = reporting \ {d}
  /\ orphans' = orphans \ {d}

(* _on_device_left: the queue entry goes too, the credit stays.  One that   *)
(* means to rejoin keeps its entry, with the address it had.               *)
OnDeviceLeft(d, rejoin) ==
  /\ UNCHANGED <<inflight, credit, chains, spacing, misled>>
  /\ \/ /\ d \in registered /\ ~ rejoin
        /\ Dropped(d)
        /\ queue' = queue \ {d}
        /\ due' = [due EXCEPT ![d] = 0] /\ attempts' = [attempts EXCEPT ![d] = 0]
     \/ /\ d \notin registered \/ rejoin
        /\ UNCHANGED <<registry, queue, due, attempts, orphans>>

(* A device that leaves to rejoin keeps what it was told, and the loss of  *)
(* its notice changes nothing.                                             *)
Leaves(d, rejoin) ==
  /\ IF rejoin THEN Losing /\ UNCHANGED news ELSE News
  /\ addr[d] # Off
  /\ addr' = [addr EXCEPT ![d] = Off]
  /\ proven' = IF rejoin THEN proven ELSE proven \ {d}
  /\ \/ /\ OnDeviceLeft(d, rejoin)
        /\ rejoin \/ UNCHANGED lost
     \/ /\ ~ rejoin /\ Losing
        /\ misled' = misled \cup {d}
        /\ UNCHANGED <<registry, requests, chains, orphans, spacing>>

(* forget_device: the registry entry goes, the queue is left to the pump.  *)
(* The removal may not reach the device.                                   *)
Forget(d) ==
  /\ News
  /\ d \in registered
  /\ Dropped(d)
  /\ addr' \in {addr, [addr EXCEPT ![d] = Off]}
  /\ proven' = proven \ {d}
  /\ UNCHANGED <<requests, chains, spacing, misled, lost>>

(* The hub starts again: the registry is on the flash, the rest is not.    *)
HubRestarts ==
  /\ News
  /\ queue' = {} /\ due' = Zero /\ attempts' = Zero
  /\ inflight' = {} /\ credit' = Zero
  /\ orphans' = registered \ reporting
  /\ UNCHANGED <<registry, chains, addr, lost, proven, misled, spacing>>

CoordinatorRestarts ==
  /\ News
  /\ chains' = EmptyBag
  /\ UNCHANGED <<registry, requests, addr, lost, proven, misled, orphans, spacing>>

-----------------------------------------------------------------------------
(* The chains of the coordinator.                                          *)

(* _on_reporting_result.  A success ends the asking.                       *)
OnSuccess(d, rest) ==
  /\ reporting' = reporting \cup {d}
  /\ Pump(queue \ {d}, due, attempts, inflight \ {d}, rest)

(* Mutants of OnFailure: no new entry for a device that was thought to     *)
(* report; or one that is due at once.                                     *)
OnFailureUnqueued(d, rest) ==
  /\ reporting' = reporting \ {d}
  /\ Pump(queue, due, attempts, inflight \ {d}, rest)

OnFailureAtOnce(d, rest) ==
  /\ reporting' = reporting \ {d}
  /\ Pump(queue \cup {d}, [due EXCEPT ![d] = 0],
          [attempts EXCEPT ![d] = IF d \in queue THEN @ ELSE 1], inflight \ {d}, rest)

(* A failure keeps the queue entry, or makes one.                          *)
OnFailure(d, rest) ==
  /\ reporting' = reporting \ {d}
  /\ Pump(queue \cup {d},
          [due EXCEPT ![d] = IF d \in queue THEN @ ELSE RetryBase],
          [attempts EXCEPT ![d] = IF d \in queue THEN @ ELSE 1],
          inflight \ {d}, rest)

(* Mutant of OnReportingResult: the result is taken for that of the device *)
(* that was asked last.                                                    *)
OnReportingResultOfAsked(s, ok, rest) ==
  \/ /\ inflight \cap registered = {}
     /\ chains' = rest
     /\ UNCHANGED <<registry, requests, lost, orphans, spacing>>
  \/ \E d \in inflight \cap registered :
       /\ UNCHANGED <<registered, short>>
       /\ orphans' = orphans \ {d}
       /\ IF ok THEN OnSuccess(d, rest) ELSE OnFailure(d, rest)

(* The device is the one the registry has under that address.              *)
OnReportingResult(s, ok, rest) ==
  LET found == {d \in registered : short[d] = s}
  IN  \/ /\ found = {}
         /\ chains' = rest
         /\ UNCHANGED <<registry, requests, lost, orphans, spacing>>
      \/ \E d \in found :
           /\ UNCHANGED <<registered, short>>
           /\ orphans' = orphans \ {d}
           /\ IF ok THEN OnSuccess(d, rest) ELSE OnFailure(d, rest)

(* The event that concludes a chain, which may be lost on the way.         *)
Outcome(s, ok, rest) ==
  /\ UNCHANGED <<addr, news, misled>>
  /\ \/ OnReportingResult(s, ok, rest)
     \/ /\ Losing
        /\ chains' = rest
        /\ UNCHANGED <<registry, requests, orphans, spacing>>

Rest(c) == chains (-) SetToBag({c})
Entering(c, phase, left) == [c EXCEPT !.phase = phase, !.left = left]
(* The bind names the device by both its addresses.                        *)
BindOk(c) ==
  /\ c.phase = "bind"
  /\ c.dev \in Devices /\ c.short \in Shorts /\ addr[c.dev] = c.short
  /\ chains' = Rest(c) (+) SetToBag({Entering(c, "configure", StepTime)})
  /\ UNCHANGED <<registry, requests, addr, bounds, proven, misled, orphans, spacing>>

(* Whoever has the address now takes the configure.                        *)
ConfigureOk(c) ==
  /\ c.phase # "bind" /\ c.short \in Shorts
  /\ \E d \in Devices : addr[d] = c.short /\ proven' = proven \cup {d}
  /\ Outcome(c.short, TRUE, Rest(c))

(* bind_failed, busy, configure_not_delivered, configure_refused.          *)
Fails(c) ==
  /\ UNCHANGED proven
  /\ Outcome(c.short, FALSE, Rest(c))

(* The sweep: a bind ends in silence, a configure with a failure, after    *)
(* which the answer of the device may still come.                          *)
Expires(c) ==
  /\ c.left = 0 /\ c.phase # "late"
  /\ UNCHANGED proven
  /\ \/ /\ c.phase = "bind"
        /\ chains' = Rest(c)
        /\ UNCHANGED <<registry, requests, addr, bounds, misled, orphans, spacing>>
     \/ /\ c.phase = "configure"
        /\ \/ Outcome(c.short, FALSE, Rest(c))
           \/ /\ \A e \in DOMAIN chains : e.phase # "late"
              /\ Outcome(c.short, FALSE, Rest(c) (+) SetToBag({Entering(c, "late", 0)}))

(* Of the overdue only the order matters: they count down by their ranks.  *)
Later(d) ==
  IF d \notin queue THEN 0
  ELSE IF due[d] > 0 THEN due[d] - 1
  ELSE - Cardinality({e \in queue : due[d] <= due[e] /\ due[e] <= 0})

OlderChains == BagOfAll(LAMBDA c : [c EXCEPT !.left = IF @ > 0 THEN @ - 1 ELSE 0], chains)

(* Time passes, but never beyond a deadline of the sweep.                  *)
Tick ==
  /\ \A c \in DOMAIN chains : c.left > 0 \/ c.phase = "late"
  /\ due' = [d \in Devices |-> Later(d)]
  /\ credit' = [d \in Devices |-> IF credit[d] > 0 THEN credit[d] - 1 ELSE 0]
  /\ spacing' = [d \in Devices |-> IF spacing[d] > 0 THEN spacing[d] - 1 ELSE 0]
  /\ chains' = OlderChains
  /\ UNCHANGED <<registry, queue, attempts, inflight, addr, bounds, proven, misled, orphans>>

-----------------------------------------------------------------------------
Next ==
  \/ Heartbeat
  \/ \E d \in Devices : Forget(d) \/ \E s \in Shorts : Joins(d, s)
  \/ \E d \in Devices, rejoin \in BOOLEAN : Leaves(d, rejoin)
  \/ HubRestarts
  \/ CoordinatorRestarts
  \/ \E c \in DOMAIN chains : BindOk(c) \/ ConfigureOk(c) \/ Fails(c) \/ Expires(c)
  \/ Tick

Spec == Init /\ [][Next]_vars

(* The watchdog beats, the sweep runs, time passes.                        *)
FairSpec ==
  /\ Spec
  /\ WF_vars(Heartbeat) /\ WF_vars(Tick)
  /\ WF_vars(\E c \in DOMAIN chains : Expires(c))

-----------------------------------------------------------------------------
(* Properties                                                              *)

TypeOK ==
  /\ registered \subseteq Devices /\ reporting \subseteq registered
  /\ short \in [Devices -> Shorts \cup {Off}] /\ addr \in [Devices -> Shorts \cup {Off}]
  /\ queue \subseteq Devices /\ inflight \subseteq Devices
  /\ due \in [Devices -> Int]
  /\ attempts \in [Devices -> 0 .. MaxShift + 1]
  /\ credit \in [Devices -> 0 .. CreditTime]
  /\ spacing \in [Devices -> 0 .. RetryBase]
  /\ proven \subseteq Devices /\ misled \subseteq Devices /\ orphans \subseteq Devices

(* pump_reporting: no more than _REPORTING_WINDOW requests hold a credit,  *)
(* whatever joins, answers and heartbeats come together.                   *)
WindowHeld == Cardinality(inflight) <= Window

(* "Never give up": every registered device that does not report yet is    *)
(* in the queue, unless a restart of the hub emptied it after the device   *)
(* joined.                                                                 *)
NeverGivesUp == registered \ reporting \subseteq queue \cup orphans

(* A device counts as reporting only by its own answer, although answers   *)
(* name it by an address that others may have had or may have now; unless  *)
(* the hub missed its departure, or another device was given the address   *)
(* that the registry keeps for it, as it does for one that left to rejoin. *)
TrueFlag == reporting \ misled \subseteq proven

(* What makes it so: nobody else is where the hub believes a device to be. *)
AddressKnown ==
  \A d \in registered \ misled : \A e \in Devices \ {d} :
    addr[e] = short[d] => addr[e] = Off

(* The backoff "must not turn into a request storm": after its first       *)
(* request since a join, a device is asked again only RetryBase later,     *)
(* whatever fails in between.                                              *)
Asked(d) ==
  /\ d \in inflight' /\ credit'[d] = CreditTime
  /\ ~ (d \in inflight /\ credit[d] = CreditTime)
Paced == \A d \in Devices : Asked(d) /\ attempts'[d] > 1 => spacing[d] = 0
NoStorm == [][Paced]_vars

(* What makes it so: the retry deadline is not before it.                  *)
Spaced ==
  \A d \in queue : attempts[d] = 0 \/ spacing[d] = 0 \/ spacing[d] <= due[d]

(* The inductive invariant.                                                *)
IInv == TypeOK /\ WindowHeld /\ NeverGivesUp /\ TrueFlag /\ AddressKnown /\ Spaced

(* Every device is made to report in the end: no credit is lost for good,  *)
(* and nobody is starved.  It must be where the hub believes it to be, not *)
(* dropped by a restart, and answer in time when asked again and again.    *)
Settled(d) ==
  /\ d \in registered \ orphans /\ short[d] = addr[d]
  /\ \A e \in registered \ {d} : short[e] # short[d]
  /\ \A c \in DOMAIN chains : c.short = short[d] => c.phase # "late"
DeviceFairness(d) ==
  /\ SF_vars(\E c \in DOMAIN chains : c.dev = d /\ BindOk(c))
  /\ SF_vars(\E c \in DOMAIN chains : addr[d] = c.short /\ ConfigureOk(c))
Converges ==
  \A d \in Devices : DeviceFairness(d) /\ <>[]Settled(d) => <>[](d \in reporting)
=============================================================================
