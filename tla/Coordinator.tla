------------------------------ MODULE Coordinator ------------------------------
(***************************************************************************)
(* The request handling of the H2 coordinator: the in-flight table of      *)
(* txn.c, the command handlers of zb.c that open transactions, the stack   *)
(* callbacks that close them, and the expiry sweep of the dispatcher.      *)
(*                                                                         *)
(* The dispatcher and the stack's callbacks exclude each other by the      *)
(* stack lock; the sweep runs beside the callbacks and only excludes their *)
(* critical sections (TXN_LOCK).  A slot counts down to its deadline.      *)
(* Endpoints, clusters and payloads are left out; the Zigbee stack and the *)
(* devices are external: a frame that was sent is confirmed and answered   *)
(* at any time, in any order, or never.                                    *)
(***************************************************************************)
EXTENDS Integers, FiniteSets

CONSTANTS
  Rids,       \* request ids, as the hub counts them; one command each
  Addrs,      \* short addresses
  AddrsOf(_), \* those to which a request may be sent
  Slots,      \* 1 .. TXN_MAX
  Timeout,    \* Timeout[kind] > 0: ticks to the deadline
  Span,       \* generations a handle can carry: 2^24
  MaxAllocs,  \* bound: transactions ever opened
  ConfirmFirst,  \* does the stack deliver a response after its confirm?
  NoRid,      \* no request id, no handle, no address
  NoTsn       \* the stack has not told the tsn yet

Kinds == {"on_off", "read_attr", "read_report_cfg", "bind", "config_report"}

ASSUME SlotsAssumption == Slots \subseteq Nat /\ Slots # {} /\ IsFiniteSet(Slots)
ASSUME TimeoutAssumption == Timeout \in [Kinds -> Nat \ {0}]
ASSUME SpanAssumption ==
  Span \in Nat \ {0} /\ MaxAllocs \in Nat \ {0} /\ ConfirmFirst \in BOOLEAN
ASSUME RidAssumption ==
  /\ Rids \subseteq Nat /\ \A r \in Rids : AddrsOf(r) \subseteq Addrs
  /\ NoRid \notin Rids \cup Addrs /\ NoTsn \notin Rids

VARIABLES
  slots,       \* s_txn.slots
  generation,  \* s_txn.next_generation
  air,         \* callbacks and device answers the stack may still deliver
  confirming,  \* cmd_confirm_cb between its two critical sections, or NoRid
  issued,      \* commands taken from the link
  (* history *)
  replied,     \* replied[r] \in 0 .. 2: acks and errors that name r
  anonymous,   \* commands answered by an error without a request id
  verdicts,    \* verdicts[r] \in 0 .. 2: outcomes by which r's chain was concluded
  late         \* chains of which a response came that found no transaction

table == <<slots, generation>>
history == <<anonymous, verdicts, late>>
vars == <<table, air, confirming, issued, replied, history>>

-----------------------------------------------------------------------------
(* txn.c                                                                   *)

Free == [used |-> FALSE, gen |-> 0, kind |-> "on_off", rid |-> NoRid,
         addr |-> NoRid, tsn |-> NoTsn, left |-> 0, owner |-> NoRid]

(* HANDLE_GEN of make_handle: the shift drops the upper generation bits.   *)
HandleGen(g) == g % Span

Handle(i, g) == [index |-> i, gen |-> HandleGen(g)]

(* Mutant of Resolves: the slot alone decides.                             *)
ResolvesByIndex(h) == slots[h.index].used

(* txn_get does not return NULL.                                           *)
Resolves(h) == slots[h.index].used /\ slots[h.index].gen = h.gen

FreeSlots == {i \in Slots : ~ slots[i].used}
Full == FreeSlots = {}
Lowest(S) == CHOOSE i \in S : \A j \in S : i <= j

(* txn_alloc in the lowest free slot; `owner` is history.                  *)
Opened(table0, kind, rid, addr, owner) ==
  [table0 EXCEPT ![Lowest({i \in Slots : ~ table0[i].used})] =
     [used |-> TRUE, gen |-> generation, kind |-> kind, rid |-> rid,
      addr |-> addr, tsn |-> NoTsn, left |-> Timeout[kind], owner |-> owner]]

NextHandle(table0) ==
  Handle(Lowest({i \in Slots : ~ table0[i].used}), generation)

(* txn_release                                                             *)
Released(i) == [slots EXCEPT ![i] = Free]

(* txn_match: the tsn decides where both sides have one, else the open     *)
(* request of that kind to that address that expires first.                *)
Candidates(kind, addr, tsn) ==
  {i \in Slots : /\ slots[i].used /\ slots[i].kind = kind /\ slots[i].addr = addr
                 /\ tsn = NoTsn \/ slots[i].tsn \in {NoTsn, tsn}}

Matches(kind, addr, tsn) ==
  LET open  == Candidates(kind, addr, tsn)
      exact == {i \in open : tsn # NoTsn /\ slots[i].tsn = tsn}
  IN  IF exact # {} THEN exact
      ELSE {i \in open : \A j \in open : slots[i].left <= slots[j].left}

-----------------------------------------------------------------------------
Init ==
  /\ slots = [i \in Slots |-> Free]
  /\ generation = 1
  /\ air = {}
  /\ confirming = NoRid
  /\ issued = {}
  /\ replied = [r \in Rids |-> 0]
  /\ anonymous = {}
  /\ verdicts = [r \in Rids |-> 0]
  /\ late = {}

More(count, R) == [r \in Rids |-> IF r \in R /\ count[r] < 2 THEN count[r] + 1
                                  ELSE count[r]]
Reply(R) == replied' = More(replied, R)
Verdict(R) == verdicts' = More(verdicts, R)

(* What the stack may deliver for a frame of request r.                    *)
Confirmation(h, r) == [what |-> "confirm", handle |-> h, addr |-> NoRid, owner |-> r]
Answer(kind, a, r) == [what |-> kind, handle |-> NoRid, addr |-> a, owner |-> r]

-----------------------------------------------------------------------------
(* The dispatcher: one command from the link, under the stack lock.        *)

InTurn(r) == r \notin issued /\ \A q \in Rids : q < r => q \in issued

Dispatch(r) ==
  /\ confirming = NoRid
  /\ InTurn(r)
  /\ issued' = issued \cup {r}

(* The stack lock was not free in time: "busy", with no request id.        *)
LockTimeout(r) ==
  /\ InTurn(r)
  /\ issued' = issued \cup {r}
  /\ anonymous' = anonymous \cup {r}
  /\ UNCHANGED <<table, air, confirming, replied, verdicts, late>>

(* No free slot: "busy".                                                   *)
Busy(r) ==
  /\ Dispatch(r)
  /\ Full
  /\ Reply({r})
  /\ UNCHANGED <<table, air, confirming, history>>

(* The stack refused the frame: the slot is released again.                *)
SendFails(r) ==
  /\ Dispatch(r)
  /\ ~ Full /\ generation < MaxAllocs
  /\ generation' = generation + 1
  /\ Reply({r})
  /\ UNCHANGED <<slots, air, confirming, history>>

(* cmd_on_off, cmd_read_attr, cmd_read_report_cfg.                         *)
Command(r, kind, a) ==
  /\ Dispatch(r)
  /\ ~ Full /\ generation < MaxAllocs
  /\ slots' = Opened(slots, kind, r, a, r)
  /\ generation' = generation + 1
  /\ air' = air \cup {Confirmation(NextHandle(slots), r)}
                \cup (IF kind = "on_off" THEN {} ELSE {Answer(kind, a, r)})
  /\ UNCHANGED <<confirming, replied, history>>

(* cmd_enable_reporting: accepted now, its outcome is an event.            *)
EnableReporting(r, a) ==
  /\ Dispatch(r)
  /\ ~ Full /\ generation < MaxAllocs
  /\ slots' = Opened(slots, "bind", NoRid, a, r)
  /\ generation' = generation + 1
  /\ air' = air \cup {[what |-> "bind", handle |-> NextHandle(slots),
                       addr |-> NoRid, owner |-> r]}
  /\ Reply({r})
  /\ UNCHANGED <<confirming, history>>

(* Mutants of Expire: the sweep forgets its slots, or does not answer.     *)
ExpireKept ==
  LET due == {i \in Slots : slots[i].used /\ slots[i].left = 0}
  IN  /\ due # {}
      /\ Reply({slots[i].rid : i \in due})
      /\ Verdict({slots[i].owner : i \in {j \in due : slots[j].kind = "config_report"}})
      /\ UNCHANGED <<table, air, confirming, issued, anonymous, late>>

ExpireSilent ==
  LET due == {i \in Slots : slots[i].used /\ slots[i].left = 0}
  IN  /\ due # {}
      /\ slots' = [i \in Slots |-> IF i \in due THEN Free ELSE slots[i]]
      /\ UNCHANGED <<generation, air, confirming, issued, replied, history>>

(* txn_expire with expired_txn_cb: "timeout" to who waits for a reply,     *)
(* "configure_no_response" for a configure; a bind expires in silence.     *)
Expire ==
  LET due == {i \in Slots : slots[i].used /\ slots[i].left = 0}
  IN  /\ due # {}
      /\ slots' = [i \in Slots |-> IF i \in due THEN Free ELSE slots[i]]
      /\ Reply({slots[i].rid : i \in due})
      /\ Verdict({slots[i].owner : i \in {j \in due : slots[j].kind = "config_report"}})
      /\ UNCHANGED <<generation, air, confirming, issued, anonymous, late>>

Tick ==
  /\ \E i \in Slots : slots[i].left > 0
  /\ slots' = [i \in Slots |-> [slots[i] EXCEPT !.left = IF @ > 0 THEN @ - 1 ELSE 0]]
  /\ UNCHANGED <<generation, air, confirming, issued, replied, history>>

-----------------------------------------------------------------------------
(* Callbacks of the stack.                                                 *)

Callback(c, what) ==
  /\ confirming = NoRid
  /\ c \in air
  /\ c.what = what
  /\ air' = air \ {c}

(* cmd_confirm_cb, first critical section.                                 *)
Confirm(c, ok) ==
  /\ Callback(c, "confirm")
  /\ IF Resolves(c.handle)
     THEN /\ slots' = [slots EXCEPT ![c.handle.index].tsn = c.owner]
          /\ confirming' = [handle |-> c.handle, ok |-> ok,
                            kind |-> slots[c.handle.index].kind]
     ELSE UNCHANGED <<slots, confirming>>
  /\ UNCHANGED <<generation, issued, replied, history>>

(* cmd_confirm_cb after it: finish_txn, unless a delivered read still      *)
(* waits for its value.  The slot may have expired in between.             *)
Finish ==
  /\ confirming # NoRid
  /\ confirming' = NoRid
  /\ LET i == confirming.handle.index
         waits == confirming.ok /\ confirming.kind \in {"read_attr", "read_report_cfg"}
     IN  IF ~ waits /\ Resolves(confirming.handle)
         THEN slots' = Released(i) /\ Reply({slots[i].rid})
         ELSE UNCHANGED <<slots, replied>>
  /\ UNCHANGED <<generation, air, issued, history>>

(* on_read_attr_rsp (the response carries the tsn of its request) and      *)
(* on_read_report_cfg_rsp (it is not looked at).                           *)
ReadResponse(c) ==
  \E kind \in {"read_attr", "read_report_cfg"} :
    /\ Callback(c, kind)
    /\ ConfirmFirst => ~ \E d \in air : d.what = "confirm" /\ d.owner = c.owner
    /\ LET tsn   == IF kind = "read_attr" THEN c.owner ELSE NoTsn
           found == Matches(kind, c.addr, tsn)
       IN  \/ /\ found = {}
              /\ UNCHANGED <<slots, replied>>
           \/ \E i \in found :
                /\ slots' = Released(i)
                /\ Reply({slots[i].rid})
    /\ UNCHANGED <<generation, confirming, issued, history>>

(* bind_result_cb: the configure follows the bind, in a slot of its own.   *)
BindResult(c) ==
  /\ Callback(c, "bind")
  /\ ~ Resolves(c.handle)
  /\ UNCHANGED <<table, confirming, issued, replied, history>>

BindFails(c) ==
  /\ Callback(c, "bind")
  /\ Resolves(c.handle)
  /\ slots' = Released(c.handle.index)
  /\ Verdict({c.owner})
  /\ UNCHANGED <<generation, confirming, issued, replied, anonymous, late>>

Configure(c) ==
  /\ confirming = NoRid
  /\ c \in air /\ c.what = "bind"
  /\ Resolves(c.handle)
  /\ generation < MaxAllocs
  /\ LET i     == c.handle.index
         addr  == slots[i].addr
         owner == slots[i].owner
     IN  /\ slots' = Opened(Released(i), "config_report", NoRid, addr, owner)
         /\ air' = (air \ {c}) \cup
                   {[what |-> "config_confirm", handle |-> NextHandle(Released(i)),
                     addr |-> NoRid, owner |-> owner],
                    Answer("config_report", addr, owner)}
  /\ generation' = generation + 1
  /\ UNCHANGED <<confirming, issued, replied, history>>

(* config_report_confirm_cb: only a failure concludes.                     *)
ConfigConfirm(c, ok) ==
  /\ Callback(c, "config_confirm")
  /\ IF ~ ok /\ Resolves(c.handle)
     THEN /\ slots' = Released(c.handle.index)
          /\ Verdict({slots[c.handle.index].owner})
     ELSE UNCHANGED <<slots, verdicts>>
  /\ UNCHANGED <<generation, confirming, issued, replied, anonymous, late>>

(* on_config_report_rsp reports what the device says, whether or not a     *)
(* transaction is left for it: the response to a configure that expired, or *)
(* whose transaction another response has taken, is an outcome as well.    *)
ConfigResponse(c) ==
  /\ Callback(c, "config_report")
  /\ \/ /\ Matches("config_report", c.addr, NoTsn) = {}
        /\ late' = late \cup {c.owner}
        /\ UNCHANGED <<slots, verdicts>>
     \/ \E i \in Matches("config_report", c.addr, NoTsn) :
          /\ slots' = Released(i)
          /\ Verdict({slots[i].owner})
          /\ UNCHANGED late
  /\ UNCHANGED <<generation, confirming, issued, replied, anonymous>>

Lose(c) ==
  /\ c \in air
  /\ air' = air \ {c}
  /\ UNCHANGED <<table, confirming, issued, replied, history>>

-----------------------------------------------------------------------------
Commands ==
  \E r \in Rids :
    \/ LockTimeout(r) \/ Busy(r) \/ SendFails(r)
    \/ \E a \in AddrsOf(r) :
         \/ \E kind \in {"on_off", "read_attr", "read_report_cfg"} : Command(r, kind, a)
         \/ EnableReporting(r, a)

Callbacks ==
  \E c \in air :
    \/ \E ok \in BOOLEAN : Confirm(c, ok) \/ ConfigConfirm(c, ok)
    \/ ReadResponse(c) \/ BindResult(c) \/ BindFails(c) \/ Configure(c)
    \/ ConfigResponse(c) \/ Lose(c)

Next == Commands \/ Callbacks \/ Finish \/ Expire \/ Tick

Spec == Init /\ [][Next]_vars

(* Time passes and the dispatcher sweeps at least every PUMP_INTERVAL_MS;  *)
(* a callback that has begun ends.  Nothing is assumed of the radio.       *)
FairSpec == Spec /\ WF_vars(Tick) /\ WF_vars(Expire) /\ WF_vars(Finish)

-----------------------------------------------------------------------------
(* Properties                                                              *)

HandleType == [index : Slots, gen : Nat]

SlotType ==
  [used : BOOLEAN, gen : Nat, kind : Kinds, rid : Rids \cup {NoRid},
   addr : Addrs \cup {NoRid}, tsn : Rids \cup {NoTsn}, left : Nat,
   owner : Rids \cup {NoRid}]

TypeOK ==
  /\ slots \in [Slots -> SlotType]
  /\ generation \in 1 .. MaxAllocs + 1
  /\ \A c \in air : c.owner \in Rids /\ c.handle \in HandleType \cup {NoRid}
  /\ confirming = NoRid \/ confirming.handle \in HandleType
  /\ issued \subseteq Rids /\ anonymous \subseteq Rids /\ late \subseteq Rids
  /\ replied \in [Rids -> 0 .. 2] /\ verdicts \in [Rids -> 0 .. 2]

(* A command is never answered twice and a reporting chain is concluded    *)
(* once, whatever the order of the confirms, the responses, the expiry and *)
(* the reuse of the slot; only the device itself may be heard after that,  *)
(* never in the place of the conclusion.                                   *)
OneReply ==
  \A r \in Rids : /\ replied[r] <= 1 /\ verdicts[r] <= 1
                  /\ r \in late => verdicts[r] = 1

(* Every command is answered under its id, or still open in the table.     *)
AnsweredOrOpen ==
  \A r \in issued \ anonymous :
    replied[r] = 1 \/ \E i \in Slots : slots[i].used /\ slots[i].rid = r

(* A late callback is harmless: a handle finds the request it was made     *)
(* for, or nothing, never the request that reuses the slot.                *)
HandleFindsOwner ==
  \A c \in air :
    c.handle # NoRid /\ Resolves(c.handle) => slots[c.handle.index].owner = c.owner

(* The table is no leak: every command is answered in the end.             *)
Answered == \A r \in Rids : r \in issued \ anonymous ~> replied[r] = 1
=============================================================================
