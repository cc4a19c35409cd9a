---------------------------- MODULE CoordinatorLink ----------------------------
(***************************************************************************)
(* The UART link of the coordinator: the hub's frames arrive token by      *)
(* token at rx_task, whose line assembler and handle_line feed the RX      *)
(* queue; the dispatcher answers; the stack's signals post events; tx_task *)
(* drains the TX queue; the hub reads lines and learns the network state.  *)
(*                                                                         *)
(* A token stands for the bytes of a frame between two of its limits.  A   *)
(* line has a valid CRC iff it is exactly the tokens of one frame; its     *)
(* first token carries the prefix.  Of the commands only those without a   *)
(* transaction are here (Coordinator has the others).                      *)
(***************************************************************************)
EXTENDS Integers, Sequences, FiniteSets, SequencesExt

CONSTANTS
  Sizes,       \* Sizes[n]: the tokens of the n-th command of the hub
  LineMax,     \* sizeof(proto_lines_t.buf) - 1, in tokens
  ItemMax,     \* RX_ITEM_MAX, in tokens
  RxDepth, TxDepth, \* RX_QUEUE_DEPTH, TX_QUEUE_DEPTH
  Beacons,     \* CONFIG_COORD_BOOT_BEACON_COUNT
  MaxDamage,   \* bound: frames damaged on the wire, either way
  MaxUpsets    \* bound: upsets of the coordinator, joins and departures of the device

ASSUME LinkAssumption ==
  /\ Sizes \in Seq(Nat \ {0})
  /\ LineMax \in Nat /\ ItemMax \in 1 .. LineMax
  /\ RxDepth \in Nat \ {0} /\ TxDepth \in Nat \ {0}
  /\ Beacons \in Nat /\ MaxDamage \in Nat /\ MaxUpsets \in Nat

Ping == 0                                  \* a ping; n > 0 the n-th command
Size(n) == IF n = Ping THEN 1 ELSE Sizes[n]
Newline == [n |-> Ping, i |-> 0]
Tokens(n) == [i \in 1 .. Size(n) |-> [n |-> n, i |-> i]]

VARIABLES
  next,      \* hub: the command it writes next
  network,   \* hub: info["network_up"]
  entry,     \* hub: what the registry holds of the device
  rx,        \* tokens on the wire to the coordinator
  lines,     \* proto_lines_t
  rxq, txq,
  counted,   \* link_stats_t: the commands whose loss moved a drop counter
  zb,        \* the stack: "starting", "up", "down"
  asked,     \* discovery requests under way
  beacons,   \* boot events app_main has still to send
  damage, upsets,
  (* history *)
  answered,  \* commands the hub got a reply to
  spoilt,    \* commands that were damaged, or merged with a damaged neighbour
  lapsed,    \* commands lost to a restart, a busy stack or the wire to the hub
  taken, refused, \* commands that entered the RX queue, that found it full
  begun      \* commands of which something arrived since the last end of a line

hub == <<next, network, entry, answered>>
radio == <<zb, asked>>
linkHistory == <<spoilt, lapsed, taken, refused, begun>>
linkVars == <<hub, rx, lines, rxq, txq, counted, radio, beacons, damage, upsets, linkHistory>>

Fresh == [buf |-> <<>>, overrun |-> FALSE]

LinkInit ==
  /\ next = 1 /\ network = "unknown" /\ entry = {"device_joined"} /\ answered = {}
  /\ rx = <<>> /\ lines = Fresh /\ rxq = <<>> /\ txq = <<>>
  /\ counted = {} /\ zb = "starting" /\ asked = {}
  /\ beacons = Beacons /\ damage = 0 /\ upsets = 0
  /\ spoilt = {} /\ lapsed = {} /\ taken = {} /\ refused = {} /\ begun = {}

-----------------------------------------------------------------------------
(* Queues                                                                  *)

(* link_send_body, which never blocks: a full queue drops and counts.      *)
SendFrom(q, known, f) ==
  IF Len(q) < TxDepth
  THEN txq' = Append(q, f) /\ counted' = known
  ELSE txq' = q /\ counted' = known \cup {f.n}
Send(f) == SendFrom(txq, counted, f)

Frame(type, n) == [type |-> type, n |-> n, up |-> zb = "up"]

(* A drop counter, then send_link_error: without the id of the command.    *)
Complain(buf) ==
  SendFrom(txq, counted \cup {t.n : t \in ToSet(buf)}, Frame("error", Ping))

-----------------------------------------------------------------------------
(* From the hub to the dispatcher                                          *)

(* _write_cmd; damage loses a token of the line, perhaps its end.          *)
Write(n) ==
  LET line == Append(Tokens(n), Newline)
  IN  \/ rx' = rx \o line /\ UNCHANGED <<damage, spoilt>>
      \/ /\ damage < MaxDamage /\ damage' = damage + 1
         /\ \E i \in DOMAIN line :
              /\ rx' = rx \o RemoveAt(line, i)
              /\ spoilt' = spoilt \cup (IF line[i] = Newline THEN {n, next + 1} ELSE {n})

WriteCommand ==
  /\ next <= Len(Sizes)
  /\ Write(next) /\ next' = next + 1
  /\ UNCHANGED <<network, entry, answered, lines, rxq, txq, counted, radio, beacons,
                 upsets, lapsed, taken, refused, begun>>

(* The watchdog pings for ever, when its last one is through or lost.      *)
Pinging ==
  \/ Ping \in ToSet(rxq) \/ \E t \in ToSet(rx) \cup ToSet(lines.buf) : t.n = Ping /\ t.i = 1
  \/ \E f \in ToSet(txq) : f.type = "pong"

WritePing ==
  /\ ~ Pinging
  /\ rx' = rx \o Append(Tokens(Ping), Newline)
  /\ UNCHANGED <<hub, lines, rxq, txq, counted, radio, beacons, damage, upsets, linkHistory>>

(* Mutant of Feed: an overrun is not over at the end of its line.          *)
FeedStuck(l, token) ==
  IF l.overrun THEN l
  ELSE IF Len(l.buf) >= LineMax THEN [l EXCEPT !.overrun = TRUE]
  ELSE [l EXCEPT !.buf = IF token = Newline THEN <<>> ELSE Append(@, token)]

(* proto_lines_feed.                                                       *)
Feed(l, token) ==
  IF token = Newline THEN Fresh
  ELSE IF l.overrun THEN l
  ELSE IF Len(l.buf) >= LineMax THEN [l EXCEPT !.overrun = TRUE]
  ELSE [l EXCEPT !.buf = Append(@, token)]

(* proto_frame_body.                                                       *)
BadPrefix(buf) == buf[1].i # 1
BadCrc(buf) == buf # Tokens(buf[1].n)

(* Mutant of HandleLine: a mangled line looks like silence.                *)
HandleLineSilently(buf) ==
  LET n == buf[1].n
  IN  IF BadPrefix(buf) \/ BadCrc(buf) \/ Size(n) > ItemMax \/ Len(rxq) >= RxDepth
      THEN UNCHANGED <<rxq, txq, counted, taken, refused>>
      ELSE rxq' = Append(rxq, n) /\ taken' = taken \cup {n} /\ UNCHANGED <<txq, counted, refused>>

(* handle_line: bad_frame, bad_crc, frame_too_long, busy, or accepted.     *)
HandleLine(buf) ==
  LET n     == buf[1].n
      legal == ~ BadPrefix(buf) /\ ~ BadCrc(buf) /\ Size(n) <= ItemMax
  IN  IF legal /\ Len(rxq) < RxDepth
      THEN /\ rxq' = Append(rxq, n) /\ taken' = taken \cup {n}
           /\ UNCHANGED <<txq, counted, refused>>
      ELSE /\ Complain(buf)
           /\ refused' = IF legal THEN refused \cup {n} ELSE refused
           /\ UNCHANGED <<rxq, taken>>

(* rx_task, which counts an overrun line at its end and hands on a line    *)
(* that is not empty.                                                      *)
RxTask ==
  /\ rx # <<>> /\ rx' = Tail(rx)
  /\ LET token == Head(rx)
     IN  /\ lines' = Feed(lines, token)
         /\ begun' = IF token = Newline THEN {} ELSE begun \cup {token.n}
         /\ IF token # Newline \/ lines = Fresh
            THEN UNCHANGED <<rxq, txq, counted, taken, refused>>
            ELSE IF lines.overrun
            THEN counted' = counted \cup begun /\ UNCHANGED <<rxq, txq, taken, refused>>
            ELSE HandleLine(lines.buf)
  /\ UNCHANGED <<hub, radio, beacons, damage, upsets, spoilt, lapsed>>

-----------------------------------------------------------------------------
(* The dispatcher and the stack                                            *)

(* Done or refused (no_network, bad_addr, unknown_op): a frame with its id. *)
ReplyTo(n) == Frame(IF n = Ping THEN "pong" ELSE "reply", n)

DispatchLine ==
  /\ rxq # <<>> /\ rxq' = Tail(rxq)
  /\ Send(ReplyTo(Head(rxq)))
  /\ UNCHANGED <<hub, rx, lines, radio, beacons, damage, upsets, linkHistory>>

(* zb_dispatch_task, when the stack holds its lock for too long: whatever  *)
(* the command, a ping too, it is answered without its id.                 *)
StackBusy ==
  /\ rxq # <<>> /\ rxq' = Tail(rxq)
  /\ Send(Frame("error", Ping))
  /\ lapsed' = lapsed \cup {Head(rxq)}
  /\ UNCHANGED <<hub, rx, lines, radio, beacons, damage, upsets, spoilt, taken, refused, begun>>

Upset == upsets < MaxUpsets /\ upsets' = upsets + 1

(* app_signal_handler and the discovery callbacks: each posts an event.    *)
Post(type) == Send(Frame(type, Ping))
                /\ UNCHANGED <<hub, rx, lines, rxq, damage, linkHistory>>

AnnounceNetwork ==
  /\ zb = "starting" /\ zb' = "up"
  /\ Send([type |-> "network_formed", n |-> Ping, up |-> TRUE])
  /\ UNCHANGED <<hub, rx, lines, rxq, asked, beacons, damage, upsets, linkHistory>>

FormationFailed ==
  /\ zb = "starting" /\ zb' = "down"
  /\ Post("formation_failed") /\ UNCHANGED <<asked, beacons, upsets>>

NetworkDown ==
  /\ zb = "up" /\ zb' = "down" /\ Post("network_down") /\ UNCHANGED <<asked, beacons, upsets>>

DeviceAnnounced ==
  /\ zb = "up" /\ Upset
  /\ asked' = asked \cup {"device_endpoints"}
  /\ Post("device_joined") /\ UNCHANGED <<zb, beacons>>

(* The descriptors are asked for before the event is posted.               *)
ActiveEpCb ==
  /\ "device_endpoints" \in asked
  /\ asked' \in {asked \ {"device_endpoints"}, {"device_clusters"}}
  /\ Post("device_endpoints") /\ UNCHANGED <<zb, beacons, upsets>>

SimpleDescCb ==
  /\ "device_clusters" \in asked /\ asked' = asked \ {"device_clusters"}
  /\ Post("device_clusters") /\ UNCHANGED <<zb, beacons, upsets>>

LeaveIndication ==
  /\ zb = "up" /\ Upset
  /\ Post("device_left") /\ UNCHANGED <<zb, asked, beacons>>

AnnounceBoot ==
  /\ beacons > 0 /\ beacons' = beacons - 1
  /\ Post("boot") /\ UNCHANGED <<zb, asked, upsets>>

Restart ==
  /\ Upset
  /\ lines' = Fresh /\ rxq' = <<>> /\ txq' = <<>> /\ counted' = {}
  /\ zb' = "starting" /\ asked' = {} /\ beacons' = Beacons
  /\ lapsed' = 1 .. next /\ begun' = {}
  /\ UNCHANGED <<hub, rx, damage, spoilt, taken, refused>>

-----------------------------------------------------------------------------
(* To the hub                                                              *)

(* Mutant of NetworkUp: the state in the ack of a ping is not used.        *)
NetworkUpByEvent(f) ==
  IF f.type \in {"boot", "network_formed"} THEN "up" ELSE
  IF f.type = "network_down" THEN "down" ELSE network

NetworkUp(f) ==
  CASE f.type \in {"boot", "network_formed"} -> "up"
    [] f.type = "network_down"               -> "down"
    [] f.type = "pong"                       -> IF f.up THEN "up" ELSE "down"
    [] OTHER                                 -> network

(* _on_device_joined, _left, _endpoints, _clusters: a word about a device  *)
(* that is not registered is dropped.                                      *)
Learned(f) ==
  CASE f.type = "device_joined" -> entry \cup {"device_joined"}
    [] f.type = "device_left"   -> {}
    [] f.type \in {"device_endpoints", "device_clusters"} /\ entry # {} -> entry \cup {f.type}
    [] OTHER -> entry

(* tx_task, then decode, which drops a line that is not intact, and        *)
(* process_line.                                                           *)
ProcessLine ==
  /\ txq # <<>> /\ txq' = Tail(txq)
  /\ LET f == Head(txq)
     IN  \/ /\ network' = NetworkUp(f) /\ entry' = Learned(f)
            /\ answered' = IF f.type = "reply" THEN answered \cup {f.n} ELSE answered
            /\ UNCHANGED <<damage, lapsed>>
         \/ /\ damage < MaxDamage /\ damage' = damage + 1
            /\ lapsed' = lapsed \cup {f.n}
            /\ UNCHANGED <<network, entry, answered>>
  /\ UNCHANGED <<next, rx, lines, rxq, counted, radio, beacons, upsets, spoilt, taken, refused, begun>>

-----------------------------------------------------------------------------
LinkNext ==
  \/ WriteCommand \/ WritePing \/ RxTask \/ DispatchLine \/ StackBusy
  \/ AnnounceNetwork \/ FormationFailed \/ NetworkDown
  \/ DeviceAnnounced \/ ActiveEpCb \/ SimpleDescCb \/ LeaveIndication
  \/ AnnounceBoot \/ Restart \/ ProcessLine

(* A ping that finds the stack's lock free and room for its answer.        *)
AnswerPing ==
  /\ rxq # <<>> /\ Head(rxq) = Ping /\ Len(txq) < TxDepth
  /\ DispatchLine

(* The tasks run, the reader of the hub reads and its watchdog pings.  The *)
(* stack may be busy at any ping, but not at every one.                    *)
Fairness ==
  /\ WF_linkVars(WritePing) /\ WF_linkVars(RxTask) /\ WF_linkVars(DispatchLine \/ StackBusy)
  /\ WF_linkVars(ProcessLine) /\ WF_linkVars(AnnounceBoot)
  /\ SF_linkVars(AnswerPing)

LinkSpec == LinkInit /\ [][LinkNext]_linkVars /\ Fairness

-----------------------------------------------------------------------------
(* Properties                                                              *)

LinkTypeOK ==
  /\ next \in 1 .. Len(Sizes) + 1 /\ network \in {"unknown", "up", "down"}
  /\ Len(lines.buf) <= LineMax /\ Len(rxq) <= RxDepth /\ Len(txq) <= TxDepth
  /\ zb \in {"starting", "up", "down"} /\ beacons \in 0 .. Beacons

OnTheWay(n) == n \in begun \/ \E t \in ToSet(rx) : t.n = n

(* protocol.c "discarding to end of line": a line that is damaged, too     *)
(* long or dropped does not take a neighbour with it; a whole frame of     *)
(* legal size enters the RX queue or finds it full.                        *)
NeighboursSpared ==
  \A n \in 1 .. next - 1 :
    \/ n \in spoilt \cup taken \cup refused \cup lapsed
    \/ OnTheWay(n) \/ Size(n) > ItemMax

(* zb.c "Health counters": no command vanishes without a trace.  Each one  *)
(* is on its way, answered, or in a counter of the health report; except   *)
(* one of which no byte arrived, and those that lapsed.                    *)
Accounted ==
  \A n \in 1 .. next - 1 :
    \/ OnTheWay(n) \/ n \in ToSet(rxq) \cup answered \cup counted \cup lapsed
    \/ \E f \in ToSet(txq) : f.n = n
    \/ n \in spoilt /\ Size(n) = 1

(* zb.c "the panel footer lied about it": whatever was lost, the hub comes *)
(* to know whether there is a network.                                     *)
FooterSettles ==
  /\ (<>[](zb = "up")) => <>[](network = "up")
  /\ (<>[](zb # "up")) => <>[](network = "down")
=============================================================================
