---------------------------- MODULE DeliveryProofs ----------------------------
(***************************************************************************)
(* Theorems about Delivery, for every set of devices and calls, every      *)
(* grouping and every set of gangs, every window and number of attempts: a *)
(* call that ended well has moved every member where deliveries are        *)
(* proved, a confirmed tap has seen its level, and what the screens show   *)
(* of a device that is left alone is so of a relay of it.                  *)
(***************************************************************************)
EXTENDS Delivery, SequenceTheorems, TLAPS

(***************************************************************************)
(* The inductive invariant.                                                *)
(***************************************************************************)
Statuses == {"error", "timeout", "accepted_by_h2", "sent_to_zigbee",
             "confirmed_by_device", "observed_state"}
Jobs == {"todo"} \cup Running \cup Statuses
Phases == {"idle", "sending", "confirming", "executed", "failed",
           "confirmed", "unconfirmed"}
Answers == {None, "delivered", "failed", "accepted"} \cup Levels

(* The request ids of the members, and the words of the devices.           *)
Rids == {rid \in Calls \X Nat : rid[2] \in Members(rid[1])}
Words == [relay : Relays, level : Levels, rid : Rids \cup {<<>>}, try : Nat]
Frames == [rid : Rids, try : Nat, relay : Relays, op : Levels \cup {"read"},
           open : BOOLEAN]

(* A table with an entry for every member of every call.                   *)
Tables(S) == [Calls -> UNION {[Members(c) -> S] : c \in Calls}]
PerMember(t, S) == t \in Tables(S) /\ \A c \in Calls : t[c] \in [Members(c) -> S]

Typed ==
  /\ real \in [Relays -> Levels] /\ registered \subseteq Devices
  /\ coordinator \in {"old", "new", "known"}
  /\ states \in [Devices -> Levels \cup {Unknown}]
  /\ expected \in [Devices -> Levels \cup {None}]
  /\ phase \in [Calls -> Phases]
  /\ action \in [Calls -> Levels \cup {"toggle", None}]
  /\ attempt \in [Calls -> 0 .. MaxAttempts]
  /\ PerMember(job, Jobs)
  /\ PerMember(inbox, Answers)
  /\ says \in [Devices -> Seq(Words)]
  /\ acted \in [Calls -> SUBSET Nat]
  /\ had \in [Calls -> SUBSET Levels]
  /\ sure \subseteq Confirming
  /\ missed \subseteq Devices /\ echoed \subseteq Devices /\ unproven \subseteq Devices

(* What is under way belongs to an attempt the call has made, and a        *)
(* delivery is only claimed of a command the device acted on; that it was  *)
(* accepted, only by a coordinator that claims no deliveries.              *)
SentBy(m) == m.rid \in Rids /\ m.try \in 1 .. attempt[m.rid[1]]
SentFrames ==
  \A f \in frames :
    /\ f \in Frames /\ SentBy(f)
    /\ f.relay = Targets[f.rid[1]][f.rid[2]]
    /\ action[f.rid[1]] # "toggle" => f.op = action[f.rid[1]]
SentReplies ==
  \A r \in replies :
    /\ SentBy(r)
    /\ r.step \in Running
    /\ \/ r.what = "failed"
       \/ r.what = "delivered" /\ r.step = "setting" /\ r.rid[2] \in acted[r.rid[1]]
       \/ r.what = "accepted" /\ r.step = "setting" /\ coordinator = "old"
SentWords ==
  \A d \in Devices : \A k \in 1 .. Len(says[d]) :
    LET w == says[d][k]
    IN  /\ w.relay \in Gangs(d)
        /\ w.rid # <<>> => Device(w.rid[1], w.rid[2]) = d
Sent == SentFrames /\ SentReplies /\ SentWords

(* The life of a call: what it has asked for, how far its members are, and *)
(* that one answer is worth one command.                                   *)
CallShape(c) ==
  /\ phase[c] = "idle" => attempt[c] = 0 /\ acted[c] = {}
  /\ phase[c] # "idle" => attempt[c] # 0 /\ action[c] # None
  /\ phase[c] \in {"confirming", "confirmed"} => action[c] # "toggle"
  /\ acted[c] \subseteq Members(c)
MemberShape(c, i) ==
  /\ phase[c] = "idle" => job[c][i] = "todo"
  /\ inbox[c][i] # None => job[c][i] \in Running
  /\ job[c][i] \in Success => i \in acted[c] \/ coordinator = "old"
  /\ job[c][i] = "reading" =>
       action[c] = "toggle" /\ inbox[c][i] \notin {"delivered", "accepted"}
  /\ job[c][i] = "setting" =>
       \/ inbox[c][i] = "delivered" /\ i \in acted[c]
       \/ inbox[c][i] = "accepted" /\ coordinator = "old"
       \/ inbox[c][i] \in {None, "failed"}
Shape == \A c \in Calls : CallShape(c) /\ \A i \in Members(c) : MemberShape(c, i)

(* A member writes at most one read and one command per attempt.           *)
Of(m, c, i) == m.rid[1] = c /\ m.rid[2] = i /\ m.try = attempt[c]
WritesOnce ==
  \A c \in Calls : \A i \in Members(c) :
    /\ job[c][i] = "todo" => \A m \in frames \cup replies : ~ Of(m, c, i)
    /\ job[c][i] = "reading" =>
         /\ \A f \in frames : Of(f, c, i) => f.op = "read"
         /\ \A r \in replies : Of(r, c, i) => r.step = "reading"

(* The last report of a device tells the level of its relay, and so does   *)
(* every answer after it; once it has no report under way, what it said    *)
(* last holds of one of its gangs.                                         *)
IsAnswer(s, k) == s[k].rid # <<>>
Quiet(s) == \A k \in 1 .. Len(s) : IsAnswer(s, k)
Told(s, now) ==
  \A k \in 1 .. Len(s) :
    (\A m \in 1 .. Len(s) : m > k => IsAnswer(s, m)) => s[k].level = now[s[k].relay]
SoOf(d, level) == \E r \in Gangs(d) : real[r] = level
Heard ==
  \A d \in Devices :
    /\ Told(says[d], real)
    /\ Quiet(says[d]) /\ d \notin missed => states[d] = Unknown \/ SoOf(d, states[d])

(* A member whose command the device has not answered for yet.             *)
Owes(c, i, level) ==
  /\ job[c][i] = "setting" /\ inbox[c][i] # "delivered"
  /\ \A f \in frames : Of(f, c, i) /\ f.op # "read" => f.op = level
  /\ \A r \in replies : Of(r, c, i) => r.what # "delivered"

(* What is expected of a quiet device is so of a gang of it, or a command  *)
(* for it still owes the answer.                                           *)
Backed(d, level) ==
  \/ SoOf(d, level)
  \/ \E c \in Calls : \E i \in Members(c) : Device(c, i) = d /\ Owes(c, i, level)
Believed ==
  \A d \in Devices \ (missed \cup echoed \cup unproven) :
    Quiet(says[d]) /\ expected[d] # None => Backed(d, expected[d])

(* A tap that began when its device had been heard to the end has seen     *)
(* every level that the device has, has told, and is telling.              *)
Open == {"sending", "confirming"}
Witness(c) ==
  LET d == Device(c, 1)
  IN  /\ \A r \in Gangs(d) : real[r] \in had[c]
      /\ \A k \in 1 .. Len(says[d]) : says[d][k].level \in had[c]
      /\ states[d] = Unknown \/ states[d] \in had[c]
Witnessed ==
  \A c \in sure : phase[c] # "idle" /\ (phase[c] \in Open => Witness(c))

IInv == Typed /\ Sent /\ Shape /\ WritesOnce /\ GroupProven /\ ConfirmedIsTrue
          /\ Heard /\ Believed /\ Witnessed

(***************************************************************************)
(* What the steps of a worker do, member by member: it asks its device for *)
(* its level, commands it, or is done with it.                             *)
(***************************************************************************)
Replaces(t, u, S, c, i, x) ==
  /\ PerMember(u, S)
  /\ \A b \in Calls : \A j \in Members(b) :
       u[b][j] = IF b = c /\ j = i THEN x ELSE t[b][j]
JobBecomes(c, i, x) == Replaces(job, job', Jobs, c, i, x)
InboxCleared(c, i) == Replaces(inbox, inbox', Answers, c, i, None)
WorkerOnly == UNCHANGED <<states, phase, action, attempt, replies, says, real,
                          hub, presses, history>>

Asks(c, i) ==
  /\ job[c][i] = "todo" /\ phase[c] # "idle" /\ action[c] = "toggle"
  /\ JobBecomes(c, i, "reading") /\ InboxCleared(c, i)
  /\ frames' = frames \cup {Frame(c, i, "read")}
  /\ UNCHANGED <<expected, unproven>> /\ WorkerOnly
Commands(c, i, level) ==
  /\ job[c][i] \in {"todo", "reading"} /\ phase[c] # "idle"
  /\ level \in Levels /\ (action[c] # "toggle" => level = action[c])
  /\ JobBecomes(c, i, "setting") /\ InboxCleared(c, i)
  /\ frames' = frames \cup {Frame(c, i, level)}
  /\ expected' = [expected EXCEPT ![Device(c, i)] = level]
  /\ UNCHANGED unproven /\ WorkerOnly
Ends(c, i, status) ==
  /\ job[c][i] \in {"todo"} \cup Running /\ phase[c] # "idle"
  /\ status \in Statuses
  /\ JobBecomes(c, i, status) /\ InboxCleared(c, i)
  /\ status \in Success =>
       /\ job[c][i] = "setting"
       /\ \/ inbox[c][i] = "delivered" /\ i \in acted[c]
          \/ coordinator = "old" /\ Device(c, i) \in unproven'
  /\ unproven' \in {unproven, unproven \cup {Device(c, i)}}
  /\ status \notin Success /\ job[c][i] = "setting" =>
       expected' = [expected EXCEPT ![Device(c, i)] = None]
  /\ expected' \in {expected, [expected EXCEPT ![Device(c, i)] = None]}
  /\ UNCHANGED frames /\ WorkerOnly

(* The worst result of a group is one of the statuses.                     *)
LEMMA RankRange == Range(Rank) = Statuses
BY DEF Range, Rank, Statuses

(* Every member is a relay of a device.                                    *)
LEMMA TargetType ==
  ASSUME NEW c \in Calls, NEW i \in Members(c)
  PROVE  Targets[c][i] \in Relays /\ Device(c, i) \in Devices /\ i \in Nat
<1>1. Targets[c][i] \in Relays /\ i \in Nat
  BY CallsAssumption, ElementOfSeq, LenProperties DEF Members
<1>2. QED
  BY <1>1, CallsAssumption DEF Device

(* A call has a member.                                                    *)
LEMMA FirstMember == \A c \in Calls : 1 \in Members(c)
BY CallsAssumption, EmptySeq, LenProperties DEF Members

(* One entry of a table is replaced.                                       *)
EntrySet(t, u, c, i, x) == u = [t EXCEPT ![c][i] = x]
LEMMA EntryReplaced ==
  ASSUME NEW S, NEW t, PerMember(t, S),
         NEW c \in Calls, NEW i \in Members(c), NEW x \in S,
         NEW u, EntrySet(t, u, c, i, x)
  PROVE  Replaces(t, u, S, c, i, x)
<1> DEFINE row == [t[c] EXCEPT ![i] = x]
<1>1. u = [t EXCEPT ![c] = row]
  BY DEF EntrySet
<1>2. row \in [Members(c) -> S]
      /\ \A j \in Members(c) : row[j] = IF j = i THEN x ELSE t[c][j]
  BY DEF PerMember
<1> HIDE DEF row
<1>3. \A b \in Calls : u[b] = IF b = c THEN row ELSE t[b]
  BY <1>1 DEF PerMember, Tables
<1>4. PerMember(u, S)
  BY <1>1, <1>2, <1>3 DEF PerMember, Tables
<1>5. QED
  BY <1>2, <1>3, <1>4 DEF Replaces

(* The same of the two tables of the gateway.                              *)
LEMMA TableSteps ==
  ASSUME Typed, NEW c \in Calls, NEW i \in Members(c)
  PROVE  /\ \A x \in Jobs : job' = [job EXCEPT ![c][i] = x] => JobBecomes(c, i, x)
         /\ inbox' = [inbox EXCEPT ![c][i] = None] => InboxCleared(c, i)
<1>1. ASSUME NEW x \in Jobs, job' = [job EXCEPT ![c][i] = x]
      PROVE  JobBecomes(c, i, x)
  <2>1. PerMember(job, Jobs) /\ EntrySet(job, job', c, i, x)
    BY <1>1 DEF Typed, EntrySet
  <2>2. QED
    BY <2>1, EntryReplaced DEF JobBecomes
<1>2. ASSUME inbox' = [inbox EXCEPT ![c][i] = None]
      PROVE  InboxCleared(c, i)
  <2>1. /\ PerMember(inbox, Answers) /\ None \in Answers
        /\ EntrySet(inbox, inbox', c, i, None)
    BY <1>2 DEF Typed, EntrySet, Answers
  <2>2. QED
    BY <2>1, EntryReplaced DEF InboxCleared
<1>3. QED
  BY <1>1, <1>2

(* A write to the link: the command is under way, or the link is dead.     *)
LEMMA WriteEffect ==
  ASSUME Typed, NEW c \in Calls, NEW i \in Members(c), NEW step \in Running,
         NEW op, Write(c, i, step, op)
  PROVE  /\ InboxCleared(c, i)
         /\ \/ JobBecomes(c, i, step) /\ frames' = frames \cup {Frame(c, i, op)}
            \/ JobBecomes(c, i, "error") /\ UNCHANGED frames
BY TableSteps DEF Write, Statuses, Jobs

(* The word for a level: the belief is set before the write, and taken     *)
(* back when the link is dead.                                             *)
LEMMA SetEffect ==
  ASSUME Typed, NEW c \in Calls, NEW i \in Members(c), NEW level \in Levels,
         job[c][i] \in {"todo", "reading"}, phase[c] # "idle",
         action[c] # "toggle" => level = action[c],
         Set(c, i, level), UNCHANGED unproven, WorkerOnly
  PROVE  Commands(c, i, level) \/ Ends(c, i, "error")
<1>1. /\ InboxCleared(c, i)
      /\ \/ JobBecomes(c, i, "setting") /\ frames' = frames \cup {Frame(c, i, level)}
         \/ JobBecomes(c, i, "error") /\ UNCHANGED frames
  BY WriteEffect DEF Set, Running
<1>2. CASE JobBecomes(c, i, "setting") /\ frames' = frames \cup {Frame(c, i, level)}
  <2>1. job'[c][i] = "setting"
    BY <1>2 DEF JobBecomes, Replaces
  <2>2. QED
    BY <1>1, <1>2, <2>1 DEF Set, Commands
<1>3. CASE JobBecomes(c, i, "error") /\ UNCHANGED frames
  <2>1. job'[c][i] = "error"
    BY <1>3 DEF JobBecomes, Replaces
  <2>2. QED
    BY <1>1, <1>3, <2>1 DEF Set, Ends, Statuses, Success, Running
<1>4. QED
  BY <1>1, <1>2, <1>3

(* A worker that takes a member asks, commands, or gives up on it.         *)
LEMMA TakeEffect ==
  ASSUME Typed, Shape, NEW c \in Calls, NEW i \in Members(c), Take(c, i)
  PROVE  Asks(c, i) \/ Ends(c, i, "error")
           \/ \E level \in Levels : Commands(c, i, level)
<1>1. job[c][i] = "todo" /\ phase[c] # "idle" /\ UNCHANGED unproven /\ WorkerOnly
  BY DEF Take, WorkerOnly
<1>2. action[c] \in Levels \cup {"toggle"}
  BY <1>1 DEF Typed, Shape, CallShape
<1>3. CASE action[c] # "toggle"
  <2>1. Set(c, i, action[c]) /\ action[c] \in Levels
    BY <1>2, <1>3 DEF Take
  <2>2. QED
    BY <1>1, <2>1, SetEffect
<1>4. CASE action[c] = "toggle" /\ states[Device(c, i)] # Unknown
  <2> DEFINE level == Other(states[Device(c, i)])
  <2>1. Set(c, i, level)
    BY <1>4 DEF Take
  <2>2. level \in Levels
    BY DEF Other, Levels
  <2> HIDE DEF level
  <2>3. QED
    BY <1>1, <1>4, <2>1, <2>2, SetEffect
<1>5. CASE action[c] = "toggle" /\ states[Device(c, i)] = Unknown
  <2>1. Write(c, i, "reading", "read") /\ UNCHANGED <<expected, unproven>>
    BY <1>5 DEF Take
  <2>2. /\ InboxCleared(c, i)
        /\ \/ JobBecomes(c, i, "reading") /\ frames' = frames \cup {Frame(c, i, "read")}
           \/ JobBecomes(c, i, "error") /\ UNCHANGED frames
    BY <2>1, WriteEffect DEF Running
  <2>3. QED
    BY <1>1, <1>5, <2>1, <2>2 DEF Asks, Ends, Statuses, Success
<1>6. QED
  BY <1>3, <1>4, <1>5

(* An answer ends the member, or a read leads to the command.              *)
LEMMA ReturnsEffect ==
  ASSUME Typed, Shape, NEW c \in Calls, NEW i \in Members(c), Returns(c, i)
  PROVE  \/ \E status \in Statuses : Ends(c, i, status)
         \/ \E level \in Levels : Commands(c, i, level)
<1> DEFINE status == AckStatus(inbox[c][i])
<1>1. /\ job[c][i] \in Running /\ inbox[c][i] # None /\ WorkerOnly
      /\ MemberShape(c, i)
  BY DEF Returns, Shape, WorkerOnly
<1>2. job[c][i] # "todo"
  BY <1>1 DEF Running
<1>3. phase[c] # "idle"
  BY <1>1, <1>2 DEF MemberShape
<1>4. CASE job[c][i] = "reading" /\ status \in Success
  <2> DEFINE level == Other(IF inbox[c][i] = "on" THEN "on" ELSE "off")
  <2>1. Set(c, i, level) /\ UNCHANGED unproven
    BY <1>4 DEF Returns
  <2>2. level \in Levels
    BY DEF Other, Levels
  <2>3. action[c] = "toggle"
    BY <1>1, <1>4 DEF MemberShape
  <2> HIDE DEF level, status
  <2>4. Commands(c, i, level) \/ Ends(c, i, "error")
    BY <1>1, <1>3, <1>4, <2>1, <2>2, <2>3, SetEffect
  <2>5. QED
    BY <2>2, <2>4 DEF Statuses
<1>5. CASE ~ (job[c][i] = "reading" /\ status \in Success)
  <2>1. /\ job' = [job EXCEPT ![c][i] = status]
        /\ expected' = IF status \in Success THEN expected ELSE Doubted(c, i)
        /\ unproven' = IF status = "sent_to_zigbee" THEN unproven \cup {Device(c, i)}
                       ELSE unproven
        /\ inbox' = [inbox EXCEPT ![c][i] = None]
        /\ UNCHANGED frames
    BY <1>5 DEF Returns
  <2>2. status \in Statuses
    BY DEF AckStatus, Statuses
  <2>3. status \in Success =>
          /\ job[c][i] = "setting"
          /\ \/ inbox[c][i] = "delivered" /\ i \in acted[c]
             \/ coordinator = "old" /\ status = "sent_to_zigbee"
    <3> SUFFICES ASSUME status \in Success
                 PROVE  /\ job[c][i] = "setting"
                        /\ \/ inbox[c][i] = "delivered" /\ i \in acted[c]
                           \/ coordinator = "old" /\ status = "sent_to_zigbee"
      OBVIOUS
    <3>1. job[c][i] = "setting"
      BY <1>1, <1>5 DEF Running
    <3>2. inbox[c][i] # "failed"
      BY DEF AckStatus, Success, Levels
    <3>3. inbox[c][i] = "accepted" => status = "sent_to_zigbee"
      BY DEF AckStatus, Success, Levels
    <3>4. QED
      BY <1>1, <3>1, <3>2, <3>3 DEF MemberShape
  <2> HIDE DEF status
  <2>4. JobBecomes(c, i, status)
    BY <2>1, <2>2, TableSteps DEF Jobs
  <2>5. InboxCleared(c, i)
    BY <2>1, TableSteps
  <2>6. Ends(c, i, status)
    BY <1>1, <1>3, <2>1, <2>2, <2>3, <2>4, <2>5 DEF Ends, Doubted
  <2>7. QED
    BY <2>2, <2>6
<1>6. QED
  BY <1>4, <1>5

(* A timeout ends the member.                                              *)
LEMMA TimesOutEffect ==
  ASSUME Typed, Shape, NEW c \in Calls, NEW i \in Members(c), TimesOut(c, i)
  PROVE  Ends(c, i, "timeout")
<1>1. job[c][i] \in Running /\ WorkerOnly /\ MemberShape(c, i)
  BY DEF TimesOut, Shape, WorkerOnly, wire
<1>2. phase[c] # "idle"
  BY <1>1 DEF MemberShape, Running
<1>3. JobBecomes(c, i, "timeout")
  BY TableSteps DEF TimesOut, Statuses, Jobs
<1>4. InboxCleared(c, i)
  BY TableSteps DEF TimesOut
<1>5. QED
  BY <1>1, <1>2, <1>3, <1>4
     DEF TimesOut, Ends, Doubted, Statuses, Success, wire

(* A fresh attempt: every member is to do, or unknown to the registry.     *)
Tried(c) ==
  /\ PerMember(job', Jobs)
  /\ \A b \in Calls : attempt'[b] = IF b = c THEN attempt[c] + 1 ELSE attempt[b]
  /\ \A b \in Calls : \A j \in Members(b) :
       IF b = c THEN job'[b][j] \in {"todo", "error"} ELSE job'[b][j] = job[b][j]

RowSet(t, u, c, row) == u = [t EXCEPT ![c] = row]
LEMMA RowReplaced ==
  ASSUME NEW S, NEW t, PerMember(t, S),
         NEW c \in Calls, NEW row \in [Members(c) -> S],
         NEW u, RowSet(t, u, c, row)
  PROVE  PerMember(u, S) /\ \A b \in Calls : u[b] = IF b = c THEN row ELSE t[b]
BY DEF PerMember, Tables, RowSet

(* An attempt starts with all its members undone, or refused.              *)
LEMMA TryEffect ==
  ASSUME Typed, NEW c \in Calls, Try(c)
  PROVE  Tried(c)
<1> DEFINE row == [i \in Members(c) |-> IF \A j \in Members(c) : Device(c, j) \in registered
                                       THEN "todo" ELSE "error"]
<1>1. /\ row \in [Members(c) -> Jobs]
      /\ \A i \in Members(c) : row[i] \in {"todo", "error"}
  BY DEF Jobs, Statuses
<1>2. RowSet(job, job', c, row) /\ PerMember(job, Jobs)
  BY DEF Try, RowSet, Typed
<1>3. \A b \in Calls : attempt'[b] = IF b = c THEN attempt[c] + 1 ELSE attempt[b]
  BY DEF Try, Typed
<1> HIDE DEF row
<1>4. PerMember(job', Jobs) /\ \A b \in Calls : job'[b] = IF b = c THEN row ELSE job[b]
  BY <1>1, <1>2, RowReplaced
<1>5. QED
  BY <1>1, <1>3, <1>4 DEF Tried

(* An answer is taken by the member that awaits it, and by nobody else.    *)
LEMMA TakesEffect ==
  ASSUME Typed, NEW rid \in Rids, NEW try, NEW step, NEW what \in Answers,
         Takes(rid, try, step, what)
  PROVE  LET c == rid[1]
             i == rid[2]
         IN  \/ /\ job[c][i] = step
                /\ Replaces(inbox, inbox', Answers, c, i, what)
                /\ echoed' = IF try # attempt[c] THEN echoed \cup {Device(c, i)}
                             ELSE echoed
             \/ job[c][i] # step /\ UNCHANGED <<inbox, echoed>>
<1> DEFINE c == rid[1]
           i == rid[2]
<1>1. c \in Calls /\ i \in Members(c)
  BY DEF Rids
<1>2. CASE job[c][i] = step
  <2>1. EntrySet(inbox, inbox', c, i, what) /\ PerMember(inbox, Answers)
    BY <1>2 DEF Takes, EntrySet, Typed
  <2>2. Replaces(inbox, inbox', Answers, c, i, what)
    BY <1>1, <2>1, EntryReplaced
  <2>3. QED
    BY <1>2, <2>2 DEF Takes
<1>3. CASE job[c][i] # step
  BY <1>3 DEF Takes
<1>4. QED
  BY <1>2, <1>3

(* A reply resolves the id that is pending, or nothing.                    *)
LEMMA TakesTyped ==
  ASSUME Typed, NEW rid \in Rids, NEW try, NEW step, NEW what \in Answers,
         Takes(rid, try, step, what)
  PROVE  PerMember(inbox', Answers) /\ echoed' \subseteq Devices
<1> DEFINE c == rid[1]
           i == rid[2]
<1>1. Device(c, i) \in Devices
  BY TargetType DEF Rids
<1>2. \/ /\ Replaces(inbox, inbox', Answers, c, i, what)
         /\ echoed' \in {echoed, echoed \cup {Device(c, i)}}
      \/ UNCHANGED <<inbox, echoed>>
  BY TakesEffect
<1> HIDE DEF c, i
<1>3. PerMember(inbox', Answers)
  BY <1>2 DEF Replaces, Typed
<1>4. QED
  BY <1>1, <1>2, <1>3 DEF Typed

(* What a device says is appended, and taken from the front.               *)
LEMMA WordAppended ==
  ASSUME NEW s \in Seq(Words), NEW w \in Words
  PROVE  /\ Append(s, w) \in Seq(Words)
         /\ Len(s) \in Nat /\ Len(Append(s, w)) = Len(s) + 1
         /\ \A k \in 1 .. Len(s) : Append(s, w)[k] = s[k]
         /\ Append(s, w)[Len(s) + 1] = w
BY AppendProperties, LenProperties

(* The oldest word of a device is read.                                    *)
LEMMA WordTaken ==
  ASSUME NEW s \in Seq(Words), s # <<>>
  PROVE  /\ Tail(s) \in Seq(Words)
         /\ Len(s) \in Nat \ {0} /\ Len(Tail(s)) = Len(s) - 1
         /\ \A k \in 1 .. Len(s) - 1 : Tail(s)[k] = s[k + 1]
         /\ Head(s) = s[1] /\ Head(s) \in Words
BY HeadTailProperties, LenProperties, EmptySeq, ElementOfSeq

(***************************************************************************)
(* Types.                                                                  *)
(***************************************************************************)
LEMMA InitInvariant == Init => IInv
<1> SUFFICES ASSUME Init PROVE IInv
  OBVIOUS
<1>1. PerMember(job, Jobs) /\ PerMember(inbox, Answers)
  BY DEF Init, PerMember, Tables, Jobs, Answers
<1>2. says \in [Devices -> Seq(Words)]
  BY EmptySeq DEF Init
<1>3. Typed
  BY <1>1, <1>2, LimitsAssumption DEF Init, Typed, Phases, Levels, Unknown, None
<1>4. \A d \in Devices : Len(says[d]) = 0
  BY EmptySeq DEF Init
<1>5. Sent
  BY <1>4 DEF Init, Sent, SentFrames, SentReplies, SentWords
<1>6. Shape
  <2>1. \A c \in Calls : CallShape(c)
    BY DEF Init, CallShape
  <2>2. ASSUME NEW c \in Calls, NEW i \in Members(c) PROVE MemberShape(c, i)
    <3>1. job[c][i] = "todo" /\ inbox[c][i] = None
      BY DEF Init
    <3>2. QED
      BY <3>1 DEF MemberShape, Success, Running
  <2>3. QED
    BY <2>1, <2>2 DEF Shape
<1>7. WritesOnce
  <2>1. \A c \in Calls : \A i \in Members(c) : job[c][i] = "todo"
    BY DEF Init
  <2>2. QED
    BY <2>1 DEF Init, WritesOnce
<1>8. GroupProven /\ ConfirmedIsTrue /\ Witnessed
  BY DEF Init, GroupProven, ConfirmedIsTrue, Witnessed
<1>9. Heard
  BY <1>4 DEF Init, Heard, Told
<1>10. Believed
  BY DEF Init, Believed
<1>11. QED
  BY <1>3, <1>5, <1>6, <1>7, <1>8, <1>9, <1>10 DEF IInv

(* Levels are no other answers.                                            *)
LEMMA LevelTypes ==
  Levels \subseteq Answers /\ None \in Answers /\ None \notin Levels
    /\ Unknown \notin Levels
    /\ None # "delivered" /\ None # "failed" /\ None # "accepted"
BY DEF Levels, Answers, None, Unknown

(* Whose frame it is.                                                     *)
LEMMA FrameType ==
  ASSUME Typed, SentFrames, NEW f \in frames
  PROVE  /\ f.rid \in Rids /\ f.rid[1] \in Calls /\ f.rid[2] \in Members(f.rid[1])
         /\ f.rid # <<>> /\ f.try \in Nat /\ f.op \in Levels \cup {"read"} /\ f \in Frames
         /\ f.relay = Targets[f.rid[1]][f.rid[2]] /\ f.relay \in Relays
         /\ DeviceOf[f.relay] = Device(f.rid[1], f.rid[2]) /\ DeviceOf[f.relay] \in Devices
         /\ f.relay \in Gangs(DeviceOf[f.relay])
<1>1. f \in Frames /\ SentBy(f) /\ f.relay = Targets[f.rid[1]][f.rid[2]]
  BY DEF SentFrames
<1>2. f.rid \in Rids /\ f.rid[1] \in Calls /\ f.rid[2] \in Members(f.rid[1])
  BY <1>1 DEF SentBy, Rids
<1>3. f.try \in Nat /\ f.op \in Levels \cup {"read"} /\ f.relay \in Relays
  BY <1>1 DEF Frames
<1>4. DeviceOf[f.relay] = Device(f.rid[1], f.rid[2]) /\ DeviceOf[f.relay] \in Devices
  BY <1>1, <1>2, <1>3, CallsAssumption DEF Device
<1>5. f.rid # <<>> /\ f.relay \in Gangs(DeviceOf[f.relay])
  BY <1>2, <1>3 DEF Rids, Gangs
<1>6. QED
  BY <1>1, <1>2, <1>3, <1>4, <1>5

(* What a relay does is told in the name of its device.                    *)
LEMMA GangType ==
  ASSUME NEW r \in Relays
  PROVE  DeviceOf[r] \in Devices /\ r \in Gangs(DeviceOf[r])
BY CallsAssumption DEF Gangs

(* A coordinator that proves no deliveries says that it accepted, once.    *)
Same(g, f) == g.rid = f.rid /\ g.try = f.try /\ g.relay = f.relay /\ g.op = f.op
Accepted(f) ==
  /\ coordinator = "old" /\ f.op # "read"
  /\ \E g \in Frames : Same(g, f) /\ frames' \subseteq frames \cup {g}
  /\ \E r : /\ r.rid = f.rid /\ r.try = f.try /\ r.step = "setting" /\ r.what = "accepted"
           /\ replies' = replies \cup {r}
  /\ UNCHANGED <<belief, calls, says, world, history>>
LEMMA AcceptsEffect ==
  ASSUME Typed, SentFrames, NEW f \in frames, Accepts(f)
  PROVE  Accepted(f)
<1> DEFINE g == [f EXCEPT !.open = FALSE]
           r == Reply(f, "accepted")
<1>1. f \in Frames
  BY FrameType
<1>2. g \in Frames /\ Same(g, f)
  BY <1>1 DEF Frames, Same
<1>3. f.op # "read"
  BY DEF Accepts, Levels
<1>4. r.rid = f.rid /\ r.try = f.try /\ r.step = "setting" /\ r.what = "accepted"
  BY <1>3 DEF Reply
<1>5. /\ frames' \subseteq frames \cup {g} /\ replies' = replies \cup {r}
      /\ coordinator = "old" /\ UNCHANGED <<belief, calls, says, world, history>>
  BY DEF Accepts
<1> HIDE DEF g, r
<1>6. QED
  BY <1>2, <1>3, <1>4, <1>5 DEF Accepted

(* Every step keeps the types.                                             *)
LEMMA NextTyped ==
  ASSUME Typed, Sent, Shape, [Next]_vars
  PROVE  Typed'
<1> USE LevelTypes
<1>1. ASSUME NEW c \in Calls, Begin(c) PROVE Typed'
  <2>1. Tried(c) /\ attempt[c] = 0 /\ "sending" \in Phases
    BY <1>1, TryEffect DEF Begin, Shape, CallShape, Phases
  <2>2. attempt' \in [Calls -> 0 .. MaxAttempts]
    BY <1>1, <2>1, LimitsAssumption DEF Begin, Try, Typed
  <2>3. action' \in [Calls -> Levels \cup {"toggle", None}]
    <3>1. PICK a \in Actions[c] : action' = [action EXCEPT ![c] = a]
      BY <1>1 DEF Begin
    <3>2. a \in Levels \cup {"toggle"}
      BY CallsAssumption
    <3>3. QED
      BY <3>1, <3>2 DEF Typed
  <2>4. had' \in [Calls -> SUBSET Levels] /\ sure' \subseteq Confirming
    <3>1. {real[r] : r \in Gangs(Device(c, 1))} \subseteq Levels
      BY DEF Gangs, Typed
    <3>2. CASE c \in Confirming
      <4>1. had' = [had EXCEPT ![c] = {real[r] : r \in Gangs(Device(c, 1))}]
        BY <1>1, <3>2 DEF Begin
      <4>2. sure' \subseteq sure \cup {c}
        BY <1>1, <3>2 DEF Begin
      <4>3. QED
        BY <3>1, <3>2, <4>1, <4>2 DEF Typed
    <3>3. CASE c \notin Confirming
      BY <1>1, <3>3 DEF Begin, Typed
    <3>4. QED
      BY <3>2, <3>3
  <2>5. QED
    BY <1>1, <2>1, <2>2, <2>3, <2>4 DEF Begin, Typed, Tried, belief, wire, world, hub
<1>2. ASSUME NEW c \in Calls, Executed(c) \/ Confirmed(c) \/ Unconfirmed(c)
      PROVE  Typed'
  <2>1. phase' \in [Calls -> Phases]
    BY <1>2 DEF Executed, Confirmed, Unconfirmed, Typed, Phases
  <2>2. UNCHANGED <<belief, action, attempt, job, inbox, wire, world, history>>
    BY <1>2 DEF Executed, Confirmed, Unconfirmed
  <2>3. QED
    BY <2>1, <2>2 DEF Typed, belief, wire, world, hub, history
<1>3. ASSUME NEW c \in Calls, Retry(c) PROVE Typed'
  <2>1. UNCHANGED <<belief, action, inbox, wire, world, history>>
    BY <1>3 DEF Retry
  <2>2. CASE attempt[c] < MaxAttempts
    <3>1. Try(c) /\ Tried(c) /\ UNCHANGED phase
      BY <1>3, <2>2, TryEffect DEF Retry
    <3>2. attempt' \in [Calls -> 0 .. MaxAttempts]
      BY <2>2, <3>1, LimitsAssumption DEF Try, Typed
    <3>3. QED
      BY <2>1, <3>1, <3>2 DEF Typed, Tried, belief, wire, world, hub, history
  <2>3. CASE ~ (attempt[c] < MaxAttempts)
    <3>1. phase' \in [Calls -> Phases] /\ UNCHANGED <<attempt, job>>
      BY <1>3, <2>3 DEF Retry, Typed, Phases
    <3>2. QED
      BY <2>1, <3>1 DEF Typed, belief, wire, world, hub, history
  <2>4. QED
    BY <2>2, <2>3
<1>4. ASSUME NEW c \in Calls, NEW i \in Members(c),
             Take(c, i) \/ Returns(c, i) \/ TimesOut(c, i)
      PROVE  Typed'
  <2>1. \/ Asks(c, i)
        \/ \E level \in Levels : Commands(c, i, level)
        \/ \E status \in Statuses : Ends(c, i, status)
    BY <1>4, TakeEffect, ReturnsEffect, TimesOutEffect DEF Statuses
  <2>2. \E x : JobBecomes(c, i, x) /\ InboxCleared(c, i) /\ WorkerOnly
    BY <2>1 DEF Asks, Commands, Ends
  <2>3. PerMember(job', Jobs) /\ PerMember(inbox', Answers)
    BY <2>2 DEF JobBecomes, InboxCleared, Replaces
  <2>4. expected' \in [Devices -> Levels \cup {None}] /\ unproven' \subseteq Devices
    BY <2>1, TargetType DEF Asks, Commands, Ends, Typed
  <2>5. QED
    BY <2>2, <2>3, <2>4 DEF WorkerOnly, Typed, hub, history
<1>5. ASSUME NEW f \in frames, Acts(f) PROVE Typed'
  <2> DEFINE d == DeviceOf[f.relay]
             w == Report(f.relay, f.op)
  <2>1. /\ f.relay \in Relays /\ d \in Devices /\ f.op \in Levels
        /\ f.rid[1] \in Calls /\ f.rid[2] \in Nat
    BY <1>5, FrameType, TargetType DEF Acts, Sent
  <2>2. w \in Words
    BY <2>1 DEF Report, Words
  <2>3. says' = says \/ says' = [says EXCEPT ![d] = Append(@, w)]
    BY <1>5 DEF Acts
  <2> HIDE DEF w, d
  <2>4. Append(says[d], w) \in Seq(Words)
    BY <2>1, <2>2, WordAppended DEF Typed
  <2>5. says' \in [Devices -> Seq(Words)]
    BY <2>1, <2>3, <2>4 DEF Typed
  <2>6. real' \in [Relays -> Levels] /\ had' \in [Calls -> SUBSET Levels]
    BY <1>5, <2>1 DEF Acts, Becomes, Typed
  <2>7. acted' \in [Calls -> SUBSET Nat]
    BY <1>5, <2>1 DEF Acts, Typed
  <2>8. QED
    BY <1>5, <2>5, <2>6, <2>7 DEF Acts, Typed, belief, calls, hub
<1>6. ASSUME NEW f \in frames, AnswersRead(f) PROVE Typed'
  <2> DEFINE d == DeviceOf[f.relay]
             w == [relay |-> f.relay, level |-> real[f.relay], rid |-> f.rid, try |-> f.try]
  <2>1. f.relay \in Relays /\ d \in Devices /\ f.rid \in Rids /\ f.try \in Nat
    BY FrameType DEF Sent
  <2>2. w \in Words
    BY <2>1 DEF Words, Typed
  <2>3. says' = [says EXCEPT ![d] = Append(@, w)]
    BY <1>6 DEF AnswersRead
  <2> HIDE DEF w, d
  <2>4. Append(says[d], w) \in Seq(Words)
    BY <2>1, <2>2, WordAppended DEF Typed
  <2>5. says' \in [Devices -> Seq(Words)]
    BY <2>1, <2>3, <2>4 DEF Typed
  <2>6. QED
    BY <1>6, <2>5 DEF AnswersRead, Typed, belief, calls, world, hub, history
<1>7. ASSUME NEW f \in frames, Fails(f) PROVE Typed'
  BY <1>7 DEF Fails, Typed, belief, calls, hub, history
<1>8. ASSUME NEW r \in replies, ReplyArrives(r) PROVE Typed'
  <2>1. r.rid \in Rids /\ r.what \in Answers
    BY <1>8 DEF Sent, SentReplies, SentBy, Answers
  <2>2. Takes(r.rid, r.try, r.step, r.what)
    BY <1>8 DEF ReplyArrives
  <2>3. PerMember(inbox', Answers) /\ echoed' \subseteq Devices
    BY <2>1, <2>2, TakesTyped
  <2>4. QED
    BY <1>8, <2>3 DEF ReplyArrives, Typed, belief, world, hub
<1>9. ASSUME NEW r \in Relays, WallSwitch(r) PROVE Typed'
  <2> DEFINE d == DeviceOf[r]
             w == Report(r, Other(real[r]))
  <2>1. Other(real[r]) \in Levels /\ d \in Devices
    BY GangType DEF Other, Levels
  <2>2. w \in Words
    BY <2>1 DEF Report, Words
  <2>3. says' = [says EXCEPT ![d] = Append(@, w)]
    BY <1>9 DEF WallSwitch
  <2> HIDE DEF w, d
  <2>4. Append(says[d], w) \in Seq(Words)
    BY <2>1, <2>2, WordAppended DEF Typed
  <2>5. says' \in [Devices -> Seq(Words)]
    BY <2>1, <2>3, <2>4 DEF Typed
  <2>6. real' \in [Relays -> Levels] /\ had' \in [Calls -> SUBSET Levels]
    BY <1>9, <2>1 DEF WallSwitch, Becomes, Typed
  <2>7. QED
    BY <1>9, <2>5, <2>6 DEF WallSwitch, Typed, belief, calls, hub
<1>10. ASSUME NEW d \in Devices, says[d] # <<>>, WordArrives(d) \/ WordLost(d)
       PROVE  Typed'
  <2> DEFINE w == Head(says[d])
  <2>1. w \in Words /\ Tail(says[d]) \in Seq(Words)
    BY <1>10, WordTaken DEF Typed
  <2>2. says' \in [Devices -> Seq(Words)]
    BY <1>10, <2>1 DEF WordArrives, WordLost, Typed
  <2>3. missed' \subseteq Devices
    BY <1>10 DEF WordArrives, WordLost, Typed
  <2>4. CASE WordLost(d)
    BY <2>2, <2>3, <2>4 DEF WordLost, Typed, belief, calls, hub
  <2>5. CASE WordArrives(d)
    <3>1. \/ UNCHANGED <<inbox, echoed>>
          \/ w.rid \in Rids /\ Takes(w.rid, w.try, "reading", w.level)
      BY <2>1, <2>5 DEF WordArrives, Words
    <3>2. w.level \in Levels
      BY <2>1 DEF Words
    <3>3. /\ states' \in [Devices -> Levels \cup {Unknown}]
          /\ expected' \in [Devices -> Levels \cup {None}]
          /\ unproven' \subseteq Devices
      BY <2>5, <3>2 DEF WordArrives, OnState, Typed, belief
    <3> HIDE DEF w
    <3>4. PerMember(inbox', Answers) /\ echoed' \subseteq Devices
      BY <3>1, <3>2, TakesTyped DEF Typed
    <3>5. QED
      BY <2>2, <2>3, <2>5, <3>3, <3>4 DEF WordArrives, Typed, world, hub
  <2>6. QED
    BY <1>10, <2>4, <2>5
<1>11. ASSUME NEW d \in Devices, Forgotten(d) \/ Joins(d) PROVE Typed'
  BY <1>11 DEF Forgotten, Joins, Typed, belief, calls, wire, history
<1>12. ASSUME NEW f \in frames, Accepts(f) PROVE Typed'
  BY <1>12 DEF Accepts, Typed, belief, calls, world, hub, history
<1>13. CASE LearnCapabilities
  BY <1>13 DEF LearnCapabilities, Typed, belief, calls, wire, history
<1>14. CASE UNCHANGED vars
  BY <1>14 DEF vars, Typed, belief, calls, wire, world, hub, history
<1>15. QED
  BY <1>1, <1>2, <1>3, <1>4, <1>5, <1>6, <1>7, <1>8, <1>9, <1>10, <1>11, <1>12, <1>13, <1>14
     DEF Next, WordArrives, WordLost

(***************************************************************************)
(* What a step changes, in the words of the proofs.                        *)
(***************************************************************************)

(* A call goes on, well or badly, and nothing else moves: it only counts   *)
(* as done when every member is, and as confirmed when its level was seen. *)
EndsWell == {"executed", "confirming", "confirmed"}
Earned(c, p) ==
  /\ p \in Phases \ {"idle", "sending"}
  /\ p = "confirming" => phase[c] = "sending"
  /\ p \in {"confirming", "confirmed"} => action[c] # "toggle"
  /\ p \in EndsWell => coordinator = "old" \/ acted[c] = Members(c)
  /\ p = "confirmed" => phase[c] = "confirming" /\ states[Device(c, 1)] = action[c]
PhaseOnly(c) ==
  /\ phase[c] # "idle"
  /\ \E p \in Phases : Earned(c, p) /\ phase' = [phase EXCEPT ![c] = p]
  /\ UNCHANGED <<belief, action, attempt, job, inbox, wire, world, history>>
(* A new attempt of a call, its first or a retry.                          *)
Attempts(c) ==
  /\ Tried(c)
  /\ \/ Begin(c) /\ attempt[c] = 0
     \/ /\ \A i \in Members(c) : job[c][i] \in Statuses
        /\ phase[c] = "sending" /\ UNCHANGED <<phase, action, had, sure>>
  /\ UNCHANGED <<belief, inbox, wire, world, acted, missed, echoed>>

(* The worst member of a group that ended well is a success, and so are    *)
(* the others.                                                             *)
LEMMA WorstSpeaksForAll ==
  ASSUME Typed, NEW c \in Calls, Delivered(c), Worst(c) \in Success
  PROVE  \A i \in Members(c) : job[c][i] \in Success
<1> DEFINE found == {n \in DOMAIN Rank : \E i \in Members(c) : job[c][i] = Rank[n]}
           worst == CHOOSE n \in found : \A m \in found : n <= m
<1>1. DOMAIN Rank = 1 .. 6
  BY DEF Rank
<1>2. \A i \in Members(c) : \E n \in found : job[c][i] = Rank[n]
  BY DEF Delivered, Range
<1>3. found \subseteq 1 .. 6 /\ found # {}
  BY <1>1, <1>2, FirstMember
<1>4. Worst(c) = Rank[worst]
  BY DEF Worst
<1> HIDE DEF found
<1>5. \E n \in found : \A m \in found : n <= m
  <2>1. \A n \in found : n \in {1, 2, 3, 4, 5, 6}
    BY <1>3
  <2>2. CASE 1 \in found
    BY <2>1, <2>2
  <2>3. CASE 1 \notin found /\ 2 \in found
    BY <2>1, <2>3
  <2>4. CASE found \cap {1, 2} = {} /\ 3 \in found
    BY <2>1, <2>4
  <2>5. CASE found \cap {1, 2, 3} = {} /\ 4 \in found
    BY <2>1, <2>5
  <2>6. CASE found \cap {1, 2, 3, 4} = {}
    <3>1. \A n \in found : n \in {5, 6}
      BY <2>1, <2>6
    <3>2. CASE 5 \in found
      BY <3>1, <3>2
    <3>3. CASE 5 \notin found
      <4>1. \A n \in found : n = 6
        BY <3>1, <3>3
      <4>2. PICK n \in found : TRUE
        BY <1>3
      <4>3. \A m \in found : n <= m
        BY <4>1, <4>2
      <4>4. QED
        BY <4>3
    <3>4. QED
      BY <3>2, <3>3
  <2>7. QED
    BY <2>1, <2>2, <2>3, <2>4, <2>5, <2>6
<1>6. worst \in found /\ \A m \in found : worst <= m
  BY <1>5
<1> HIDE DEF worst
<1>7. worst \in 4 .. 6
  <2>1. \A n \in 1 .. 3 : Rank[n] \notin Success
    BY DEF Rank, Success
  <2>2. QED
    BY <1>3, <1>4, <1>6, <2>1
<1>8. \A n \in 4 .. 6 : Rank[n] \in Success
  BY DEF Rank, Success
<1>9. QED
  BY <1>2, <1>3, <1>6, <1>7, <1>8

(* The call itself begins an attempt, or ends as it has earned.            *)
LEMMA CallEffect ==
  ASSUME Typed, Shape, GroupProven, NEW c \in Calls,
         \/ Begin(c) \/ Executed(c) \/ Retry(c) \/ Confirmed(c) \/ Unconfirmed(c)
  PROVE  PhaseOnly(c) \/ Attempts(c)
<1>1. CASE Begin(c)
  BY <1>1, TryEffect DEF Begin, Attempts, Shape, CallShape
<1>2. ASSUME NEW p \in Phases, Earned(c, p), phase[c] # "idle",
             phase' = [phase EXCEPT ![c] = p],
             UNCHANGED <<belief, action, attempt, job, inbox, wire, world, history>>
      PROVE  PhaseOnly(c)
  BY <1>2 DEF PhaseOnly
<1>3. CASE Executed(c)
  <2>1. \A i \in Members(c) : job[c][i] \in Success
    BY <1>3, WorstSpeaksForAll DEF Executed
  <2>2. coordinator = "old" \/ acted[c] = Members(c)
    <3>1. coordinator = "old" \/ \A i \in Members(c) : i \in acted[c]
      BY <2>1 DEF Shape, MemberShape
    <3>2. acted[c] \subseteq Members(c)
      BY DEF Shape, CallShape
    <3>3. QED
      BY <3>1, <3>2
  <2> DEFINE p == IF c \in Confirming /\ action[c] # "toggle"
                  THEN "confirming" ELSE "executed"
  <2>3. Earned(c, p) /\ p \in Phases
    BY <1>3, <2>2 DEF Earned, Phases, Executed, Delivered
  <2>4. phase' = [phase EXCEPT ![c] = p] /\ phase[c] # "idle"
    BY <1>3 DEF Executed, Delivered
  <2> HIDE DEF p
  <2>5. QED
    BY <1>2, <1>3, <2>3, <2>4 DEF Executed
<1>4. CASE Confirmed(c)
  <2>1. (coordinator = "old" \/ acted[c] = Members(c)) /\ action[c] # "toggle"
    BY <1>4 DEF Confirmed, GroupProven, Shape, CallShape
  <2>2. Earned(c, "confirmed") /\ "confirmed" \in Phases
    BY <1>4, <2>1 DEF Earned, Phases, Confirmed
  <2>3. QED
    BY <1>2, <1>4, <2>2 DEF Confirmed
<1>5. CASE Unconfirmed(c)
  <2>1. Earned(c, "unconfirmed") /\ "unconfirmed" \in Phases
    BY DEF Earned, Phases, EndsWell
  <2>2. QED
    BY <1>2, <1>5, <2>1 DEF Unconfirmed
<1>6. CASE Retry(c)
  <2>1. phase[c] = "sending" /\ \A i \in Members(c) : job[c][i] \in Statuses
    BY <1>6, RankRange DEF Retry, Delivered
  <2>2. CASE attempt[c] < MaxAttempts
    BY <1>6, <2>1, <2>2, TryEffect DEF Retry, Attempts, history
  <2>3. CASE ~ (attempt[c] < MaxAttempts)
    <3>1. Earned(c, "failed") /\ "failed" \in Phases
      BY DEF Earned, Phases, EndsWell
    <3>2. QED
      BY <1>2, <1>6, <2>1, <2>3, <3>1 DEF Retry
  <2>4. QED
    BY <2>2, <2>3
<1>7. QED
  BY <1>1, <1>3, <1>4, <1>5, <1>6

(* Attempts are only counted up.                                           *)
LEMMA AttemptsGrow ==
  ASSUME Typed, NEW c \in Calls, Attempts(c)
  PROVE  \A b \in Calls : /\ attempt[b] \in Nat /\ attempt'[b] \in Nat
                          /\ attempt[b] <= attempt'[b]
                          /\ b = c => attempt'[b] = attempt[b] + 1
<1>1. \A b \in Calls : attempt[b] \in Nat
  BY LimitsAssumption DEF Typed
<1>2. \A b \in Calls : attempt'[b] = IF b = c THEN attempt[c] + 1 ELSE attempt[b]
  BY DEF Attempts, Tried
<1>3. QED
  BY <1>1, <1>2

(* A worker asks, commands, or ends its member.                            *)
LEMMA WorkerEffect ==
  ASSUME Typed, Shape, NEW c \in Calls, NEW i \in Members(c),
         Take(c, i) \/ Returns(c, i) \/ TimesOut(c, i)
  PROVE  \/ Asks(c, i)
         \/ \E level \in Levels : Commands(c, i, level)
         \/ \E status \in Statuses : Ends(c, i, status)
BY TakeEffect, ReturnsEffect, TimesOutEffect DEF Statuses

(* The frame of a command, or a reply to it, tells whose it is.            *)
LEMMA FrameFields ==
  ASSUME Typed, Shape, NEW c \in Calls, NEW i \in Members(c), NEW op,
         phase[c] # "idle"
  PROVE  LET f == Frame(c, i, op)
         IN  /\ SentBy(f) /\ f.rid = <<c, i>> /\ f.rid[1] = c /\ f.rid[2] = i
             /\ f.try = attempt[c] /\ f.relay = Targets[c][i] /\ f.op = op
             /\ op \in Levels \cup {"read"} => f \in Frames
<1>1. attempt[c] \in Nat /\ attempt[c] # 0
  BY LimitsAssumption DEF Typed, Shape, CallShape
<1>2. <<c, i>> \in Rids /\ Targets[c][i] \in Relays
  BY TargetType DEF Rids
<1>3. QED
  BY <1>1, <1>2 DEF Frame, SentBy, Frames

(* A reply names the frame it answers.                                     *)
LEMMA ReplyFields ==
  ASSUME NEW f, NEW what
  PROVE  LET r == Reply(f, what)
         IN  /\ r.rid = f.rid /\ r.try = f.try /\ r.what = what
             /\ r.step = IF f.op = "read" THEN "reading" ELSE "setting"
BY DEF Reply

(***************************************************************************)
(* What is under way.                                                      *)
(***************************************************************************)
LEMMA NextSentFrames ==
  ASSUME Typed, Shape, GroupProven, SentFrames, [Next]_vars
  PROVE  SentFrames'
<1>0. \A f \in frames : f.rid[1] \in Calls /\ f.rid[2] \in Members(f.rid[1])
  BY DEF SentFrames, SentBy, Rids
<1>1. ASSUME NEW c \in Calls, PhaseOnly(c) PROVE SentFrames'
  BY <1>1 DEF PhaseOnly, SentFrames, SentBy, wire
<1>2. ASSUME NEW c \in Calls, Attempts(c) PROVE SentFrames'
  <2>1. \A b \in Calls : attempt[b] \in Nat /\ attempt'[b] \in Nat /\ attempt[b] <= attempt'[b]
    BY <1>2, AttemptsGrow
  <2>2. \A f \in frames : SentBy(f)'
    BY <1>0, <2>1 DEF SentFrames, SentBy
  <2>3. \A f \in frames : action'[f.rid[1]] = action[f.rid[1]]
    <3>1. CASE UNCHANGED action
      BY <3>1
    <3>2. CASE Begin(c) /\ attempt[c] = 0
      <4>1. \A f \in frames : f.rid[1] # c
        BY <3>2 DEF SentFrames, SentBy
      <4>2. QED
        BY <1>0, <3>2, <4>1 DEF Begin, Typed
    <3>3. QED
      BY <1>2, <3>1, <3>2 DEF Attempts
  <2>4. UNCHANGED frames
    BY <1>2 DEF Attempts, wire
  <2>5. QED
    BY <2>2, <2>3, <2>4 DEF SentFrames
<1>3. ASSUME NEW c \in Calls, NEW i \in Members(c), NEW op \in Levels \cup {"read"},
             phase[c] # "idle", action[c] # "toggle" => op = action[c],
             frames' = frames \cup {Frame(c, i, op)}, UNCHANGED <<action, attempt>>
      PROVE  SentFrames'
  <2> DEFINE f == Frame(c, i, op)
  <2>1. /\ SentBy(f) /\ f.rid[1] = c /\ f.rid[2] = i
        /\ f.relay = Targets[c][i] /\ f.op = op /\ f \in Frames
    BY <1>3, FrameFields
  <2>2. frames' = frames \cup {f}
    BY <1>3
  <2> HIDE DEF f
  <2>3. QED
    BY <1>3, <2>1, <2>2 DEF SentFrames, SentBy
<1>4. ASSUME NEW c \in Calls, NEW i \in Members(c),
             Take(c, i) \/ Returns(c, i) \/ TimesOut(c, i)
      PROVE  SentFrames'
  <2>1. CASE Asks(c, i)
    BY <1>3, <2>1 DEF Asks, WorkerOnly
  <2>2. ASSUME NEW level \in Levels, Commands(c, i, level) PROVE SentFrames'
    BY <1>3, <2>2 DEF Commands, WorkerOnly
  <2>3. ASSUME NEW status \in Statuses, Ends(c, i, status) PROVE SentFrames'
    BY <2>3 DEF Ends, WorkerOnly, SentFrames, SentBy
  <2>4. QED
    BY <1>4, <2>1, <2>2, <2>3, WorkerEffect
<1>5. CASE frames' \subseteq frames /\ UNCHANGED <<action, attempt>>
  BY <1>5 DEF SentFrames, SentBy
<1>6. ASSUME NEW f \in frames, Acts(f) \/ AnswersRead(f) \/ Fails(f) PROVE SentFrames'
  BY <1>5, <1>6 DEF Acts, AnswersRead, Fails, calls
<1>7. ASSUME NEW r \in replies, ReplyArrives(r) PROVE SentFrames'
  BY <1>5, <1>7 DEF ReplyArrives
<1>8. ASSUME NEW d,
             WallSwitch(d) \/ WordArrives(d) \/ WordLost(d) \/ Forgotten(d) \/ Joins(d)
      PROVE  SentFrames'
  BY <1>5, <1>8 DEF WallSwitch, WordArrives, WordLost, Forgotten, Joins, calls, wire
<1>9. ASSUME NEW f \in frames, Accepts(f) PROVE SentFrames'
  <2>1. PICK g \in Frames : Same(g, f) /\ frames' \subseteq frames \cup {g}
    BY <1>9, AcceptsEffect DEF Accepted
  <2>2. UNCHANGED <<action, attempt>>
    BY <1>9 DEF Accepts, calls
  <2>3. QED
    BY <2>1, <2>2 DEF SentFrames, SentBy, Same
<1>10. CASE LearnCapabilities \/ UNCHANGED vars
  BY <1>5, <1>10 DEF LearnCapabilities, vars, calls, wire
<1>11. QED
  BY <1>1, <1>2, <1>4, <1>6, <1>7, <1>8, <1>9, <1>10, CallEffect DEF Next

(* The kind of the coordinator does not change: what it can do is there    *)
(* before the hub knows of it.                                             *)
LEMMA SameKind ==
  ASSUME Typed, Shape, GroupProven, [Next]_vars
  PROVE  (coordinator' = "old") <=> (coordinator = "old")
<1>1. CASE UNCHANGED coordinator
  BY <1>1
<1>2. ASSUME NEW c \in Calls, PhaseOnly(c) \/ Attempts(c) PROVE UNCHANGED coordinator
  BY <1>2 DEF PhaseOnly, Attempts, world, hub
<1>3. ASSUME NEW c \in Calls, NEW i \in Members(c),
             Take(c, i) \/ Returns(c, i) \/ TimesOut(c, i)
      PROVE  UNCHANGED coordinator
  BY <1>3, WorkerEffect DEF Asks, Commands, Ends, WorkerOnly, hub
<1>4. ASSUME NEW f \in frames, Accepts(f) \/ Acts(f) \/ AnswersRead(f) \/ Fails(f)
      PROVE  UNCHANGED coordinator
  BY <1>4 DEF Accepts, Acts, AnswersRead, Fails, world, hub
<1>5. ASSUME NEW r, ReplyArrives(r) \/ WallSwitch(r) PROVE UNCHANGED coordinator
  BY <1>5 DEF ReplyArrives, WallSwitch, world, hub
<1>6. ASSUME NEW d, WordArrives(d) \/ WordLost(d) \/ Forgotten(d) \/ Joins(d)
      PROVE  UNCHANGED coordinator
  BY <1>6 DEF WordArrives, WordLost, Forgotten, Joins, world, hub
<1>7. CASE LearnCapabilities
  BY <1>7 DEF LearnCapabilities
<1>8. CASE UNCHANGED vars
  BY <1>8 DEF vars, world, hub
<1>9. QED
  BY <1>1, <1>2, <1>3, <1>4, <1>5, <1>6, <1>7, <1>8, CallEffect DEF Next

(* Replies stay those of attempts made.                                    *)
LEMMA NextSentReplies ==
  ASSUME Typed, Shape, GroupProven, SentFrames, SentReplies, [Next]_vars
  PROVE  SentReplies'
<1>0. /\ \A f \in frames : f.rid[1] \in Calls /\ f.rid[2] \in Members(f.rid[1])
      /\ \A r \in replies : r.rid[1] \in Calls /\ r.rid[2] \in Members(r.rid[1])
  BY DEF SentFrames, SentReplies, SentBy, Rids
<1>00. (coordinator' = "old") <=> (coordinator = "old")
  BY SameKind
<1>1. CASE replies' \subseteq replies /\ UNCHANGED <<attempt, acted>>
  BY <1>00, <1>1 DEF SentReplies, SentBy
<1>2. ASSUME NEW c \in Calls, PhaseOnly(c) PROVE SentReplies'
  BY <1>1, <1>2 DEF PhaseOnly, wire, history
<1>3. ASSUME NEW c \in Calls, Attempts(c) PROVE SentReplies'
  <2>1. \A b \in Calls : attempt[b] \in Nat /\ attempt'[b] \in Nat /\ attempt[b] <= attempt'[b]
    BY <1>3, AttemptsGrow
  <2>2. \A r \in replies : SentBy(r)'
    BY <1>0, <2>1 DEF SentReplies, SentBy
  <2>3. UNCHANGED <<replies, acted>>
    BY <1>3 DEF Attempts, wire
  <2>4. QED
    BY <1>00, <2>2, <2>3 DEF SentReplies
<1>4. ASSUME NEW c \in Calls, NEW i \in Members(c),
             Take(c, i) \/ Returns(c, i) \/ TimesOut(c, i)
      PROVE  SentReplies'
  BY <1>1, <1>4, WorkerEffect DEF Asks, Commands, Ends, WorkerOnly, history
<1>5. ASSUME NEW f \in frames, Acts(f) PROVE SentReplies'
  <2> DEFINE c == f.rid[1]
             i == f.rid[2]
  <2>1. c \in Calls /\ i \in Members(c) /\ SentBy(f) /\ f.op # "read"
    BY <1>0, <1>5 DEF SentFrames, Acts, Levels
  <2>2. /\ i \in acted'[c] /\ \A b \in Calls : acted[b] \subseteq acted'[b]
        /\ UNCHANGED attempt
    BY <1>5, <2>1 DEF Acts, Typed, calls
  <2>3. PICK r : r \in {Reply(f, "delivered"), Reply(f, "failed")}
                   /\ replies' \subseteq replies \cup {r}
    BY <1>5 DEF Acts
  <2>4. /\ r.rid = f.rid /\ r.try = f.try /\ r.step = "setting"
        /\ r.what = "delivered" \/ r.what = "failed"
    BY <2>1, <2>3, ReplyFields
  <2>5. SentBy(r)'
    BY <2>1, <2>2, <2>4 DEF SentBy
  <2>6. \A q \in replies : SentBy(q)'
    BY <2>2 DEF SentBy, SentReplies
  <2>7. \A q \in replies : q.rid[2] \in acted[q.rid[1]] => q.rid[2] \in acted'[q.rid[1]]
    BY <1>0, <2>2
  <2>8. QED
    BY <1>00, <2>2, <2>3, <2>4, <2>5, <2>6, <2>7 DEF SentReplies, Running
<1>6. ASSUME NEW f \in frames, Fails(f) PROVE SentReplies'
  <2> DEFINE r == Reply(f, "failed")
  <2>1. /\ r.rid = f.rid /\ r.try = f.try /\ r.step \in Running /\ r.what = "failed"
    BY ReplyFields DEF Running
  <2>2. SentBy(f) /\ UNCHANGED <<attempt, acted>> /\ replies' \subseteq replies \cup {r}
    BY <1>6 DEF Fails, SentFrames, calls, history
  <2> HIDE DEF r
  <2>3. QED
    BY <1>00, <2>1, <2>2 DEF SentReplies, SentBy
<1>7. ASSUME NEW f \in frames, AnswersRead(f) PROVE SentReplies'
  BY <1>1, <1>7 DEF AnswersRead, calls, history
<1>8. ASSUME NEW r \in replies, ReplyArrives(r) PROVE SentReplies'
  BY <1>1, <1>8 DEF ReplyArrives
<1>9. ASSUME NEW d,
             WallSwitch(d) \/ WordArrives(d) \/ WordLost(d) \/ Forgotten(d) \/ Joins(d)
      PROVE  SentReplies'
  BY <1>1, <1>9 DEF WallSwitch, WordArrives, WordLost, Forgotten, Joins, calls,
                    wire, history
<1>10. ASSUME NEW f \in frames, Accepts(f) PROVE SentReplies'
  <2>1. PICK r : /\ r.rid = f.rid /\ r.try = f.try /\ r.step = "setting" /\ r.what = "accepted"
                 /\ replies' = replies \cup {r}
    BY <1>10, AcceptsEffect DEF Accepted
  <2>2. coordinator = "old" /\ SentBy(f) /\ UNCHANGED <<attempt, acted>>
    BY <1>10 DEF Accepts, SentFrames, calls, history
  <2>3. QED
    BY <1>00, <2>1, <2>2 DEF SentReplies, SentBy, Running
<1>11. CASE LearnCapabilities \/ UNCHANGED vars
  BY <1>1, <1>11 DEF LearnCapabilities, vars, calls, wire, history
<1>12. QED
  BY <1>2, <1>3, <1>4, <1>5, <1>6, <1>7, <1>8, <1>9, <1>10, <1>11, CallEffect DEF Next

(* The words of a device: one more at the end, or one less at the front.   *)
OwnWord(d, w) ==
  w.relay \in Gangs(d) /\ (w.rid # <<>> => Device(w.rid[1], w.rid[2]) = d)
LEMMA OtherWords ==
  ASSUME SentWords, NEW d \in Devices,
         \A e \in Devices \ {d} : says'[e] = says[e],
         \A k \in 1 .. Len(says'[d]) : OwnWord(d, says'[d][k])
  PROVE  SentWords'
<1>1. ASSUME NEW e \in Devices
      PROVE  \A k \in 1 .. Len(says'[e]) : OwnWord(e, says'[e][k])
  <2>1. CASE e = d
    BY <2>1
  <2>2. CASE e # d
    BY <2>2 DEF SentWords, OwnWord
  <2>3. QED
    BY <2>1, <2>2
<1>2. QED
  BY <1>1 DEF SentWords, OwnWord

(* Answers stay those of the device that was asked.                        *)
LEMMA NextSentWords ==
  ASSUME Typed, Shape, GroupProven, SentFrames, SentWords, [Next]_vars
  PROVE  SentWords'
<1>0. \A d \in Devices : says[d] \in Seq(Words) /\ Len(says[d]) \in Nat
  BY LenProperties DEF Typed
<1>1. CASE UNCHANGED says
  BY <1>1 DEF SentWords
<1>2. ASSUME NEW d \in Devices, NEW w \in Words, OwnWord(d, w),
             says' = [says EXCEPT ![d] = Append(@, w)]
      PROVE  SentWords'
  <2>1. \A e \in Devices : says'[e] = IF e = d THEN Append(says[d], w) ELSE says[e]
    BY <1>2 DEF Typed
  <2>2. /\ Len(says'[d]) = Len(says[d]) + 1
        /\ \A k \in 1 .. Len(says[d]) : says'[d][k] = says[d][k]
        /\ says'[d][Len(says[d]) + 1] = w
    <3> DEFINE s == says[d]
    <3>1. s \in Seq(Words) /\ says'[d] = Append(s, w)
      BY <1>0, <2>1
    <3> HIDE DEF s
    <3>2. /\ Len(Append(s, w)) = Len(s) + 1
          /\ \A k \in 1 .. Len(s) : Append(s, w)[k] = s[k]
          /\ Append(s, w)[Len(s) + 1] = w
      BY <3>1, WordAppended
    <3>3. QED
      BY <3>1, <3>2 DEF s
  <2>3. \A k \in 1 .. Len(says[d]) : OwnWord(d, says[d][k])
    BY DEF SentWords, OwnWord
  <2> DEFINE t == says'[d]
  <2> HIDE DEF t
  <2>4. \A k \in 1 .. Len(t) : OwnWord(d, t[k])
    BY <1>0, <1>2, <2>2, <2>3 DEF t
  <2>5. QED
    BY <2>1, <2>4, OtherWords DEF t
<1>3. ASSUME NEW d \in Devices, says[d] # <<>>, says' = [says EXCEPT ![d] = Tail(@)]
      PROVE  SentWords'
  <2>1. \A e \in Devices : says'[e] = IF e = d THEN Tail(says[d]) ELSE says[e]
    BY <1>3 DEF Typed
  <2>2. /\ Len(says'[d]) = Len(says[d]) - 1
        /\ \A k \in 1 .. Len(says[d]) - 1 : says'[d][k] = says[d][k + 1]
    <3> DEFINE s == says[d]
    <3>1. s \in Seq(Words) /\ s # <<>> /\ says'[d] = Tail(s)
      BY <1>0, <1>3, <2>1
    <3> HIDE DEF s
    <3>2. /\ Len(Tail(s)) = Len(s) - 1
          /\ \A k \in 1 .. Len(s) - 1 : Tail(s)[k] = s[k + 1]
      BY <3>1, WordTaken
    <3>3. QED
      BY <3>1, <3>2 DEF s
  <2>3. \A k \in 1 .. Len(says[d]) : OwnWord(d, says[d][k])
    BY DEF SentWords, OwnWord
  <2> DEFINE t == says'[d]
  <2> HIDE DEF t
  <2>4. \A k \in 1 .. Len(t) : OwnWord(d, t[k])
    BY <1>0, <2>2, <2>3 DEF t
  <2>5. QED
    BY <2>1, <2>4, OtherWords DEF t
<1>4. ASSUME NEW f \in frames, Acts(f) PROVE SentWords'
  <2> DEFINE d == DeviceOf[f.relay]
             w == Report(f.relay, f.op)
  <2>1. d \in Devices /\ f.relay \in Gangs(d) /\ f.relay \in Relays
    BY FrameType
  <2>2. w \in Words /\ OwnWord(d, w)
    BY <1>4, <2>1 DEF Acts, Report, Words, OwnWord
  <2>3. UNCHANGED says \/ says' = [says EXCEPT ![d] = Append(@, w)]
    BY <1>4 DEF Acts
  <2> HIDE DEF w, d
  <2>4. QED
    BY <1>1, <1>2, <2>1, <2>2, <2>3
<1>5. ASSUME NEW f \in frames, AnswersRead(f) PROVE SentWords'
  <2> DEFINE d == DeviceOf[f.relay]
             w == [relay |-> f.relay, level |-> real[f.relay], rid |-> f.rid, try |-> f.try]
  <2>1. /\ f.rid \in Rids /\ f.try \in Nat /\ d \in Devices /\ f.relay \in Relays
        /\ f.relay \in Gangs(d) /\ d = Device(f.rid[1], f.rid[2])
    BY FrameType
  <2>2. w \in Words /\ OwnWord(d, w)
    <3>1. w.rid = f.rid /\ w.relay = f.relay /\ w \in Words
      BY <2>1 DEF Words, Typed
    <3>2. QED
      BY <2>1, <3>1 DEF OwnWord
  <2>3. says' = [says EXCEPT ![d] = Append(@, w)]
    BY <1>5 DEF AnswersRead
  <2> HIDE DEF w, d
  <2>4. QED
    BY <1>2, <2>1, <2>2, <2>3
<1>6. ASSUME NEW r \in Relays, WallSwitch(r) PROVE SentWords'
  <2> DEFINE d == DeviceOf[r]
             w == Report(r, Other(real[r]))
  <2>1. d \in Devices /\ r \in Gangs(d)
    BY GangType
  <2>2. w \in Words /\ OwnWord(d, w)
    BY <2>1 DEF Report, Words, OwnWord, Other, Levels
  <2>3. says' = [says EXCEPT ![d] = Append(@, w)]
    BY <1>6 DEF WallSwitch
  <2> HIDE DEF w, d
  <2>4. QED
    BY <1>2, <2>1, <2>2, <2>3
<1>7. ASSUME NEW d \in Devices, WordArrives(d) \/ WordLost(d) PROVE SentWords'
  BY <1>3, <1>7 DEF WordArrives, WordLost
<1>8. ASSUME NEW d \in Devices, Forgotten(d) \/ Joins(d) PROVE SentWords'
  BY <1>1, <1>8 DEF Forgotten, Joins, wire
<1>9. ASSUME NEW c \in Calls, PhaseOnly(c) \/ Attempts(c) PROVE SentWords'
  BY <1>1, <1>9 DEF PhaseOnly, Attempts, wire
<1>10. ASSUME NEW c \in Calls, NEW i \in Members(c),
             Take(c, i) \/ Returns(c, i) \/ TimesOut(c, i)
      PROVE  SentWords'
  BY <1>1, <1>10, WorkerEffect DEF Asks, Commands, Ends, WorkerOnly
<1>11. ASSUME NEW f \in frames, Fails(f) PROVE SentWords'
  BY <1>1, <1>11 DEF Fails
<1>12. ASSUME NEW r \in replies, ReplyArrives(r) PROVE SentWords'
  BY <1>1, <1>12 DEF ReplyArrives
<1>13. CASE LearnCapabilities \/ UNCHANGED vars \/ \E f \in frames : Accepts(f)
  BY <1>1, <1>13 DEF LearnCapabilities, Accepts, vars, wire
<1>14. QED
  BY <1>4, <1>5, <1>6, <1>7, <1>8, <1>9, <1>10, <1>11, <1>12, <1>13, CallEffect
     DEF Next

(***************************************************************************)
(* The life of a call.                                                     *)
(***************************************************************************)
LEMMA NextCallShape ==
  ASSUME Typed, Sent, Shape, GroupProven, [Next]_vars, NEW b \in Calls
  PROVE  CallShape(b)'
<1>0. CallShape(b) /\ attempt[b] \in Nat
  BY LimitsAssumption DEF Shape, Typed
<1>1. CASE UNCHANGED <<phase, action, attempt, acted>>
  BY <1>0, <1>1 DEF CallShape
<1>2. ASSUME NEW c \in Calls, PhaseOnly(c) PROVE CallShape(b)'
  <2>1. PICK p \in Phases : Earned(c, p) /\ phase' = [phase EXCEPT ![c] = p]
    BY <1>2 DEF PhaseOnly
  <2>2. phase'[b] = IF b = c THEN p ELSE phase[b]
    BY <2>1 DEF Typed
  <2>3. UNCHANGED <<action, attempt, acted>> /\ phase[c] # "idle"
    BY <1>2 DEF PhaseOnly, history
  <2>4. QED
    BY <1>0, <2>1, <2>2, <2>3 DEF CallShape, Earned
<1>3. ASSUME NEW c \in Calls, Attempts(c) PROVE CallShape(b)'
  <2>1. /\ attempt'[b] \in Nat /\ attempt[b] <= attempt'[b]
        /\ b = c => attempt'[b] = attempt[b] + 1
        /\ b # c => attempt'[b] = attempt[b]
    BY <1>3, AttemptsGrow DEF Attempts, Tried
  <2>2. UNCHANGED acted
    BY <1>3 DEF Attempts
  <2>3. CASE Begin(c) /\ attempt[c] = 0
    <3>1. CASE b = c
      <4>1. phase'[b] = "sending" /\ acted[b] = {}
        BY <1>0, <2>3, <3>1 DEF Begin, CallShape, Typed
      <4>2. action'[b] \in Levels \cup {"toggle"}
        <5>1. PICK a \in Actions[c] : action' = [action EXCEPT ![c] = a]
          BY <2>3 DEF Begin
        <5>2. a \in Levels \cup {"toggle"}
          BY CallsAssumption
        <5>3. QED
          BY <3>1, <5>1, <5>2 DEF Typed
      <4>3. QED
        BY <1>0, <2>1, <2>2, <3>1, <4>1, <4>2, LevelTypes DEF CallShape, None
    <3>2. CASE b # c
      <4>1. /\ phase'[b] = phase[b] /\ action'[b] = action[b]
            /\ attempt'[b] = attempt[b]
        BY <2>1, <2>3, <3>2 DEF Begin, Typed
      <4>2. QED
        BY <1>0, <2>2, <4>1 DEF CallShape
    <3>3. QED
      BY <3>1, <3>2
  <2>4. CASE phase[c] = "sending" /\ UNCHANGED <<phase, action>>
    BY <1>0, <2>1, <2>2, <2>4 DEF CallShape
  <2>5. QED
    BY <1>3, <2>3, <2>4 DEF Attempts
<1>4. ASSUME NEW c \in Calls, NEW i \in Members(c),
             Take(c, i) \/ Returns(c, i) \/ TimesOut(c, i)
      PROVE  CallShape(b)'
  BY <1>1, <1>4, WorkerEffect DEF Asks, Commands, Ends, WorkerOnly, history
<1>5. ASSUME NEW f \in frames, Acts(f) PROVE CallShape(b)'
  <2> DEFINE c == f.rid[1]
             i == f.rid[2]
  <2>1. c \in Calls /\ i \in Members(c) /\ attempt[c] # 0
    <3>1. SentBy(f) /\ c \in Calls
      BY FrameType DEF Sent, SentFrames
    <3>2. attempt[c] \in Nat
      BY <3>1, LimitsAssumption DEF Typed
    <3>3. QED
      BY <3>1, <3>2, FrameType DEF Sent, SentFrames, SentBy
  <2>2. /\ acted'[b] = IF b = c THEN acted[b] \cup {i} ELSE acted[b]
        /\ UNCHANGED <<phase, action, attempt>>
    BY <1>5, <2>1 DEF Acts, Typed, calls
  <2> HIDE DEF c, i
  <2>3. QED
    BY <1>0, <2>1, <2>2 DEF CallShape
<1>6. ASSUME NEW r, WallSwitch(r) PROVE CallShape(b)'
  BY <1>1, <1>6 DEF WallSwitch, calls
<1>7. ASSUME NEW f \in frames, AnswersRead(f) \/ Fails(f) PROVE CallShape(b)'
  BY <1>1, <1>7 DEF AnswersRead, Fails, calls, history
<1>8. ASSUME NEW r \in replies, ReplyArrives(r) PROVE CallShape(b)'
  BY <1>1, <1>8 DEF ReplyArrives
<1>9. ASSUME NEW d \in Devices,
             WordArrives(d) \/ WordLost(d) \/ Forgotten(d) \/ Joins(d)
      PROVE  CallShape(b)'
  BY <1>1, <1>9 DEF WordArrives, WordLost, Forgotten, Joins, calls, history
<1>10. CASE LearnCapabilities \/ UNCHANGED vars \/ \E f \in frames : Accepts(f)
  BY <1>1, <1>10 DEF LearnCapabilities, Accepts, vars, calls, history
<1>11. QED
  BY <1>2, <1>3, <1>4, <1>5, <1>6, <1>7, <1>8, <1>9, <1>10, CallEffect DEF Next

(* Every step keeps the life of a member.                                  *)
LEMMA NextMemberShape ==
  ASSUME Typed, Sent, Shape, GroupProven, [Next]_vars,
         NEW b \in Calls, NEW j \in Members(b)
  PROVE  MemberShape(b, j)'
<1>0. MemberShape(b, j) /\ CallShape(b)
  BY DEF Shape
<1>00. (coordinator' = "old") <=> (coordinator = "old")
  BY SameKind
<1>1. ASSUME UNCHANGED <<phase, action>>, job'[b][j] = job[b][j],
             inbox'[b][j] = inbox[b][j], acted[b] \subseteq acted'[b]
      PROVE  MemberShape(b, j)'
  BY <1>0, <1>00, <1>1 DEF MemberShape
<1>2. ASSUME NEW c \in Calls, PhaseOnly(c) PROVE MemberShape(b, j)'
  <2>1. PICK p \in Phases : Earned(c, p) /\ phase' = [phase EXCEPT ![c] = p]
    BY <1>2 DEF PhaseOnly
  <2>2. phase'[b] = "idle" => phase[b] = "idle"
    BY <2>1 DEF Typed, Earned
  <2>3. UNCHANGED <<action, job, inbox, acted>>
    BY <1>2 DEF PhaseOnly, history
  <2>4. QED
    BY <1>0, <1>00, <2>2, <2>3 DEF MemberShape
<1>3. ASSUME NEW c \in Calls, Attempts(c) PROVE MemberShape(b, j)'
  <2>1. /\ b = c => job'[b][j] \in {"todo", "error"}
        /\ b # c => job'[b][j] = job[b][j]
        /\ UNCHANGED <<inbox, acted>>
    BY <1>3 DEF Attempts, Tried
  <2>2. CASE b = c
    <3>1. job[b][j] \notin Running /\ phase'[b] # "idle"
      <4>1. CASE Begin(c)
        BY <1>0, <2>2, <4>1 DEF Begin, MemberShape, Running, Typed
      <4>2. CASE phase[c] = "sending" /\ UNCHANGED phase
                   /\ \A i \in Members(c) : job[c][i] \in Statuses
        BY <2>2, <4>2 DEF Running, Statuses
      <4>3. QED
        BY <1>3, <4>1, <4>2 DEF Attempts
    <3>2. inbox[b][j] = None
      BY <1>0, <3>1 DEF MemberShape
    <3>3. QED
      BY <2>1, <2>2, <3>1, <3>2 DEF MemberShape, Success
  <2>3. CASE b # c
    <3>1. phase'[b] = phase[b] /\ action'[b] = action[b]
      BY <1>3, <2>3 DEF Attempts, Begin, Typed
    <3>2. QED
      BY <1>0, <1>00, <2>1, <2>3, <3>1 DEF MemberShape
  <2>4. QED
    BY <2>2, <2>3
<1>4. ASSUME NEW c \in Calls, NEW i \in Members(c),
             Take(c, i) \/ Returns(c, i) \/ TimesOut(c, i)
      PROVE  MemberShape(b, j)'
  <2>0. UNCHANGED <<phase, action, acted>>
    BY <1>4, WorkerEffect DEF Asks, Commands, Ends, WorkerOnly, history
  <2>1. PICK x : JobBecomes(c, i, x) /\ InboxCleared(c, i) /\ phase[c] # "idle"
                 /\ \/ x = "reading" /\ action[c] = "toggle"
                    \/ x = "setting"
                    \/ x \in Statuses /\ (x \in Success => i \in acted[c] \/ coordinator = "old")
    BY <1>4, WorkerEffect DEF Asks, Commands, Ends
  <2>2. /\ job'[b][j] = IF b = c /\ j = i THEN x ELSE job[b][j]
        /\ inbox'[b][j] = IF b = c /\ j = i THEN None ELSE inbox[b][j]
    BY <2>1 DEF JobBecomes, InboxCleared, Replaces
  <2>3. CASE b = c /\ j = i
    <3>1. x = "todo" => FALSE
      BY <2>1 DEF Statuses
    <3>2. x \in Statuses => x # "reading" /\ x # "setting"
      BY DEF Statuses
    <3>3. x \in Success => x # "reading" /\ x # "setting"
      BY DEF Success
    <3>4. QED
      BY <1>00, <2>0, <2>1, <2>2, <2>3, <3>2, <3>3, LevelTypes DEF MemberShape
  <2>4. CASE ~ (b = c /\ j = i)
    BY <1>1, <2>0, <2>2, <2>4
  <2>5. QED
    BY <2>3, <2>4
<1>5. ASSUME NEW f \in frames, Acts(f) \/ AnswersRead(f) \/ Fails(f)
      PROVE  MemberShape(b, j)'
  <2>1. acted[b] \subseteq acted'[b]
    BY <1>5, FrameType DEF Acts, AnswersRead, Fails, Typed, history, Sent
  <2>2. QED
    BY <1>1, <1>5, <2>1 DEF Acts, AnswersRead, Fails, calls
<1>6. ASSUME NEW rid \in Rids, NEW try, NEW step \in Running, NEW what \in Answers,
             Takes(rid, try, step, what), UNCHANGED <<phase, action, job, acted>>,
             \/ step = "reading" /\ what \notin {"delivered", "accepted"}
             \/ step = "setting" /\ what = "failed"
             \/ step = "setting" /\ what = "accepted" /\ coordinator = "old"
             \/ step = "setting" /\ what = "delivered" /\ rid[2] \in acted[rid[1]]
      PROVE  MemberShape(b, j)'
  <2> DEFINE c == rid[1]
             i == rid[2]
  <2>1. \/ job[c][i] = step /\ Replaces(inbox, inbox', Answers, c, i, what)
        \/ UNCHANGED inbox
    BY <1>6, TakesEffect
  <2>2. \/ step = "reading" /\ what \notin {"delivered", "accepted"}
        \/ step = "setting" /\ what = "failed"
        \/ step = "setting" /\ what = "accepted" /\ coordinator = "old"
        \/ step = "setting" /\ what = "delivered" /\ i \in acted[c]
    BY <1>6
  <2> HIDE DEF c, i
  <2>3. CASE b = c /\ j = i /\ job[c][i] = step /\ inbox'[b][j] = what
    <3>1. phase[b] # "idle"
      BY <1>0, <1>6, <2>3 DEF MemberShape, Running
    <3>2. QED
      BY <1>0, <1>00, <1>6, <2>2, <2>3, <3>1 DEF MemberShape, Running, Success
  <2>4. CASE inbox'[b][j] = inbox[b][j]
    BY <1>1, <1>6, <2>4
  <2>5. QED
    BY <2>1, <2>3, <2>4 DEF Replaces
<1>7. ASSUME NEW r \in replies, ReplyArrives(r) PROVE MemberShape(b, j)'
  <2>1. /\ r.rid \in Rids /\ r.what \in Answers /\ r.step \in Running
        /\ \/ r.what = "failed"
           \/ r.what = "delivered" /\ r.step = "setting" /\ r.rid[2] \in acted[r.rid[1]]
           \/ r.what = "accepted" /\ r.step = "setting" /\ coordinator = "old"
    BY DEF Sent, SentReplies, SentBy, Answers
  <2>2. Takes(r.rid, r.try, r.step, r.what) /\ UNCHANGED <<phase, action, job, acted>>
    BY <1>7 DEF ReplyArrives
  <2>3. r.step = "reading" \/ r.step = "setting"
    BY <2>1 DEF Running
  <2>4. QED
    BY <1>6, <2>1, <2>2, <2>3
<1>8. ASSUME NEW d \in Devices, WordArrives(d) PROVE MemberShape(b, j)'
  <2> DEFINE w == Head(says[d])
  <2>1. w \in Words
    BY <1>8, WordTaken DEF WordArrives, Typed
  <2>2. w.level \in Answers /\ w.level \notin {"delivered", "accepted"}
    BY <2>1 DEF Words, Answers, Levels
  <2>3. UNCHANGED <<phase, action, job, acted>>
    BY <1>8 DEF WordArrives
  <2>4. \/ UNCHANGED inbox
        \/ w.rid \in Rids /\ Takes(w.rid, w.try, "reading", w.level)
    BY <1>8, <2>1 DEF WordArrives, Words
  <2> HIDE DEF w
  <2>5. CASE UNCHANGED inbox
    BY <1>1, <2>3, <2>5
  <2>6. CASE w.rid \in Rids /\ Takes(w.rid, w.try, "reading", w.level)
    BY <1>6, <2>2, <2>3, <2>6 DEF Running
  <2>7. QED
    BY <2>4, <2>5, <2>6
<1>9. ASSUME NEW d,
             WallSwitch(d) \/ WordLost(d) \/ Forgotten(d) \/ Joins(d)
      PROVE  MemberShape(b, j)'
  BY <1>1, <1>9 DEF WallSwitch, WordLost, Forgotten, Joins, calls, history
<1>10. CASE LearnCapabilities \/ UNCHANGED vars \/ \E f \in frames : Accepts(f)
  BY <1>1, <1>10 DEF LearnCapabilities, Accepts, vars, calls, history
<1>11. QED
  BY <1>2, <1>3, <1>4, <1>5, <1>7, <1>8, <1>9, <1>10, CallEffect DEF Next

(* What a call that has begun asked for stays, it forgets no level that    *)
(* its device has had, no member that acted, and no other call is held     *)
(* for one that could hear its device.                                     *)
Goes(b) ==
  /\ acted[b] \subseteq acted'[b]
  /\ phase[b] # "idle" => action'[b] = action[b] /\ had[b] \subseteq had'[b]
  /\ b \in sure' => b \in sure \/ Begin(b)
LEMMA CallGoes ==
  ASSUME Typed, Sent, Shape, GroupProven, [Next]_vars, NEW b \in Calls
  PROVE  Goes(b)
<1>1. CASE UNCHANGED <<action, acted, had, sure>>
  BY <1>1 DEF Goes
<1>2. ASSUME NEW c \in Calls, PhaseOnly(c) PROVE Goes(b)
  BY <1>1, <1>2 DEF PhaseOnly, history
<1>3. ASSUME NEW c \in Calls, Attempts(c) PROVE Goes(b)
  <2>1. CASE Begin(c)
    <3>1. phase[c] = "idle" /\ UNCHANGED acted
      BY <2>1 DEF Begin
    <3>2. b # c => action'[b] = action[b] /\ had'[b] = had[b] /\ (b \in sure' => b \in sure)
      BY <2>1 DEF Begin, Typed
    <3>3. QED
      BY <2>1, <3>1, <3>2 DEF Goes
  <2>2. CASE UNCHANGED <<action, had, sure>>
    BY <1>1, <1>3, <2>2 DEF Attempts
  <2>3. QED
    BY <1>3, <2>1, <2>2 DEF Attempts
<1>4. ASSUME NEW c \in Calls, NEW i \in Members(c),
             Take(c, i) \/ Returns(c, i) \/ TimesOut(c, i)
      PROVE  Goes(b)
  BY <1>1, <1>4, WorkerEffect DEF Asks, Commands, Ends, WorkerOnly, history
<1>5. ASSUME NEW f \in frames, Acts(f) PROVE Goes(b)
  <2>1. f.rid[1] \in Calls
    BY FrameType DEF Sent
  <2>2. acted[b] \subseteq acted'[b]
    BY <1>5, <2>1 DEF Acts, Typed
  <2>3. had[b] \subseteq had'[b] /\ UNCHANGED <<action, sure>>
    BY <1>5 DEF Acts, Becomes, calls
  <2>4. QED
    BY <2>2, <2>3 DEF Goes
<1>6. ASSUME NEW r, WallSwitch(r) PROVE Goes(b)
  <2>1. had[b] \subseteq had'[b] /\ UNCHANGED <<action, acted, sure>>
    BY <1>6 DEF WallSwitch, Becomes, calls
  <2>2. QED
    BY <2>1 DEF Goes
<1>7. ASSUME NEW f \in frames, AnswersRead(f) \/ Fails(f) \/ Accepts(f) PROVE Goes(b)
  BY <1>1, <1>7 DEF AnswersRead, Fails, Accepts, history, calls
<1>8. ASSUME NEW r, ReplyArrives(r) PROVE Goes(b)
  BY <1>1, <1>8 DEF ReplyArrives
<1>9. ASSUME NEW d, WordArrives(d) \/ WordLost(d) \/ Forgotten(d) \/ Joins(d)
      PROVE  Goes(b)
  BY <1>1, <1>9 DEF WordArrives, WordLost, Forgotten, Joins, calls, history
<1>10. CASE LearnCapabilities \/ UNCHANGED vars
  BY <1>1, <1>10 DEF LearnCapabilities, vars, calls, history
<1>11. QED
  BY <1>2, <1>3, <1>4, <1>5, <1>6, <1>7, <1>8, <1>9, <1>10, CallEffect DEF Next

(* A call only begins, waits for the word of its device, or ends, as it    *)
(* has earned it.                                                          *)
LEMMA PhaseGoes ==
  ASSUME Typed, Sent, Shape, GroupProven, [Next]_vars, NEW b \in Calls
  PROVE  \/ phase'[b] = phase[b]
         \/ PhaseOnly(b) /\ Earned(b, phase'[b])
         \/ Begin(b) /\ phase'[b] = "sending" /\ Attempts(b)
<1>1. CASE UNCHANGED phase
  BY <1>1
<1>2. ASSUME NEW c \in Calls, PhaseOnly(c)
      PROVE  phase'[b] = phase[b] \/ (PhaseOnly(b) /\ Earned(b, phase'[b]))
  BY <1>2 DEF PhaseOnly, Typed
<1>3. ASSUME NEW c \in Calls, Attempts(c)
      PROVE  phase'[b] = phase[b] \/ (Begin(b) /\ phase'[b] = "sending" /\ Attempts(b))
  BY <1>3 DEF Attempts, Begin, Typed
<1>4. ASSUME NEW c \in Calls, NEW i \in Members(c),
             Take(c, i) \/ Returns(c, i) \/ TimesOut(c, i)
      PROVE  UNCHANGED phase
  BY <1>4, WorkerEffect DEF Asks, Commands, Ends, WorkerOnly
<1>5. ASSUME NEW f \in frames, Acts(f) \/ AnswersRead(f) \/ Fails(f) \/ Accepts(f)
      PROVE  UNCHANGED phase
  BY <1>5 DEF Acts, AnswersRead, Fails, Accepts, calls
<1>6. ASSUME NEW r, ReplyArrives(r) \/ WallSwitch(r) PROVE UNCHANGED phase
  BY <1>6 DEF ReplyArrives, WallSwitch, calls
<1>7. ASSUME NEW d, WordArrives(d) \/ WordLost(d) \/ Forgotten(d) \/ Joins(d)
      PROVE  UNCHANGED phase
  BY <1>7 DEF WordArrives, WordLost, Forgotten, Joins, calls
<1>8. CASE LearnCapabilities \/ UNCHANGED vars
  BY <1>8 DEF LearnCapabilities, vars, calls
<1>9. QED
  BY <1>1, <1>2, <1>3, <1>4, <1>5, <1>6, <1>7, <1>8, CallEffect DEF Next

(* Where deliveries are proved, who has ended well has moved everybody.    *)
LEMMA NextGroupProven ==
  ASSUME Typed, Sent, Shape, GroupProven, [Next]_vars
  PROVE  GroupProven'
<1> SUFFICES ASSUME NEW b \in Calls, coordinator' # "old", phase'[b] \in EndsWell
             PROVE  acted'[b] = Members(b)
  BY DEF GroupProven, EndsWell
<1>1. coordinator # "old" /\ Goes(b) /\ acted'[b] \subseteq Members(b)
  BY SameKind, CallGoes, NextCallShape DEF CallShape
<1>2. CASE phase'[b] = phase[b]
  <2>1. acted[b] = Members(b)
    BY <1>1, <1>2 DEF GroupProven, EndsWell
  <2>2. QED
    BY <1>1, <2>1 DEF Goes
<1>3. CASE Earned(b, phase'[b])
  <2>1. acted[b] = Members(b)
    BY <1>1, <1>3 DEF Earned
  <2>2. QED
    BY <1>1, <2>1 DEF Goes
<1>4. QED
  BY <1>2, <1>3, PhaseGoes DEF EndsWell

(* A tap whose device told its level has seen it.                          *)
LEMMA NextConfirmed ==
  ASSUME Typed, Sent, Shape, GroupProven, ConfirmedIsTrue, Witnessed, [Next]_vars
  PROVE  ConfirmedIsTrue'
<1> SUFFICES ASSUME NEW b \in sure', phase'[b] = "confirmed"
             PROVE  action'[b] \in had'[b]
  BY DEF ConfirmedIsTrue
<1>1. b \in Calls /\ Goes(b)
  BY NextTyped, CallGoes, CallsAssumption DEF Typed
<1>2. CASE phase[b] = "confirmed"
  BY <1>1, <1>2 DEF ConfirmedIsTrue, Goes, Begin
<1>3. CASE phase[b] # "confirmed"
  <2>1. Earned(b, "confirmed")
    BY <1>1, <1>3, PhaseGoes
  <2>2. phase[b] = "confirming" /\ states[Device(b, 1)] = action[b]
    BY <2>1 DEF Earned
  <2>3. b \in sure /\ Witness(b)
    BY <1>1, <2>2 DEF Goes, Witnessed, Open, Begin
  <2>4. action[b] # Unknown
    BY <1>1 DEF Typed, Levels, Unknown, None
  <2>5. action[b] \in had[b]
    BY <2>2, <2>3, <2>4 DEF Witness
  <2>6. QED
    BY <1>1, <2>2, <2>5 DEF Goes
<1>4. QED
  BY <1>2, <1>3

(***************************************************************************)
(* One write per member and attempt.                                       *)
(***************************************************************************)
WroteOnce(c, i) ==
  /\ job[c][i] = "todo" => \A m \in frames \cup replies : ~ Of(m, c, i)
  /\ job[c][i] = "reading" =>
       /\ \A f \in frames : Of(f, c, i) => f.op = "read"
       /\ \A r \in replies : Of(r, c, i) => r.step = "reading"

(* Every step keeps to one read and one command per attempt.               *)
LEMMA NextWritesOnce ==
  ASSUME Typed, Sent, Shape, GroupProven, WritesOnce, [Next]_vars
  PROVE  WritesOnce'
<1> SUFFICES ASSUME NEW b \in Calls, NEW j \in Members(b)
             PROVE  WroteOnce(b, j)'
  BY DEF WritesOnce, WroteOnce
<1>0. WroteOnce(b, j)
  BY DEF WritesOnce, WroteOnce
<1>1. CASE frames' \subseteq frames /\ replies' \subseteq replies
             /\ UNCHANGED attempt /\ job'[b][j] = job[b][j]
  BY <1>0, <1>1 DEF WroteOnce, Of
<1>2. ASSUME NEW c \in Calls, PhaseOnly(c) PROVE WroteOnce(b, j)'
  BY <1>1, <1>2 DEF PhaseOnly, wire
<1>3. ASSUME NEW c \in Calls, Attempts(c) PROVE WroteOnce(b, j)'
  <2>1. UNCHANGED <<frames, replies>>
    BY <1>3 DEF Attempts, wire
  <2>2. CASE b = c
    <3>1. attempt[b] \in Nat /\ attempt'[b] = attempt[b] + 1
      BY <1>3, <2>2, AttemptsGrow
    <3>2. \A m \in frames \cup replies : m.rid[1] = b => m.try # attempt'[b]
      BY <3>1 DEF Sent, SentFrames, SentReplies, SentBy
    <3>3. QED
      BY <2>1, <3>2 DEF WroteOnce, Of
  <2>3. CASE b # c
    <3>1. attempt'[b] = attempt[b] /\ job'[b][j] = job[b][j]
      BY <1>3, <2>3 DEF Attempts, Tried
    <3>2. QED
      BY <1>0, <2>1, <3>1 DEF WroteOnce, Of
  <2>4. QED
    BY <2>2, <2>3
<1>4. ASSUME NEW c \in Calls, NEW i \in Members(c),
             Take(c, i) \/ Returns(c, i) \/ TimesOut(c, i)
      PROVE  WroteOnce(b, j)'
  <2>0. UNCHANGED <<attempt, replies>> /\ phase[c] # "idle"
    BY <1>4, WorkerEffect DEF Asks, Commands, Ends, WorkerOnly
  <2>1. CASE Asks(c, i)
    <3> DEFINE f == Frame(c, i, "read")
    <3>1. f.rid[1] = c /\ f.rid[2] = i /\ f.op = "read"
      BY <2>0, FrameFields
    <3>2. frames' = frames \cup {f} /\ job[c][i] = "todo"
          /\ job'[b][j] = IF b = c /\ j = i THEN "reading" ELSE job[b][j]
      BY <2>1 DEF Asks, JobBecomes, Replaces
    <3> HIDE DEF f
    <3>3. QED
      BY <1>0, <2>0, <3>1, <3>2 DEF WroteOnce, Of
  <2>2. ASSUME NEW level \in Levels, Commands(c, i, level)
        PROVE  WroteOnce(b, j)'
    <3> DEFINE f == Frame(c, i, level)
    <3>1. f.rid[1] = c /\ f.rid[2] = i
      BY <2>0, FrameFields
    <3>2. frames' = frames \cup {f}
          /\ job'[b][j] = IF b = c /\ j = i THEN "setting" ELSE job[b][j]
      BY <2>2 DEF Commands, JobBecomes, Replaces
    <3> HIDE DEF f
    <3>3. QED
      BY <1>0, <2>0, <3>1, <3>2 DEF WroteOnce, Of
  <2>3. ASSUME NEW status \in Statuses, Ends(c, i, status)
        PROVE  WroteOnce(b, j)'
    <3>1. UNCHANGED frames
          /\ job'[b][j] = IF b = c /\ j = i THEN status ELSE job[b][j]
      BY <2>3 DEF Ends, JobBecomes, Replaces
    <3>2. status # "todo" /\ status # "reading"
      BY <2>3 DEF Statuses
    <3>3. QED
      BY <1>0, <2>0, <3>1, <3>2 DEF WroteOnce, Of
  <2>4. QED
    BY <1>4, <2>1, <2>2, <2>3, WorkerEffect
<1>5. ASSUME NEW f \in frames, Acts(f) PROVE WroteOnce(b, j)'
  <2>1. PICK r : r \in {Reply(f, "delivered"), Reply(f, "failed")}
                   /\ replies' \subseteq replies \cup {r}
    BY <1>5 DEF Acts
  <2>2. r.rid = f.rid /\ r.try = f.try /\ f.op # "read"
    BY <1>5, <2>1, ReplyFields DEF Acts, Levels
  <2>3. UNCHANGED <<attempt, job>> /\ frames' \subseteq frames
    BY <1>5 DEF Acts, calls
  <2>4. Of(r, b, j) => Of(f, b, j)
    BY <2>2 DEF Of
  <2>5. QED
    BY <1>0, <2>1, <2>2, <2>3, <2>4 DEF WroteOnce, Of
<1>6. ASSUME NEW f \in frames, Fails(f) PROVE WroteOnce(b, j)'
  <2> DEFINE r == Reply(f, "failed")
  <2>1. /\ r.rid = f.rid /\ r.try = f.try
        /\ r.step = IF f.op = "read" THEN "reading" ELSE "setting"
    BY ReplyFields
  <2>2. UNCHANGED <<attempt, job>> /\ frames' \subseteq frames
        /\ replies' \subseteq replies \cup {r}
    BY <1>6 DEF Fails, calls
  <2> HIDE DEF r
  <2>3. Of(r, b, j) => Of(f, b, j)
    BY <2>1 DEF Of
  <2>4. QED
    BY <1>0, <2>1, <2>2, <2>3 DEF WroteOnce, Of
<1>7. ASSUME NEW f \in frames, AnswersRead(f) PROVE WroteOnce(b, j)'
  BY <1>1, <1>7 DEF AnswersRead, calls
<1>8. ASSUME NEW r \in replies, ReplyArrives(r) PROVE WroteOnce(b, j)'
  BY <1>1, <1>8 DEF ReplyArrives
<1>9. ASSUME NEW d,
             WallSwitch(d) \/ WordArrives(d) \/ WordLost(d) \/ Forgotten(d) \/ Joins(d)
      PROVE  WroteOnce(b, j)'
  BY <1>1, <1>9 DEF WallSwitch, WordArrives, WordLost, Forgotten, Joins, calls, wire
<1>10. ASSUME NEW f \in frames, Accepts(f) PROVE WroteOnce(b, j)'
  <2>1. /\ f.op # "read" /\ UNCHANGED <<attempt, job>>
        /\ \E g \in Frames : Same(g, f) /\ frames' \subseteq frames \cup {g}
        /\ \E r : r.rid = f.rid /\ r.try = f.try /\ replies' = replies \cup {r}
    BY <1>10, AcceptsEffect DEF Accepted, calls, Sent
  <2>2. PICK g \in Frames : Same(g, f) /\ frames' \subseteq frames \cup {g}
    BY <2>1
  <2>3. PICK r : r.rid = f.rid /\ r.try = f.try /\ replies' = replies \cup {r}
    BY <2>1
  <2>4. (Of(g, b, j) <=> Of(f, b, j)) /\ (Of(r, b, j) <=> Of(f, b, j)) /\ g.op # "read"
    BY <2>1, <2>2, <2>3 DEF Of, Same
  <2>5. QED
    BY <1>0, <2>1, <2>2, <2>3, <2>4 DEF WroteOnce, Of
<1>11. CASE LearnCapabilities \/ UNCHANGED vars
  BY <1>1, <1>11 DEF LearnCapabilities, vars, calls, wire
<1>12. QED
  BY <1>2, <1>3, <1>4, <1>5, <1>6, <1>7, <1>8, <1>9, <1>10, <1>11, CallEffect DEF Next

(***************************************************************************)
(* What the devices say.                                                   *)
(***************************************************************************)

(* A report makes what was said before it irrelevant.                      *)
LEMMA ReportAppended ==
  ASSUME NEW s \in Seq(Words), NEW w \in Words, w.rid = <<>>,
         NEW now, now[w.relay] = w.level
  PROVE  Told(Append(s, w), now) /\ ~ Quiet(Append(s, w))
<1> DEFINE t == Append(s, w)
           n == Len(s)
<1>1. n \in Nat /\ Len(t) = n + 1 /\ t[n + 1] = w
  BY WordAppended
<1> HIDE DEF t, n
<1>2. n + 1 \in 1 .. Len(t) /\ ~ IsAnswer(t, n + 1)
  BY <1>1 DEF IsAnswer
<1>3. \A k \in 1 .. Len(t) : k = n + 1 \/ n + 1 > k
  BY <1>1
<1>4. QED
  BY <1>1, <1>2, <1>3 DEF Told, Quiet, t

(* A device that answers has said its level.                               *)
LEMMA AnswerAppended ==
  ASSUME NEW s \in Seq(Words), NEW w \in Words, w.rid # <<>>,
         NEW now, now[w.relay] = w.level, Told(s, now)
  PROVE  Told(Append(s, w), now) /\ (Quiet(Append(s, w)) => Quiet(s))
<1> DEFINE t == Append(s, w)
           n == Len(s)
<1>1. /\ n \in Nat /\ Len(t) = n + 1 /\ t[n + 1] = w
      /\ \A k \in 1 .. n : t[k] = s[k]
  BY WordAppended
<1> HIDE DEF t
<1>2. \A k \in 1 .. n : k \in 1 .. Len(t) /\ (IsAnswer(t, k) <=> IsAnswer(s, k))
  BY <1>1 DEF IsAnswer
<1>3. Quiet(t) => Quiet(s)
  BY <1>2 DEF Quiet
<1>4. ASSUME NEW k \in 1 .. Len(t), \A m \in 1 .. Len(t) : m > k => IsAnswer(t, m)
      PROVE  t[k].level = now[t[k].relay]
  <2>1. CASE k = n + 1
    BY <1>1, <2>1
  <2>2. CASE k # n + 1
    <3>1. k \in 1 .. n /\ t[k] = s[k]
      BY <1>1, <2>2
    <3>2. \A m \in 1 .. n : m > k => IsAnswer(s, m)
      BY <1>2, <1>4
    <3>3. QED
      BY <3>1, <3>2 DEF Told
  <2>3. QED
    BY <2>1, <2>2
<1>5. QED
  BY <1>3, <1>4 DEF Told, t

(* Taking a word from the front leaves the rest as it is; if only answers  *)
(* are left, the word taken was as true as they are.                       *)
LEMMA FrontTaken ==
  ASSUME NEW s \in Seq(Words), s # <<>>, NEW now, Told(s, now)
  PROVE  /\ Told(Tail(s), now)
         /\ Quiet(Tail(s)) => Head(s).level = now[Head(s).relay]
         /\ Quiet(Tail(s)) /\ Head(s).rid # <<>> => Quiet(s)
<1> DEFINE t == Tail(s)
           n == Len(s)
<1>1. /\ n \in Nat \ {0} /\ Len(t) = n - 1
      /\ \A k \in 1 .. n - 1 : t[k] = s[k + 1]
      /\ Head(s) = s[1]
  BY WordTaken
<1> HIDE DEF t
<1>2. \A k \in 1 .. Len(t) : k + 1 \in 1 .. n /\ (IsAnswer(t, k) <=> IsAnswer(s, k + 1))
  BY <1>1 DEF IsAnswer
<1>3. \A m \in 1 .. n : m = 1 \/ m - 1 \in 1 .. Len(t)
  BY <1>1
<1>4. ASSUME NEW k \in 1 .. Len(t), \A m \in 1 .. Len(t) : m > k => IsAnswer(t, m)
      PROVE  t[k].level = now[t[k].relay]
  <2>1. \A m \in 1 .. n : m > k + 1 => IsAnswer(s, m)
    <3> SUFFICES ASSUME NEW m \in 1 .. n, m > k + 1 PROVE IsAnswer(s, m)
      OBVIOUS
    <3>1. m - 1 \in 1 .. Len(t) /\ m - 1 > k /\ (m - 1) + 1 = m
      BY <1>1, <1>3
    <3>2. IsAnswer(t, m - 1)
      BY <1>4, <3>1
    <3>3. QED
      BY <1>2, <3>1, <3>2
  <2>2. k + 1 \in 1 .. n /\ t[k] = s[k + 1]
    BY <1>1, <1>2
  <2>3. QED
    BY <2>1, <2>2 DEF Told
<1>5. Quiet(t) => \A m \in 1 .. n : m > 1 => IsAnswer(s, m)
  <2> SUFFICES ASSUME Quiet(t), NEW m \in 1 .. n, m > 1 PROVE IsAnswer(s, m)
    OBVIOUS
  <2>1. m - 1 \in 1 .. Len(t) /\ (m - 1) + 1 = m
    BY <1>1, <1>3
  <2>2. QED
    BY <1>2, <2>1 DEF Quiet
<1>6. 1 \in 1 .. n
  BY <1>1
<1>7. Told(t, now)
  BY <1>4 DEF Told
<1>8. Quiet(t) => s[1].level = now[s[1].relay]
  BY <1>5, <1>6 DEF Told
<1>9. Quiet(t) /\ IsAnswer(s, 1) => Quiet(s)
  <2> SUFFICES ASSUME Quiet(t), IsAnswer(s, 1), NEW m \in 1 .. n
               PROVE  IsAnswer(s, m)
    BY DEF Quiet
  <2>1. m = 1 \/ m > 1
    BY <1>1
  <2>2. QED
    BY <1>5, <2>1
<1>10. QED
  BY <1>1, <1>7, <1>8, <1>9 DEF IsAnswer, t

(* What a step is for one device: a gang of it reports a change of its     *)
(* level, it answers a read, a word of it is heard or lost, or none of     *)
(* these.  Only a word that is heard by nobody makes it missed, and only a *)
(* word or the end of its registration changes what the hub knows of it.   *)
Keeps(d) == states'[d] \in {states[d], Unknown} /\ (d \in missed => d \in missed')
Still(d) == \A r \in Gangs(d) : real'[r] = real[r]
Seen(d, level) ==
  \A c \in Confirming : Device(c, 1) = d /\ phase[c] \in Open => level \in had'[c]
Untouched(d) == says'[d] = says[d] /\ Still(d) /\ Keeps(d)
Says(d, w) ==
  /\ says'[d] = Append(says[d], w) /\ w.relay \in Gangs(d)
  /\ \A r \in Gangs(d) : real'[r] = IF r = w.relay THEN w.level ELSE real[r]
  /\ Keeps(d)
Reports(d) == \E w \in Words : w.rid = <<>> /\ Says(d, w) /\ Seen(d, w.level)
Answered(d) == \E w \in Words : w.rid # <<>> /\ w.level = real[w.relay] /\ Says(d, w)
Heeded(d, w) ==
  \/ d \in missed' /\ states'[d] \in {states[d], w.level}
  \/ states'[d] = w.level /\ expected'[d] = None
  \/ w.rid # <<>> /\ Keeps(d)
Loses(d) ==
  /\ says[d] # <<>> /\ says'[d] = Tail(says[d])
  /\ Still(d) /\ Heeded(d, Head(says[d]))
DeviceStep(d) == Untouched(d) \/ Reports(d) \/ Answered(d) \/ Loses(d)

(* The gangs of a device are relays, and of no other device.               *)
LEMMA GangsApart ==
  ASSUME NEW d, NEW r \in Gangs(d)
  PROVE  r \in Relays /\ DeviceOf[r] = d
BY DEF Gangs

(* What a step does to one device and what is heard of it.                 *)
LEMMA DeviceEffect ==
  ASSUME Typed, Shape, Sent, GroupProven, [Next]_vars, NEW d \in Devices
  PROVE  DeviceStep(d)
<1>1. CASE UNCHANGED <<says, real, states, missed>>
  BY <1>1 DEF DeviceStep, Untouched, Keeps, Still
<1>2. ASSUME NEW q \in Relays, NEW level \in Levels,
             says' = [says EXCEPT ![DeviceOf[q]] = Append(@, Report(q, level))],
             Becomes(q, level), UNCHANGED <<states, missed>>
      PROVE  DeviceStep(d)
  <2> DEFINE e == DeviceOf[q]
             w == Report(q, level)
  <2>1. /\ w \in Words /\ w.rid = <<>> /\ w.relay = q /\ w.level = level
        /\ e \in Devices /\ q \in Gangs(e)
    BY <1>2, GangType DEF Report, Words
  <2>2. \A r \in Relays : real'[r] = IF r = q THEN level ELSE real[r]
    BY <1>2 DEF Becomes, Typed
  <2>3. \A c \in Confirming : Device(c, 1) = e /\ phase[c] \in Open => level \in had'[c]
    BY <1>2, CallsAssumption DEF Becomes, Open
  <2>4. says' = [says EXCEPT ![e] = Append(@, w)]
    BY <1>2
  <2> HIDE DEF w, e
  <2>5. says'[d] = IF d = e THEN Append(says[d], w) ELSE says[d]
    BY <2>1, <2>4 DEF Typed
  <2>6. CASE d = e
    <3>1. Seen(d, w.level)
      BY <2>1, <2>3, <2>6 DEF Seen
    <3>2. Says(d, w)
      BY <1>2, <2>1, <2>2, <2>5, <2>6, GangsApart DEF Says, Keeps
    <3>3. QED
      BY <2>1, <3>1, <3>2 DEF DeviceStep, Reports
  <2>7. CASE d # e
    <3>1. \A r \in Gangs(d) : r # q
      BY <2>7, GangsApart DEF e
    <3>2. Still(d)
      BY <2>2, <3>1, GangsApart DEF Still
    <3>3. QED
      BY <1>2, <2>5, <2>7, <3>2 DEF DeviceStep, Untouched, Keeps
  <2>8. QED
    BY <2>6, <2>7
<1>3. ASSUME NEW f \in frames, Acts(f) PROVE DeviceStep(d)
  <2>1. f.relay \in Relays /\ f.op \in Levels /\ Becomes(f.relay, f.op)
        /\ UNCHANGED <<states, missed>>
    BY <1>3, FrameType DEF Acts, Sent, belief
  <2>2. CASE real[f.relay] = f.op
    <3>1. UNCHANGED <<says, real>>
      BY <1>3, <2>1, <2>2 DEF Acts, Becomes, Typed
    <3>2. QED
      BY <1>1, <2>1, <3>1
  <2>3. CASE real[f.relay] # f.op
    <3>1. says' = [says EXCEPT ![DeviceOf[f.relay]] = Append(@, Report(f.relay, f.op))]
      BY <1>3, <2>3 DEF Acts
    <3>2. QED
      BY <1>2, <2>1, <3>1
  <2>4. QED
    BY <2>2, <2>3
<1>4. ASSUME NEW f \in frames, AnswersRead(f) PROVE DeviceStep(d)
  <2> DEFINE e == DeviceOf[f.relay]
             w == [relay |-> f.relay, level |-> real[f.relay], rid |-> f.rid, try |-> f.try]
  <2>1. /\ f.rid \in Rids /\ f.rid # <<>> /\ f.try \in Nat /\ e \in Devices
        /\ f.relay \in Relays /\ f.relay \in Gangs(e)
    BY FrameType DEF Sent
  <2>2. w \in Words /\ w.rid # <<>> /\ w.relay = f.relay /\ w.level = real[w.relay]
    BY <2>1 DEF Words, Typed
  <2>3. says' = [says EXCEPT ![e] = Append(@, w)] /\ UNCHANGED <<real, states, missed>>
    BY <1>4 DEF AnswersRead, world, belief, history
  <2> HIDE DEF w, e
  <2>4. says'[d] = IF d = e THEN Append(says[d], w) ELSE says[d]
    BY <2>1, <2>3 DEF Typed
  <2>5. CASE d = e
    <3>1. Says(d, w)
      BY <2>1, <2>2, <2>3, <2>4, <2>5 DEF Says, Keeps
    <3>2. QED
      BY <2>2, <3>1 DEF DeviceStep, Answered
  <2>6. CASE d # e
    BY <2>3, <2>4, <2>6 DEF DeviceStep, Untouched, Keeps, Still
  <2>7. QED
    BY <2>5, <2>6
<1>5. ASSUME NEW r \in Relays, WallSwitch(r) PROVE DeviceStep(d)
  <2>1. Other(real[r]) \in Levels
    BY DEF Other, Levels
  <2>2. /\ says' = [says EXCEPT ![DeviceOf[r]] = Append(@, Report(r, Other(real[r])))]
        /\ Becomes(r, Other(real[r])) /\ UNCHANGED <<states, missed>>
    BY <1>5 DEF WallSwitch, belief
  <2>3. QED
    BY <1>2, <2>1, <2>2
<1>6. ASSUME NEW e \in Devices, WordArrives(e) \/ WordLost(e) PROVE DeviceStep(d)
  <2> DEFINE w == Head(says[e])
  <2>1. /\ says[e] # <<>> /\ UNCHANGED real
        /\ says'[d] = IF d = e THEN Tail(says[d]) ELSE says[d]
    BY <1>6 DEF WordArrives, WordLost, Typed, world
  <2>2. CASE d # e
    <3>1. states'[d] = states[d] /\ (d \in missed => d \in missed')
      BY <1>6, <2>2 DEF WordArrives, WordLost, OnState, Typed, belief
    <3>2. QED
      BY <2>1, <2>2, <3>1 DEF DeviceStep, Untouched, Keeps, Still
  <2>3. CASE d = e
    <3>1. CASE WordLost(e)
      <4>1. states'[d] = states[d] /\ (d \in missed' \/ (w.rid # <<>> /\ UNCHANGED missed))
        BY <2>3, <3>1 DEF WordLost, belief
      <4>2. QED
        BY <2>1, <2>3, <4>1 DEF DeviceStep, Loses, Heeded, Keeps, Still
    <3>2. CASE WordArrives(e) /\ e \in registered
      <4>1. states'[d] = w.level /\ expected'[d] = None
        BY <2>3, <3>2 DEF WordArrives, OnState, Typed
      <4>2. QED
        BY <2>1, <2>3, <4>1 DEF DeviceStep, Loses, Heeded, Still
    <3>3. CASE WordArrives(e) /\ e \notin registered
      <4>1. d \in missed' /\ states'[d] = states[d]
        BY <2>3, <3>3 DEF WordArrives, belief
      <4>2. QED
        BY <2>1, <2>3, <4>1 DEF DeviceStep, Loses, Heeded, Still
    <3>4. QED
      BY <1>6, <3>1, <3>2, <3>3
  <2>4. QED
    BY <2>2, <2>3
<1>7. ASSUME NEW e \in Devices, Forgotten(e) PROVE DeviceStep(d)
  <2>1. UNCHANGED <<says, real, missed>> /\ states'[d] \in {states[d], Unknown}
    BY <1>7 DEF Forgotten, Typed, wire, history
  <2>2. QED
    BY <2>1 DEF DeviceStep, Untouched, Keeps, Still
<1>8. ASSUME NEW e \in Devices, Joins(e) PROVE DeviceStep(d)
  BY <1>1, <1>8 DEF Joins, wire, belief, history
<1>9. ASSUME NEW c \in Calls, PhaseOnly(c) \/ Attempts(c) PROVE DeviceStep(d)
  BY <1>1, <1>9 DEF PhaseOnly, Attempts, wire, belief, world, history
<1>10. ASSUME NEW c \in Calls, NEW i \in Members(c),
             Take(c, i) \/ Returns(c, i) \/ TimesOut(c, i)
      PROVE  DeviceStep(d)
  BY <1>1, <1>10, WorkerEffect DEF Asks, Commands, Ends, WorkerOnly, history
<1>11. ASSUME NEW f \in frames, Fails(f) \/ Accepts(f) PROVE DeviceStep(d)
  BY <1>1, <1>11 DEF Fails, Accepts, belief, world, history
<1>12. ASSUME NEW r \in replies, ReplyArrives(r) PROVE DeviceStep(d)
  BY <1>1, <1>12 DEF ReplyArrives, world, belief
<1>13. CASE LearnCapabilities \/ UNCHANGED vars
  BY <1>1, <1>13 DEF LearnCapabilities, vars, belief, wire, world, history
<1>14. QED
  BY <1>3, <1>4, <1>5, <1>6, <1>7, <1>8, <1>9, <1>10, <1>11, <1>12, <1>13,
     CallEffect DEF Next

(* The relays whose words are under way are gangs of their device.         *)
LEMMA ToldOnce ==
  ASSUME SentWords, NEW d \in Devices, Told(says[d], real), Still(d)
  PROVE  Told(says[d], real')
<1>1. \A k \in 1 .. Len(says[d]) : real'[says[d][k].relay] = real[says[d][k].relay]
  BY DEF SentWords, Still
<1>2. QED
  BY <1>1 DEF Told

(* Every step keeps what was said and heard.                               *)
LEMMA NextHeard ==
  ASSUME Typed, Shape, Sent, GroupProven, Heard, [Next]_vars
  PROVE  Heard'
<1> SUFFICES ASSUME NEW d \in Devices
             PROVE  /\ Told(says'[d], real')
                    /\ Quiet(says'[d]) /\ d \notin missed'
                         => states'[d] = Unknown \/ SoOf(d, states[d])'
  BY DEF Heard
<1>0. /\ says[d] \in Seq(Words) /\ Told(says[d], real)
      /\ Quiet(says[d]) /\ d \notin missed => states[d] = Unknown \/ SoOf(d, states[d])
  BY DEF Typed, Heard
<1>1. ASSUME Still(d), Keeps(d), Quiet(says[d]), d \notin missed'
      PROVE  states'[d] = Unknown \/ SoOf(d, states[d])'
  BY <1>0, <1>1 DEF Still, Keeps, SoOf
<1>2. CASE Untouched(d)
  BY <1>0, <1>1, <1>2, ToldOnce DEF Untouched, Sent
<1>3. CASE Reports(d)
  <2>1. PICK w \in Words : w.rid = <<>> /\ Says(d, w)
    BY <1>3 DEF Reports
  <2>2. real'[w.relay] = w.level
    BY <2>1 DEF Says
  <2>3. Told(Append(says[d], w), real') /\ ~ Quiet(Append(says[d], w))
    BY <1>0, <2>1, <2>2, ReportAppended
  <2>4. QED
    BY <2>1, <2>3 DEF Says
<1>4. CASE Answered(d)
  <2>1. PICK w \in Words : w.rid # <<>> /\ w.level = real[w.relay] /\ Says(d, w)
    BY <1>4 DEF Answered
  <2>2. Still(d) /\ real'[w.relay] = w.level /\ Keeps(d)
    BY <2>1 DEF Says, Still
  <2>3. Told(says[d], real')
    BY <1>0, <2>2, ToldOnce DEF Sent
  <2>4. Told(Append(says[d], w), real') /\ (Quiet(Append(says[d], w)) => Quiet(says[d]))
    BY <1>0, <2>1, <2>2, <2>3, AnswerAppended
  <2>5. QED
    BY <1>1, <2>1, <2>2, <2>4 DEF Says
<1>5. CASE Loses(d)
  <2> DEFINE w == Head(says[d])
  <2>1. says[d] # <<>> /\ says'[d] = Tail(says[d]) /\ Still(d) /\ Heeded(d, w)
    BY <1>5 DEF Loses
  <2>2. /\ Told(Tail(says[d]), real')
        /\ Quiet(Tail(says[d])) => w.level = real'[w.relay]
        /\ Quiet(Tail(says[d])) /\ w.rid # <<>> => Quiet(says[d])
    <3>1. Told(says[d], real')
      BY <1>0, <2>1, ToldOnce DEF Sent
    <3>2. QED
      BY <1>0, <2>1, <3>1, FrontTaken
  <2>3. w.relay \in Gangs(d)
    <3>1. w = says[d][1] /\ Len(says[d]) \in Nat \ {0}
      BY <1>0, <2>1, WordTaken
    <3>2. 1 \in 1 .. Len(says[d])
      BY <3>1
    <3>3. QED
      BY <3>1, <3>2 DEF Sent, SentWords
  <2> HIDE DEF w
  <2>4. CASE states'[d] = w.level
    BY <2>1, <2>2, <2>3, <2>4 DEF SoOf
  <2>5. CASE d \in missed'
    BY <2>1, <2>2, <2>5
  <2>6. CASE w.rid # <<>> /\ Keeps(d)
    BY <1>1, <2>1, <2>2, <2>6
  <2>7. QED
    BY <2>1, <2>4, <2>5, <2>6 DEF Heeded
<1>6. QED
  BY <1>2, <1>3, <1>4, <1>5, DeviceEffect DEF DeviceStep

(* A device that is quiet after the step, still expected something of and  *)
(* not missed, was so before it, and its levels did not change.            *)
LEMMA QuietBefore ==
  ASSUME Typed, Shape, Sent, GroupProven, Heard, [Next]_vars, NEW d \in Devices,
         Quiet(says'[d]), d \notin missed', expected'[d] # None
  PROVE  Quiet(says[d]) /\ d \notin missed /\ Still(d)
<1>0. says[d] \in Seq(Words) /\ Told(says[d], real)
  BY DEF Typed, Heard
<1>1. CASE Untouched(d)
  BY <1>1 DEF Untouched, Keeps
<1>2. CASE Reports(d)
  <2>1. PICK w \in Words : w.rid = <<>> /\ Says(d, w)
    BY <1>2 DEF Reports
  <2>2. real'[w.relay] = w.level
    BY <2>1 DEF Says
  <2>3. ~ Quiet(Append(says[d], w))
    BY <1>0, <2>1, <2>2, ReportAppended
  <2>4. QED
    BY <2>1, <2>3 DEF Says
<1>3. CASE Answered(d)
  <2>1. PICK w \in Words : w.rid # <<>> /\ w.level = real[w.relay] /\ Says(d, w)
    BY <1>3 DEF Answered
  <2>2. Quiet(Append(says[d], w)) => Quiet(says[d])
    BY <1>0, <2>1, AnswerAppended
  <2>3. QED
    BY <2>1, <2>2 DEF Says, Keeps, Still
<1>4. CASE Loses(d)
  <2>1. /\ says[d] # <<>> /\ says'[d] = Tail(says[d]) /\ Still(d)
        /\ Head(says[d]).rid # <<>> /\ Keeps(d)
    BY <1>4 DEF Loses, Heeded
  <2>2. Quiet(Tail(says[d])) /\ Head(says[d]).rid # <<>> => Quiet(says[d])
    BY <1>0, <2>1, FrontTaken
  <2>3. QED
    BY <2>1, <2>2 DEF Keeps
<1>5. QED
  BY <1>1, <1>2, <1>3, <1>4, DeviceEffect DEF DeviceStep

(* A tap that begins when its device has been heard to the end knows what  *)
(* there is to know.                                                       *)
LEMMA WitnessBegins ==
  ASSUME Typed, Shape, GroupProven, Heard, NEW b \in Confirming, Begin(b),
         b \in sure', b \notin sure
  PROVE  Witness(b)'
<1> DEFINE d == Device(b, 1)
<1>1. b \in Calls /\ d \in Devices
  BY FirstMember, TargetType, CallsAssumption
<1>2. says[d] = <<>> /\ d \notin missed /\ UNCHANGED <<states, says, real>>
  BY DEF Begin, belief, wire, world
<1>3. had'[b] = {real[r] : r \in Gangs(d)}
  BY <1>1 DEF Begin, Typed
<1>4. Quiet(says[d]) /\ \A k \in 1 .. Len(says[d]) : FALSE
  BY <1>2, EmptySeq DEF Quiet
<1>5. states[d] = Unknown \/ SoOf(d, states[d])
  BY <1>1, <1>2, <1>4 DEF Heard
<1>6. QED
  BY <1>2, <1>3, <1>4, <1>5 DEF Witness, SoOf

(* A tap that knows goes on knowing, whatever its device does and says.    *)
LEMMA WitnessStays ==
  ASSUME Typed, Shape, Sent, GroupProven, [Next]_vars, NEW b \in Confirming,
         phase[b] \in Open, Witness(b)
  PROVE  Witness(b)'
<1> DEFINE d == Device(b, 1)
           s == says[d]
           t == says'[d]
<1>1. b \in Calls /\ d \in Devices /\ s \in Seq(Words)
  BY FirstMember, TargetType, CallsAssumption DEF Typed
<1>2. had[b] \subseteq had'[b]
  BY <1>1, CallGoes DEF Goes, Open
<1>3. /\ \A r \in Gangs(d) : real[r] \in had[b]
      /\ \A k \in 1 .. Len(s) : s[k].level \in had[b]
      /\ states[d] = Unknown \/ states[d] \in had[b]
  BY DEF Witness
<1>4. ASSUME \A r \in Gangs(d) : real'[r] \in had'[b],
             \A k \in 1 .. Len(t) : t[k].level \in had'[b],
             states'[d] = Unknown \/ states'[d] \in had'[b]
      PROVE  Witness(b)'
  BY <1>4 DEF Witness
<1>5. DeviceStep(d)
  BY <1>1, DeviceEffect
<1> HIDE DEF d, s, t
<1>6. Keeps(d) => states'[d] = Unknown \/ states'[d] \in had'[b]
  BY <1>2, <1>3 DEF Keeps
<1>7. Still(d) => \A r \in Gangs(d) : real'[r] \in had'[b]
  BY <1>2, <1>3 DEF Still
<1>8. ASSUME NEW w \in Words, Says(d, w), w.level \in had'[b] PROVE Witness(b)'
  <2>1. \A r \in Gangs(d) : real'[r] \in had'[b]
    BY <1>2, <1>3, <1>8 DEF Says
  <2>2. t = Append(s, w)
    BY <1>8 DEF Says, s, t
  <2>3. \A k \in 1 .. Len(t) : t[k].level \in had'[b]
    <3>1. /\ Len(s) \in Nat /\ Len(t) = Len(s) + 1 /\ t[Len(s) + 1] = w
          /\ \A k \in 1 .. Len(s) : t[k] = s[k]
      BY <1>1, <2>2, WordAppended
    <3>2. \A k \in 1 .. Len(t) : k = Len(s) + 1 \/ k \in 1 .. Len(s)
      BY <3>1
    <3>3. QED
      BY <1>2, <1>3, <1>8, <3>1, <3>2
  <2>4. QED
    BY <1>4, <1>6, <1>8, <2>1, <2>3 DEF Says
<1>9. CASE Untouched(d)
  <2>1. t = s
    BY <1>9 DEF Untouched, s, t
  <2>2. QED
    BY <1>2, <1>3, <1>4, <1>6, <1>7, <1>9, <2>1 DEF Untouched
<1>10. CASE Reports(d)
  <2>1. PICK w \in Words : Says(d, w) /\ Seen(d, w.level)
    BY <1>10 DEF Reports
  <2>2. w.level \in had'[b]
    BY <2>1 DEF Seen, d
  <2>3. QED
    BY <1>8, <2>1, <2>2
<1>11. CASE Answered(d)
  <2>1. PICK w \in Words : w.level = real[w.relay] /\ Says(d, w)
    BY <1>11 DEF Answered
  <2>2. w.level \in had'[b]
    BY <1>2, <1>3, <2>1 DEF Says
  <2>3. QED
    BY <1>8, <2>1, <2>2
<1>12. CASE Loses(d)
  <2>1. s # <<>> /\ t = Tail(s) /\ Still(d) /\ Heeded(d, Head(s))
    BY <1>12 DEF Loses, s, t
  <2>2. /\ Len(s) \in Nat \ {0} /\ Len(t) = Len(s) - 1 /\ Head(s) = s[1]
        /\ \A k \in 1 .. Len(s) - 1 : t[k] = s[k + 1]
    BY <1>1, <2>1, WordTaken
  <2>3. \A k \in 1 .. Len(t) : k + 1 \in 1 .. Len(s) /\ t[k] = s[k + 1]
    BY <2>2
  <2>4. 1 \in 1 .. Len(s)
    BY <2>2
  <2>5. \A k \in 1 .. Len(t) : t[k].level \in had'[b]
    BY <1>2, <1>3, <2>3
  <2>6. Head(s).level \in had'[b]
    BY <1>2, <1>3, <2>2, <2>4
  <2>7. states'[d] = Unknown \/ states'[d] \in had'[b]
    BY <1>2, <1>3, <1>6, <2>1, <2>6 DEF Heeded
  <2>8. QED
    BY <1>4, <1>7, <2>1, <2>5, <2>7
<1>13. QED
  BY <1>5, <1>9, <1>10, <1>11, <1>12 DEF DeviceStep

(* Every step keeps the witnesses.                                         *)
LEMMA NextWitnessed ==
  ASSUME Typed, Shape, Sent, GroupProven, Heard, Witnessed, [Next]_vars
  PROVE  Witnessed'
<1> SUFFICES ASSUME NEW b \in sure'
             PROVE  phase'[b] # "idle" /\ (phase'[b] \in Open => Witness(b)')
  BY DEF Witnessed
<1>1. b \in Confirming /\ b \in Calls /\ Goes(b)
  BY NextTyped, CallGoes, CallsAssumption DEF Typed
<1>2. CASE Begin(b) /\ phase'[b] = "sending" /\ Attempts(b)
  <2>1. b \notin sure
    BY <1>2 DEF Begin, Witnessed
  <2>2. QED
    BY <1>1, <1>2, <2>1, WitnessBegins
<1>3. CASE phase'[b] = phase[b] \/ (PhaseOnly(b) /\ Earned(b, phase'[b]))
  <2>1. phase'[b] \in Open => phase[b] \in Open
    BY <1>3 DEF Earned, Open
  <2>2. b \in sure
    <3>1. ~ Begin(b)
      BY <1>1, <1>3 DEF Begin, Typed, PhaseOnly
    <3>2. QED
      BY <1>1, <3>1 DEF Goes
  <2>3. phase[b] # "idle" /\ (phase[b] \in Open => Witness(b))
    BY <2>2 DEF Witnessed
  <2>4. phase'[b] # "idle"
    BY <1>3, <2>3 DEF Earned
  <2>5. QED
    BY <1>1, <2>1, <2>3, <2>4, WitnessStays
<1>4. QED
  BY <1>1, <1>2, <1>3, PhaseGoes

(***************************************************************************)
(* What is expected.                                                       *)
(***************************************************************************)
(* The same, after a step.                                                 *)
OfThen(m, c, i) == m.rid[1] = c /\ m.rid[2] = i /\ m.try = attempt'[c]
OwesThen(c, i, level) ==
  /\ job'[c][i] = "setting" /\ inbox'[c][i] # "delivered"
  /\ \A f \in frames' : OfThen(f, c, i) /\ f.op # "read" => f.op = level
  /\ \A r \in replies' : OfThen(r, c, i) => r.what # "delivered"

(* A step that does not touch a member leaves it owing.                    *)
LEMMA OwesStill ==
  ASSUME NEW b \in Calls, NEW j \in Members(b), NEW level, Owes(b, j, level),
         job'[b][j] = job[b][j], attempt'[b] = attempt[b],
         inbox'[b][j] = inbox[b][j] \/ inbox'[b][j] # "delivered",
         \A f \in frames' \ frames : OfThen(f, b, j) => f.op = "read" \/ f.op = level,
         \A r \in replies' \ replies : OfThen(r, b, j) => r.what # "delivered"
  PROVE  OwesThen(b, j, level)
BY DEF Owes, OwesThen, Of, OfThen

(* A member that owes an answer goes on owing it, unless its command is    *)
(* carried out, or its device is no longer one to vouch for.               *)
LEMMA OwesOn ==
  ASSUME Typed, Shape, Sent, GroupProven, [Next]_vars,
         NEW b \in Calls, NEW j \in Members(b), NEW level \in Levels,
         Owes(b, j, level), NEW d, d = Device(b, j),
         expected'[d] # None, d \notin echoed', d \notin unproven'
  PROVE  OwesThen(b, j, level) \/ \E r \in Gangs(d) : real'[r] = level
<1>0. /\ job[b][j] = "setting" /\ inbox[b][j] # "delivered" /\ d \in Devices
      /\ MemberShape(b, j) /\ attempt[b] \in Nat
  BY TargetType, LimitsAssumption DEF Owes, Shape, Typed
<1>1. ASSUME frames' \subseteq frames, replies' \subseteq replies,
             UNCHANGED <<job, inbox, attempt>>
      PROVE  OwesThen(b, j, level)
  BY <1>1, OwesStill
<1>2. ASSUME NEW c \in Calls, PhaseOnly(c) PROVE OwesThen(b, j, level)
  <2>1. UNCHANGED <<frames, replies, job, inbox, attempt>>
    BY <1>2 DEF PhaseOnly, wire
  <2>2. QED
    BY <1>1, <2>1
<1>3. ASSUME NEW c \in Calls, Attempts(c) PROVE OwesThen(b, j, level)
  <2>1. b # c
    <3>1. CASE Begin(c)
      BY <1>0, <3>1 DEF Begin, MemberShape
    <3>2. CASE \A i \in Members(c) : job[c][i] \in Statuses
      BY <1>0, <3>2 DEF Statuses
    <3>3. QED
      BY <1>3, <3>1, <3>2 DEF Attempts
  <2>2. job'[b][j] = job[b][j] /\ attempt'[b] = attempt[b]
        /\ UNCHANGED <<inbox, frames, replies>>
    BY <1>3, <2>1 DEF Attempts, Tried, wire
  <2>3. QED
    BY <2>2, OwesStill
<1>4. ASSUME NEW c \in Calls, NEW i \in Members(c),
             Take(c, i) \/ Returns(c, i) \/ TimesOut(c, i)
      PROVE  OwesThen(b, j, level)
  <2>1. \/ Asks(c, i)
        \/ \E l \in Levels : Commands(c, i, l)
        \/ \E status \in Statuses : Ends(c, i, status)
    BY <1>4, WorkerEffect
  <2>2. ~ (b = c /\ j = i)
    <3> SUFFICES ASSUME b = c, j = i PROVE FALSE
      OBVIOUS
    <3>1. PICK status \in Statuses : Ends(c, i, status)
      BY <1>0, <2>1 DEF Asks, Commands
    <3>2. status \notin Success
      BY <1>0, <3>1 DEF Ends
    <3>3. expected'[d] = None
      BY <1>0, <3>1, <3>2 DEF Ends, Typed
    <3>4. QED
      BY <3>3
  <2>3. /\ job'[b][j] = job[b][j] /\ inbox'[b][j] = inbox[b][j]
        /\ UNCHANGED <<attempt, replies>>
    BY <2>1, <2>2 DEF Asks, Commands, Ends, JobBecomes, InboxCleared, Replaces, WorkerOnly
  <2>4. \E op : frames' \subseteq frames \cup {Frame(c, i, op)} /\ phase[c] # "idle"
    BY <2>1 DEF Asks, Commands, Ends
  <2>5. PICK op : frames' \subseteq frames \cup {Frame(c, i, op)} /\ phase[c] # "idle"
    BY <2>4
  <2>6. PICK f : f = Frame(c, i, op) /\ f.rid[1] = c /\ f.rid[2] = i
    BY <2>5, FrameFields
  <2>7. ~ OfThen(f, b, j)
    BY <2>2, <2>6 DEF OfThen
  <2>8. QED
    BY <2>3, <2>5, <2>6, <2>7, OwesStill
<1>5. ASSUME NEW f \in frames, Acts(f)
      PROVE  OwesThen(b, j, level) \/ \E r \in Gangs(d) : real'[r] = level
  <2>1. /\ f.op # "read" /\ DeviceOf[f.relay] = Device(f.rid[1], f.rid[2])
        /\ f.relay \in Relays /\ f.relay \in Gangs(DeviceOf[f.relay])
        /\ real' = [real EXCEPT ![f.relay] = f.op]
    BY <1>5, FrameType DEF Acts, Becomes, Levels, Sent
  <2>2. CASE Of(f, b, j)
    <3>1. f.op = level /\ DeviceOf[f.relay] = d
      BY <2>1, <2>2 DEF Owes, Of
    <3>2. QED
      BY <2>1, <3>1 DEF Typed
  <2>3. CASE ~ Of(f, b, j)
    <3>1. PICK r : r \in {Reply(f, "delivered"), Reply(f, "failed")}
                     /\ replies' \subseteq replies \cup {r}
      BY <1>5 DEF Acts
    <3>2. r.rid = f.rid /\ r.try = f.try
      BY <3>1, ReplyFields
    <3>3. frames' \subseteq frames /\ UNCHANGED <<job, inbox, attempt>>
      BY <1>5 DEF Acts, calls
    <3>4. ~ OfThen(r, b, j)
      BY <2>3, <3>2, <3>3 DEF Of, OfThen
    <3>5. QED
      BY <3>1, <3>3, <3>4, OwesStill
  <2>4. QED
    BY <2>2, <2>3
<1>6. ASSUME NEW f \in frames, Fails(f) PROVE OwesThen(b, j, level)
  <2> DEFINE r == Reply(f, "failed")
  <2>1. r.what # "delivered"
    BY ReplyFields
  <2>2. /\ frames' \subseteq frames /\ UNCHANGED <<job, inbox, attempt>>
        /\ replies' \subseteq replies \cup {r}
    BY <1>6 DEF Fails, calls
  <2> HIDE DEF r
  <2>3. QED
    BY <2>1, <2>2, OwesStill
<1>7. ASSUME NEW f \in frames, AnswersRead(f) PROVE OwesThen(b, j, level)
  <2>1. frames' \subseteq frames /\ UNCHANGED <<replies, job, inbox, attempt>>
    BY <1>7 DEF AnswersRead, calls
  <2>2. QED
    BY <1>1, <2>1
<1>8. ASSUME NEW r \in replies, ReplyArrives(r) PROVE OwesThen(b, j, level)
  <2>1. r.rid \in Rids /\ r.what \in Answers
    BY DEF Sent, SentReplies, SentBy, Answers
  <2>2. /\ Takes(r.rid, r.try, r.step, r.what) /\ replies' \subseteq replies
        /\ UNCHANGED <<frames, job, attempt>>
    BY <1>8 DEF ReplyArrives
  <2> DEFINE c == r.rid[1]
             i == r.rid[2]
  <2>3. \/ /\ Replaces(inbox, inbox', Answers, c, i, r.what)
           /\ r.try # attempt[c] => Device(c, i) \in echoed'
        \/ UNCHANGED inbox
    BY <2>1, <2>2, TakesEffect
  <2>4. Of(r, b, j) => r.what # "delivered"
    BY DEF Owes
  <2>5. b = c /\ j = i /\ r.try = attempt[b] => Of(r, b, j)
    BY DEF Of
  <2> HIDE DEF c, i
  <2>6. inbox'[b][j] = inbox[b][j] \/ inbox'[b][j] # "delivered"
    BY <2>3, <2>4, <2>5 DEF Replaces
  <2>7. QED
    BY <2>2, <2>6, OwesStill
<1>9. ASSUME NEW e \in Devices, WordArrives(e) PROVE OwesThen(b, j, level)
  <2> DEFINE w == Head(says[e])
             c == w.rid[1]
             i == w.rid[2]
  <2>1. w \in Words /\ UNCHANGED <<frames, replies, job, attempt>>
    BY <1>9, WordTaken DEF WordArrives, Typed
  <2>2. \/ UNCHANGED inbox
        \/ w.rid \in Rids /\ Takes(w.rid, w.try, "reading", w.level)
    BY <1>9, <2>1 DEF WordArrives, Words
  <2>3. w.level \in Answers
    BY <2>1, LevelTypes DEF Words
  <2>4. \/ UNCHANGED inbox
        \/ job[c][i] = "reading" /\ Replaces(inbox, inbox', Answers, c, i, w.level)
    BY <2>2, <2>3, TakesEffect
  <2> HIDE DEF w, c, i
  <2>5. inbox'[b][j] = inbox[b][j]
    BY <1>0, <2>4 DEF Replaces
  <2>6. QED
    BY <2>1, <2>5, OwesStill
<1>10. ASSUME NEW e,
             WallSwitch(e) \/ WordLost(e) \/ Forgotten(e) \/ Joins(e)
      PROVE  OwesThen(b, j, level)
  <2>1. UNCHANGED <<frames, replies, job, inbox, attempt>>
    BY <1>10 DEF WallSwitch, WordLost, Forgotten, Joins, calls, wire
  <2>2. QED
    BY <1>1, <2>1
<1>11. ASSUME NEW f \in frames, Accepts(f) PROVE OwesThen(b, j, level)
  <2>1. PICK g \in Frames : Same(g, f) /\ frames' \subseteq frames \cup {g}
    BY <1>11, AcceptsEffect DEF Accepted, Sent
  <2>2. PICK r : r.what = "accepted" /\ replies' = replies \cup {r}
    BY <1>11, AcceptsEffect DEF Accepted, Sent
  <2>3. UNCHANGED <<job, inbox, attempt>>
    BY <1>11 DEF Accepts, calls
  <2>4. OfThen(g, b, j) => g.op = "read" \/ g.op = level
    BY <2>1, <2>3 DEF Owes, Of, OfThen, Same
  <2>5. QED
    BY <2>1, <2>2, <2>3, <2>4, OwesStill
<1>12. CASE LearnCapabilities \/ UNCHANGED vars
  BY <1>1, <1>12 DEF LearnCapabilities, vars, calls, wire
<1>13. QED
  BY <1>2, <1>3, <1>4, <1>5, <1>6, <1>7, <1>8, <1>9, <1>10, <1>11, <1>12, CallEffect DEF Next

(* An expectation is new only where a command has just gone out.           *)
LEMMA ExpectedAnew ==
  ASSUME Typed, Shape, Sent, GroupProven, WritesOnce, [Next]_vars,
         NEW d \in Devices, expected'[d] # None
  PROVE  \/ expected'[d] = expected[d]
         \/ \E c \in Calls : \E i \in Members(c) :
              Device(c, i) = d /\ OwesThen(c, i, expected'[d])
<1>1. CASE UNCHANGED expected
  BY <1>1
<1>2. ASSUME NEW c \in Calls, PhaseOnly(c) \/ Attempts(c) PROVE UNCHANGED expected
  BY <1>2 DEF PhaseOnly, Attempts, belief
<1>3. ASSUME NEW c \in Calls, NEW i \in Members(c),
             Take(c, i) \/ Returns(c, i) \/ TimesOut(c, i)
      PROVE  \/ expected'[d] = expected[d]
             \/ Device(c, i) = d /\ OwesThen(c, i, expected'[d])
  <2>1. CASE Asks(c, i) \/ \E status \in Statuses : Ends(c, i, status)
    BY <2>1 DEF Asks, Ends, Typed
  <2>2. ASSUME NEW level \in Levels, Commands(c, i, level), Device(c, i) = d
        PROVE  OwesThen(c, i, expected'[d])
    <3> DEFINE f == Frame(c, i, level)
    <3>1. f.op = level
      BY <2>2, FrameFields DEF Commands
    <3>2. /\ expected'[d] = level /\ UNCHANGED <<replies, attempt>>
          /\ frames' = frames \cup {f}
          /\ job'[c][i] = "setting" /\ inbox'[c][i] = None
      BY <2>2 DEF Commands, WorkerOnly, JobBecomes, InboxCleared, Replaces, Typed
    <3> HIDE DEF f
    <3>3. WroteOnce(c, i) /\ job[c][i] \in {"todo", "reading"}
      BY <2>2 DEF WritesOnce, WroteOnce, Commands
    <3>4. \A g \in frames : Of(g, c, i) => g.op = "read"
      BY <3>3 DEF WroteOnce
    <3>5. \A r \in replies : Of(r, c, i) => r.what # "delivered"
      BY <3>3 DEF WroteOnce, Sent, SentReplies
    <3>6. QED
      BY <3>1, <3>2, <3>4, <3>5, LevelTypes DEF OwesThen, Of, OfThen
  <2>3. ASSUME NEW level \in Levels, Commands(c, i, level), Device(c, i) # d
        PROVE  expected'[d] = expected[d]
    BY <2>3 DEF Commands, Typed
  <2>4. QED
    BY <1>3, <2>1, <2>2, <2>3, WorkerEffect
<1>4. ASSUME NEW e \in Devices, WordArrives(e) \/ Forgotten(e)
      PROVE  expected'[d] = expected[d]
  BY <1>4 DEF WordArrives, Forgotten, OnState, Typed, belief
<1>5. ASSUME NEW e, WallSwitch(e) \/ WordLost(e) \/ Joins(e)
      PROVE  UNCHANGED expected
  BY <1>5 DEF WallSwitch, WordLost, Joins, belief
<1>6. ASSUME NEW f \in frames, Acts(f) \/ AnswersRead(f) \/ Fails(f) \/ Accepts(f)
      PROVE  UNCHANGED expected
  BY <1>6 DEF Acts, AnswersRead, Fails, Accepts, belief
<1>7. ASSUME NEW r \in replies, ReplyArrives(r) PROVE UNCHANGED expected
  BY <1>7 DEF ReplyArrives, belief
<1>8. CASE LearnCapabilities \/ UNCHANGED vars
  BY <1>8 DEF LearnCapabilities, vars, belief
<1>9. QED
  BY <1>1, <1>2, <1>3, <1>4, <1>5, <1>6, <1>7, <1>8, CallEffect DEF Next

(* A device that took an echo stays excused.                               *)
LEMMA EchoesStay ==
  ASSUME Typed, Shape, Sent, GroupProven, [Next]_vars
  PROVE  echoed \subseteq echoed'
<1>1. CASE UNCHANGED echoed
  BY <1>1
<1>2. ASSUME NEW rid, NEW try, NEW step, NEW what, Takes(rid, try, step, what)
      PROVE  echoed \subseteq echoed'
  BY <1>2 DEF Takes
<1>3. ASSUME NEW c \in Calls, PhaseOnly(c) \/ Attempts(c) PROVE UNCHANGED echoed
  BY <1>3 DEF PhaseOnly, Attempts, history
<1>4. ASSUME NEW c \in Calls, NEW i \in Members(c),
             Take(c, i) \/ Returns(c, i) \/ TimesOut(c, i)
      PROVE  UNCHANGED echoed
  BY <1>4, WorkerEffect DEF Asks, Commands, Ends, WorkerOnly, history
<1>5. ASSUME NEW f \in frames, Acts(f) \/ AnswersRead(f) \/ Fails(f)
      PROVE  UNCHANGED echoed
  BY <1>5 DEF Acts, AnswersRead, Fails, history
<1>6. ASSUME NEW r \in replies, ReplyArrives(r) PROVE echoed \subseteq echoed'
  BY <1>2, <1>6 DEF ReplyArrives
<1>7. ASSUME NEW d \in Devices, WordArrives(d) PROVE echoed \subseteq echoed'
  BY <1>2, <1>7 DEF WordArrives
<1>8. ASSUME NEW d, WallSwitch(d) \/ WordLost(d) \/ Forgotten(d) \/ Joins(d)
      PROVE  UNCHANGED echoed
  BY <1>8 DEF WallSwitch, WordLost, Forgotten, Joins, history
<1>9. CASE LearnCapabilities \/ UNCHANGED vars \/ \E f \in frames : Accepts(f)
  BY <1>9 DEF LearnCapabilities, Accepts, vars, history
<1>10. QED
  BY <1>1, <1>3, <1>4, <1>5, <1>6, <1>7, <1>8, <1>9, CallEffect DEF Next

(* A device whose sending was believed unproved is believed until it       *)
(* speaks, and then nothing is expected of it.                             *)
LEMMA DoubtStays ==
  ASSUME Typed, Shape, Sent, GroupProven, [Next]_vars,
         NEW d \in Devices, d \in unproven, expected'[d] # None
  PROVE  d \in unproven'
<1>1. CASE unproven \subseteq unproven'
  BY <1>1
<1>2. ASSUME NEW c \in Calls, PhaseOnly(c) \/ Attempts(c) PROVE UNCHANGED unproven
  BY <1>2 DEF PhaseOnly, Attempts, belief
<1>3. ASSUME NEW c \in Calls, NEW i \in Members(c),
             Take(c, i) \/ Returns(c, i) \/ TimesOut(c, i)
      PROVE  unproven \subseteq unproven'
  BY <1>3, WorkerEffect DEF Asks, Commands, Ends
<1>4. ASSUME NEW f \in frames, Acts(f) \/ AnswersRead(f) \/ Fails(f) \/ Accepts(f)
      PROVE  UNCHANGED unproven
  BY <1>4 DEF Acts, AnswersRead, Fails, Accepts, belief
<1>5. ASSUME NEW r, ReplyArrives(r) \/ WallSwitch(r) PROVE UNCHANGED unproven
  BY <1>5 DEF ReplyArrives, WallSwitch, belief
<1>6. ASSUME NEW e, WordLost(e) \/ Forgotten(e) \/ Joins(e) PROVE UNCHANGED unproven
  BY <1>6 DEF WordLost, Forgotten, Joins, belief
<1>7. ASSUME NEW e \in Devices, WordArrives(e) PROVE d \in unproven'
  BY <1>7 DEF WordArrives, OnState, Typed, belief
<1>8. CASE LearnCapabilities \/ UNCHANGED vars
  BY <1>8 DEF LearnCapabilities, vars, belief
<1>9. QED
  BY <1>1, <1>2, <1>3, <1>4, <1>5, <1>6, <1>7, <1>8, CallEffect DEF Next

(* Every step keeps the expectations backed.                               *)
LEMMA NextBelieved ==
  ASSUME Typed, Shape, Sent, GroupProven, WritesOnce, Heard, Believed, [Next]_vars
  PROVE  Believed'
<1> SUFFICES ASSUME NEW d \in Devices, d \notin missed', d \notin echoed', d \notin unproven',
                    Quiet(says'[d]), expected'[d] # None
             PROVE  \/ SoOf(d, expected[d])'
                    \/ \E c \in Calls : \E i \in Members(c) :
                         Device(c, i) = d /\ OwesThen(c, i, expected'[d])
  BY DEF Believed, Backed, Owes, OwesThen, Of, OfThen
<1>1. /\ Quiet(says[d]) /\ d \notin missed /\ Still(d)
      /\ d \notin echoed /\ d \notin unproven
  BY QuietBefore, EchoesStay, DoubtStays
<1>2. CASE expected'[d] = expected[d]
  <2>1. Backed(d, expected[d]) /\ expected[d] \in Levels
    BY <1>1, <1>2 DEF Believed, Typed
  <2>2. CASE SoOf(d, expected[d])
    BY <1>1, <1>2, <2>2 DEF SoOf, Still
  <2>3. ASSUME NEW c \in Calls, NEW i \in Members(c), Device(c, i) = d,
               Owes(c, i, expected[d])
        PROVE  OwesThen(c, i, expected[d]) \/ \E r \in Gangs(d) : real'[r] = expected[d]
    <3> DEFINE level == expected[d]
    <3>1. Owes(c, i, level) /\ level \in Levels
      BY <2>1, <2>3
    <3> HIDE DEF level
    <3>2. OwesThen(c, i, level) \/ \E r \in Gangs(d) : real'[r] = level
      BY <2>3, <3>1, OwesOn DEF SoOf
    <3>3. QED
      BY <3>2 DEF level
  <2>4. QED
    BY <1>2, <2>1, <2>2, <2>3 DEF Backed, SoOf
<1>3. QED
  BY <1>2, ExpectedAnew

(***************************************************************************)
(* Theorems                                                                *)
(***************************************************************************)
LEMMA NextInvariant == IInv /\ [Next]_vars => IInv'
<1> SUFFICES ASSUME IInv, [Next]_vars PROVE IInv'
  OBVIOUS
<1>1. /\ Typed /\ Sent /\ Shape /\ WritesOnce /\ GroupProven /\ ConfirmedIsTrue
      /\ Heard /\ Believed /\ Witnessed
  BY DEF IInv
<1>2. Typed'
  BY <1>1, NextTyped
<1>3. Sent'
  BY <1>1, NextSentFrames, NextSentReplies, NextSentWords DEF Sent
<1>4. Shape'
  BY <1>1, NextCallShape, NextMemberShape DEF Shape
<1>5. WritesOnce'
  BY <1>1, NextWritesOnce
<1>6. GroupProven' /\ ConfirmedIsTrue'
  BY <1>1, NextGroupProven, NextConfirmed
<1>7. Heard' /\ Believed' /\ Witnessed'
  BY <1>1, NextHeard, NextBelieved, NextWitnessed
<1>8. QED
  BY <1>2, <1>3, <1>4, <1>5, <1>6, <1>7 DEF IInv

(* Whatever the devices and their gangs, the calls, their groups and the   *)
(* order of the radio: what is under way belongs to a call that asked for  *)
(* it, an answer is worth one command, a belief is backed by a gang of the *)
(* device or an open command, and a tap that began when its device had     *)
(* been heard to the end has seen all that the device has said since       *)
(* (zigbee_gateway.py).                                                    *)
THEOREM DeliveryInductive == Spec => []IInv
<1>1. QED
  BY InitInvariant, NextInvariant, PTL DEF Spec

(* The executor never makes more attempts than it may, and a member whose  *)
(* reply is in has a worker that waits for it (_deliver_one).              *)
THEOREM TypeCorrect == Spec => []TypeOK
<1>1. IInv => TypeOK
  <2> SUFFICES ASSUME IInv PROVE TypeOK
    OBVIOUS
  <2>1. Typed /\ Shape
    BY DEF IInv
  <2>2. \A c \in Calls : \A i \in Members(c) :
          /\ job[c][i] \in {"todo"} \cup Running \cup Range(Rank)
          /\ inbox[c][i] # None => job[c][i] \in Running
    BY <2>1, RankRange DEF Typed, PerMember, Shape, MemberShape, Jobs
  <2>3. QED
    BY <2>1, <2>2 DEF TypeOK, Typed
<1>2. QED
  BY <1>1, DeliveryInductive, PTL

(* Where deliveries are proved, a call that ended well has moved every one *)
(* of its members, whatever the size of the group and of the worker pool   *)
(* (_deliver, _worst_status).                                              *)
THEOREM GroupIsProven == Spec => []GroupProven
<1>1. IInv => GroupProven
  BY DEF IInv
<1>2. QED
  BY <1>1, DeliveryInductive, PTL

(* A tap that began when its device had been heard to the end is confirmed *)
(* only by a level that a gang of the device has had since the tap, and    *)
(* this also where nothing proves the delivery: by the word of the device, *)
(* not by the acknowledgement (control.send, wait_for_report).             *)
THEOREM ConfirmationIsTrue == Spec => []ConfirmedIsTrue
<1>1. IInv => ConfirmedIsTrue
  BY DEF IInv
<1>2. QED
  BY <1>1, DeliveryInductive, PTL

(* What devices() shows of a device that is left alone is so of a gang of  *)
(* it, or unknown, unless its last word was lost, a retry took the answer  *)
(* to its own first try or an unproved sending was believed: the belief    *)
(* that was set before a command (_expect) ends with the command's failure *)
(* or with the device's own word.                                          *)
THEOREM ScreenIsTrue == Spec => []ShownIsReal
<1>1. IInv => ShownIsReal
  <2> SUFFICES ASSUME IInv, NEW d \in Devices, d \notin missed, d \notin echoed,
                      d \notin unproven, LeftAlone(d)
               PROVE  Shown(d) = Unknown \/ SoOf(d, Shown(d))
    BY DEF ShownIsReal, SoOf
  <2>1. Quiet(says[d])
    BY DEF LeftAlone, Quiet
  <2>2. CASE expected[d] = None
    BY <2>1, <2>2 DEF IInv, Heard, Shown
  <2>3. CASE expected[d] # None
    <3>1. Backed(d, expected[d])
      BY <2>1, <2>3 DEF IInv, Believed
    <3>2. \A c \in Calls : \A i \in Members(c) :
            Device(c, i) = d => ~ Owes(c, i, expected[d])
      BY DEF LeftAlone, Owes, Running
    <3>3. SoOf(d, expected[d])
      BY <3>1, <3>2 DEF Backed
    <3>4. QED
      BY <2>3, <3>3 DEF Shown
  <2>4. QED
    BY <2>2, <2>3
<1>2. QED
  BY <1>1, DeliveryInductive, PTL
=============================================================================
