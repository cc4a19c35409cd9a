-------------------------- MODULE CoordinatorProofs --------------------------
(***************************************************************************)
(* The transaction table of the coordinator, for any number of slots, any  *)
(* requests and addresses, any deadlines and any width of the generation   *)
(* in a handle: each command is answered once, under its id or by a slot   *)
(* that is still open, and a handle finds the request it was made for.     *)
(*                                                                         *)
(* What makes it inductive: a used slot is the only one of its request and *)
(* owes it exactly one answer, and the generation of every handle given    *)
(* out is below the next one, so a slot that is opened later never fits.   *)
(*                                                                         *)
(* The second half is the UART link below the table: a command that is not *)
(* damaged arrives or is refused, and none vanishes without a trace.       *)
(***************************************************************************)
EXTENDS Coordinator, CoordinatorLink, WellFoundedInduction, SequenceTheorems, TLAPS

Chain == {"bind", "config_report"}
Carriers == {"confirm", "bind", "config_confirm"}
KindsOf(what) ==
  CASE what = "confirm" -> Kinds \ Chain
    [] what = "bind" -> {"bind"}
    [] OTHER -> {"config_report"}

\* The callback finds the slot it was made for, or none.
Fits(c) ==
  /\ c.handle \in HandleType /\ c.handle.gen < generation
  /\ Resolves(c.handle) =>
       /\ slots[c.handle.index].owner = c.owner
       /\ slots[c.handle.index].kind \in KindsOf(c.what)

HandleInv ==
  \A c \in air : /\ c.what \in Carriers => Fits(c)
                 /\ c.what \notin Carriers => c.handle = NoRid

Owes(i) ==
  /\ slots[i].gen < generation
  /\ slots[i].owner \in issued \ anonymous
  /\ slots[i].kind \in Chain => slots[i].rid = NoRid /\ verdicts[slots[i].owner] = 0
  /\ slots[i].kind \notin Chain => slots[i].rid = slots[i].owner /\ replied[slots[i].rid] = 0

SlotInv ==
  \A i \in Slots : slots[i].used =>
    /\ Owes(i)
    /\ \A j \in Slots : slots[j].used /\ slots[j].owner = slots[i].owner => j = i

NotYet ==
  \A r \in Rids \ issued : r \notin anonymous /\ replied[r] = 0 /\ verdicts[r] = 0

Once == \A r \in Rids : replied[r] <= 1 /\ verdicts[r] <= 1

CInv == TypeOK /\ HandleInv /\ SlotInv /\ NotYet /\ Once /\ AnsweredOrOpen

\* The transaction that waits for the answer c to a configure.
Awaits(i, c) ==
  /\ slots[i].used /\ slots[i].kind = "config_report"
  /\ slots[i].owner = c.owner /\ slots[i].addr = c.addr

\* A device that may still answer a configure is waited for, or its chain was concluded.
Heard(c) == verdicts[c.owner] = 1 \/ \E i \in Slots : Awaits(i, c)

\* cmd_confirm_cb concludes no chain.
ConfirmsCommand ==
  confirming # NoRid /\ Resolves(confirming.handle)
    => slots[confirming.handle.index].kind \notin Chain

HeardInv ==
  /\ \A r \in late : verdicts[r] = 1
  /\ \A c \in air : c.what = "config_report" => Heard(c)

-----------------------------------------------------------------------------
(* Lowest finds one of the slots it is asked about.                        *)
LEMMA LowestIn ==
  ASSUME NEW S, S \subseteq Slots, S # {}
  PROVE  Lowest(S) \in S
<1>1. S \subseteq Nat
  BY SlotsAssumption
<1>2. PICK m \in S : \A k \in S : <<k, m>> \notin OpToRel(<, Nat)
  BY <1>1, WFMin, NatLessThanWellFounded
<1>3. \A k \in S : ~ (k < m)
  BY <1>1, <1>2, Zenon DEF OpToRel
<1>4. \A k \in S : m <= k
  BY <1>1, <1>3, SMT
<1>. QED  BY <1>4 DEF Lowest

(* A counter counts those that are named, once.                            *)
LEMMA MoreCounts ==
  ASSUME NEW count \in [Rids -> 0 .. 2], NEW R
  PROVE  /\ More(count, R) \in [Rids -> 0 .. 2]
         /\ \A r \in Rids : r \notin R => More(count, R)[r] = count[r]
         /\ \A r \in Rids : r \in R /\ count[r] = 0 => More(count, R)[r] = 1
         /\ \A r \in Rids : count[r] = 0 => More(count, R)[r] \in {0, 1}
BY DEF More

(* The rest of a handle's generation is not above the generation.          *)
LEMMA HandleGenBelow ==
  ASSUME NEW g \in Nat
  PROVE  HandleGen(g) \in Nat /\ HandleGen(g) <= g
BY SpanAssumption, Z3 DEF HandleGen

-----------------------------------------------------------------------------
LEMMA InitCInv == Init => CInv
<1> SUFFICES ASSUME Init PROVE CInv
  OBVIOUS
<1>1. \A i \in Slots : ~ slots[i].used
  BY DEF Init, Free
<1>2. TypeOK
  <2>1. Free \in SlotType
    BY DEF Free, SlotType, Kinds
  <2>2. generation \in 1 .. MaxAllocs + 1
    BY SpanAssumption DEF Init
  <2>. QED  BY <2>1, <2>2 DEF Init, TypeOK
<1>. QED
  BY <1>1, <1>2 DEF Init, CInv, HandleInv, SlotInv, NotYet, Once, AnsweredOrOpen

(* Closing slots and answering for exactly those keeps the account.  Every *)
(* callback but the bind's, the sweep and finish_txn do no more than this. *)
LEMMA CloseKeeps ==
  ASSUME CInv,
         NEW D, D \subseteq Slots, \A i \in D : slots[i].used,
         slots' = [i \in Slots |-> IF i \in D THEN Free ELSE slots[i]],
         UNCHANGED <<generation, issued, anonymous>>, late' \subseteq Rids,
         air' \subseteq air,
         confirming' = NoRid \/ confirming'.handle \in HandleType,
         NEW R, replied' = More(replied, R),
         \A r \in Rids : r \in R <=> \E i \in D : slots[i].rid = r,
         NEW V, verdicts' = More(verdicts, V),
         \A r \in V \cap Rids : \E i \in D : slots[i].owner = r /\ slots[i].kind \in Chain
  PROVE  CInv'
<1>1. /\ slots \in [Slots -> SlotType] /\ issued \subseteq Rids
      /\ replied \in [Rids -> 0 .. 2] /\ verdicts \in [Rids -> 0 .. 2]
  BY DEF CInv, TypeOK
<1>2. TypeOK'
  <2>1. Free \in SlotType
    BY DEF Free, SlotType, Kinds
  <2>2. slots' \in [Slots -> SlotType]
    BY <1>1, <2>1
  <2>3. replied' \in [Rids -> 0 .. 2] /\ verdicts' \in [Rids -> 0 .. 2]
    BY <1>1, MoreCounts
  <2>. QED  BY <2>2, <2>3 DEF CInv, TypeOK
<1>3. \A i \in Slots : slots'[i].used => i \notin D /\ slots'[i] = slots[i]
  BY DEF Free
<1>4. \A i \in Slots \ D : slots'[i] = slots[i]
  OBVIOUS
<1>5. HandleInv'
  <2>1. SUFFICES ASSUME NEW c \in air, c.what \in Carriers
                 PROVE  Fits(c)'
    BY DEF CInv, HandleInv
  <2>2. Fits(c)
    BY <2>1 DEF CInv, HandleInv
  <2>3. c.handle.index \in Slots
    BY <2>2 DEF Fits, HandleType
  <2>. QED  BY <1>3, <2>2, <2>3 DEF Fits, Resolves
<1>6. ASSUME NEW i \in Slots, slots[i].used, i \notin D
      PROVE  /\ slots[i].kind \in Chain => slots[i].rid = NoRid /\ verdicts'[slots[i].owner] = 0
             /\ slots[i].kind \notin Chain => slots[i].rid = slots[i].owner /\ replied'[slots[i].rid] = 0
  <2>1. Owes(i) /\ slots[i].owner \in Rids
    BY <1>1, <1>6 DEF CInv, SlotInv, Owes
  <2>2. \A j \in D : slots[j].owner # slots[i].owner
    BY <1>6 DEF CInv, SlotInv
  <2>3. slots[i].owner \notin V
    BY <2>1, <2>2
  <2>4. \A j \in D : slots[j].rid \in {NoRid, slots[j].owner}
    BY DEF CInv, SlotInv, Owes
  <2>5. slots[i].owner \notin R
    <3>1. SUFFICES ASSUME slots[i].owner \in R
                   PROVE  FALSE
      OBVIOUS
    <3>2. PICK j \in D : slots[j].rid = slots[i].owner
      BY <2>1, <3>1
    <3>. QED  BY <2>1, <2>2, <2>4, <3>2, RidAssumption
  <2>. QED  BY <1>1, <2>1, <2>3, <2>5, MoreCounts DEF Owes
<1>7. SlotInv'
  BY <1>3, <1>6 DEF CInv, SlotInv, Owes
<1>8. NotYet'
  <2>1. SUFFICES ASSUME NEW r \in Rids \ issued
                 PROVE  replied'[r] = 0 /\ verdicts'[r] = 0
    BY DEF CInv, NotYet
  <2>2. \A i \in D : slots[i].owner # r /\ slots[i].rid # r
    BY RidAssumption DEF CInv, SlotInv, Owes
  <2>. QED  BY <1>1, <2>2, MoreCounts DEF CInv, NotYet
<1>9. Once'
  <2>1. SUFFICES ASSUME NEW r \in Rids
                 PROVE  replied'[r] <= 1 /\ verdicts'[r] <= 1
    BY DEF Once
  <2>2. replied[r] \in {0, 1} /\ verdicts[r] \in {0, 1}
    BY <1>1 DEF CInv, Once
  <2>3. r \in R => replied[r] = 0
    BY RidAssumption DEF CInv, SlotInv, Owes
  <2>4. r \in V => verdicts[r] = 0
    BY DEF CInv, SlotInv, Owes
  <2>. QED  BY <1>1, <2>2, <2>3, <2>4, MoreCounts
<1>10. AnsweredOrOpen'
  <2>1. SUFFICES ASSUME NEW r \in issued \ anonymous
                 PROVE  replied'[r] = 1 \/ \E i \in Slots : slots'[i].used /\ slots'[i].rid = r
    BY DEF AnsweredOrOpen
  <2>2. CASE r \in R
    <3>1. replied[r] = 0
      BY <1>1, <2>2, RidAssumption DEF CInv, SlotInv, Owes
    <3>. QED  BY <1>1, <2>2, <3>1, MoreCounts
  <2>3. CASE r \notin R /\ replied[r] = 1
    BY <1>1, <2>3, MoreCounts
  <2>4. CASE r \notin R /\ \E i \in Slots : slots[i].used /\ slots[i].rid = r
    BY <1>1, <1>4, <2>4
  <2>. QED  BY <2>2, <2>3, <2>4 DEF CInv, AnsweredOrOpen
<1>. QED  BY <1>2, <1>5, <1>7, <1>8, <1>9, <1>10 DEF CInv

(* An action that opens a slot for a request that has none, or whose slot  *)
(* is closed in the same step: `table0` is the table without that slot.    *)
Opens(table0, r, kind, a, rid) ==
  /\ table0 \in [Slots -> SlotType]
  /\ \A i \in Slots : table0[i].used => table0[i] = slots[i] /\ slots[i].owner # r
  /\ \A i \in Slots : slots[i].used => table0[i] = slots[i] \/ slots[i].rid = NoRid
  /\ \E i \in Slots : ~ table0[i].used
  /\ r \notin anonymous /\ a \in Addrs \cup {NoRid}
  /\ kind \in Chain => rid = NoRid /\ verdicts'[r] = 0 /\ replied'[r] = 1
  /\ kind \notin Chain => rid = r /\ replied'[r] = 0
  /\ generation < MaxAllocs /\ generation' = generation + 1
  /\ slots' = Opened(table0, kind, rid, a, r)
  /\ issued' = issued \cup {r} /\ UNCHANGED <<confirming, anonymous, verdicts, late>>
  /\ replied' \in [Rids -> 0 .. 2] /\ \A q \in Rids \ {r} : replied'[q] = replied[q]
  /\ \A c \in air' \ air :
       /\ c.owner = r
       /\ c.what \in Carriers => c.handle = NextHandle(table0) /\ kind \in KindsOf(c.what)
       /\ c.what \notin Carriers => c.handle = NoRid

(* It keeps the account: the new slot owes what the request has not had.   *)
LEMMA OpenKeeps ==
  ASSUME CInv, NEW table0, NEW r \in Rids, NEW kind \in Kinds, NEW a, NEW rid,
         Opens(table0, r, kind, a, rid)
  PROVE  CInv'
<1> DEFINE k == Lowest({i \in Slots : ~ table0[i].used})
           new == [used |-> TRUE, gen |-> generation, kind |-> kind, rid |-> rid,
                   addr |-> a, tsn |-> NoTsn, left |-> Timeout[kind], owner |-> r]
<1> USE DEF Opens
<1>1. /\ slots \in [Slots -> SlotType] /\ issued \subseteq Rids
      /\ replied \in [Rids -> 0 .. 2] /\ verdicts \in [Rids -> 0 .. 2]
      /\ generation \in Nat /\ generation \in 1 .. MaxAllocs + 1
  BY SpanAssumption DEF CInv, TypeOK
<1>2. k \in Slots /\ ~ table0[k].used
  BY LowestIn
<1>3. slots' = [table0 EXCEPT ![k] = new]
  BY DEF Opened
<1>4. NextHandle(table0) = [index |-> k, gen |-> HandleGen(generation)]
  BY DEF NextHandle, Handle
<1> HIDE DEF k
<1>5. slots'[k] = new /\ \A i \in Slots \ {k} : slots'[i] = table0[i]
  BY <1>2, <1>3
<1>6. new \in SlotType
  BY <1>1, TimeoutAssumption DEF SlotType
<1>7. HandleGen(generation) \in Nat /\ HandleGen(generation) < generation + 1
  BY <1>1, HandleGenBelow
<1>8. TypeOK'
  <2>1. slots' \in [Slots -> SlotType]
    BY <1>2, <1>3, <1>6
  <2>2. generation' \in 1 .. MaxAllocs + 1
    BY <1>1, SpanAssumption
  <2>3. \A c \in air' : c.owner \in Rids /\ c.handle \in HandleType \cup {NoRid}
    BY <1>2, <1>4, <1>7 DEF CInv, TypeOK, HandleType
  <2>. QED  BY <1>1, <2>1, <2>2, <2>3 DEF CInv, TypeOK
<1>9. HandleInv'
  <2>1. SUFFICES ASSUME NEW c \in air'
                 PROVE  /\ c.what \in Carriers => Fits(c)'
                        /\ c.what \notin Carriers => c.handle = NoRid
    BY DEF HandleInv
  <2>2. CASE c \in air /\ c.what \in Carriers
    <3>1. Fits(c)
      BY <2>2 DEF CInv, HandleInv
    <3>2. c.handle.index \in Slots /\ c.handle.gen \in Nat /\ c.handle.gen < generation
      BY <3>1 DEF Fits, HandleType
    <3>3. CASE c.handle.index = k
      <4>1. slots'[c.handle.index].gen = generation
        BY <1>5, <3>3
      <4>2. ~ Resolves(c.handle)'
        BY <1>1, <3>2, <4>1 DEF Resolves
      <4>. QED  BY <1>1, <2>2, <3>1, <3>2, <4>2 DEF Fits, Resolves
    <3>4. CASE c.handle.index # k
      <4>1. slots'[c.handle.index] = table0[c.handle.index]
        BY <1>5, <3>2, <3>4
      <4>2. Resolves(c.handle)' => Resolves(c.handle) /\ slots'[c.handle.index] = slots[c.handle.index]
        BY <3>2, <4>1 DEF Resolves
      <4>3. c.handle.gen < generation'
        BY <1>1, <3>2
      <4>. QED  BY <2>2, <3>1, <4>2, <4>3 DEF Fits, Resolves
    <3>. QED  BY <3>3, <3>4
  <2>3. CASE c \notin air /\ c.what \in Carriers
    BY <1>2, <1>4, <1>5, <1>7, <2>3 DEF Fits, HandleType, Resolves
  <2>. QED  BY <2>2, <2>3 DEF CInv, HandleInv
<1>10. \A i \in Slots : slots'[i].used /\ i # k => slots'[i] = slots[i] /\ slots[i].owner # r
  BY <1>5
<1>11. SlotInv'
  <2>1. SUFFICES ASSUME NEW i \in Slots, slots'[i].used
                 PROVE  /\ Owes(i)'
                        /\ \A j \in Slots : slots'[j].used /\ slots'[j].owner = slots'[i].owner => j = i
    BY DEF SlotInv
  <2>2. CASE i = k
    BY <1>1, <1>2, <1>5, <1>10, <2>2 DEF Owes
  <2>3. CASE i # k
    <3>1. slots'[i] = slots[i] /\ slots[i].owner # r
      BY <1>10, <2>1, <2>3
    <3>2. Owes(i)
      BY <2>1, <3>1 DEF CInv, SlotInv
    <3>3. Owes(i)'
      <4>1. slots[i].owner \in Rids \ {r} /\ slots[i].gen \in Nat
        BY <1>1, <3>1, <3>2 DEF Owes, SlotType
      <4>2. slots'[i].gen < generation'
        BY <1>1, <3>1, <3>2, <4>1 DEF Owes
      <4>. QED  BY <3>1, <3>2, <4>1, <4>2 DEF Owes
    <3>4. slots[i].used
      BY <2>1, <3>1
    <3>5. ASSUME NEW j \in Slots, slots'[j].used, slots'[j].owner = slots'[i].owner
          PROVE  j = i
      BY <1>2, <1>5, <1>10, <3>1, <3>4, <3>5 DEF CInv, SlotInv
    <3>. QED  BY <3>3, <3>5
  <2>. QED  BY <2>2, <2>3
<1>12. NotYet' /\ Once'
  BY <1>1 DEF CInv, NotYet, Once
<1>13. AnsweredOrOpen'
  <2>1. SUFFICES ASSUME NEW q \in issued' \ anonymous
                 PROVE  replied'[q] = 1 \/ \E i \in Slots : slots'[i].used /\ slots'[i].rid = q
    BY DEF AnsweredOrOpen
  <2>2. CASE q = r
    BY <1>2, <1>5, <2>2
  <2>3. CASE q # r /\ replied[q] = 1
    BY <1>1, <2>1, <2>3
  <2>4. CASE q # r /\ \E i \in Slots : slots[i].used /\ slots[i].rid = q
    <3>1. PICK i \in Slots : slots[i].used /\ slots[i].rid = q
      BY <2>4
    <3>2. table0[i] = slots[i] /\ i # k
      BY <1>1, <1>2, <2>1, <3>1, RidAssumption
    <3>. QED  BY <1>5, <3>1, <3>2
  <2>. QED  BY <2>1, <2>2, <2>3, <2>4 DEF CInv, AnsweredOrOpen
<1>. QED  BY <1>8, <1>9, <1>11, <1>12, <1>13 DEF CInv

-----------------------------------------------------------------------------
(* Actions that change no slot and answer nothing.                         *)
LEMMA NothingKeeps ==
  ASSUME CInv, UNCHANGED <<generation, issued, replied, anonymous, verdicts>>,
         late' \subseteq Rids,
         slots' \in [Slots -> SlotType],
         \A i \in Slots : /\ slots'[i].used = slots[i].used /\ slots'[i].gen = slots[i].gen
                          /\ slots'[i].kind = slots[i].kind /\ slots'[i].rid = slots[i].rid
                          /\ slots'[i].owner = slots[i].owner,
         air' \subseteq air,
         confirming' = NoRid \/ confirming'.handle \in HandleType
  PROVE  CInv'
<1>1. TypeOK'
  BY DEF CInv, TypeOK, history
<1>2. HandleInv'
  <2>1. SUFFICES ASSUME NEW c \in air, c.what \in Carriers
                 PROVE  Fits(c)'
    BY DEF CInv, HandleInv
  <2>2. Fits(c)
    BY <2>1 DEF CInv, HandleInv
  <2>3. c.handle.index \in Slots
    BY <2>2 DEF Fits, HandleType
  <2>. QED  BY <2>2, <2>3 DEF Fits, Resolves
<1>3. SlotInv'
  <2>1. \A i \in Slots : slots[i].used => Owes(i)
    BY DEF CInv, SlotInv
  <2>2. \A i \in Slots : slots'[i].used => Owes(i)'
    BY <2>1 DEF Owes, history
  <2>3. \A i, j \in Slots : slots'[i].used /\ slots'[j].used /\ slots'[j].owner = slots'[i].owner
                            => j = i
    BY DEF CInv, SlotInv
  <2>. QED  BY <2>2, <2>3 DEF SlotInv
<1>4. NotYet' /\ Once' /\ AnsweredOrOpen'
  BY DEF CInv, NotYet, Once, AnsweredOrOpen, history
<1>. QED  BY <1>1, <1>2, <1>3, <1>4 DEF CInv

(* Commands that take no slot and keep none: refused, or sent in vain.     *)
LEMMA RefusalKeeps ==
  ASSUME CInv, NEW r \in Rids, r \notin issued, issued' = issued \cup {r},
         UNCHANGED <<slots, air, confirming, verdicts, late>>,
         \/ generation' = generation
         \/ generation < MaxAllocs /\ generation' = generation + 1,
         \/ anonymous' = anonymous \cup {r} /\ replied' = replied
         \/ anonymous' = anonymous /\ replied' = More(replied, {r})
  PROVE  CInv'
<1>1. /\ slots \in [Slots -> SlotType] /\ issued \subseteq Rids /\ anonymous \subseteq Rids
      /\ replied \in [Rids -> 0 .. 2] /\ generation \in Nat
      /\ generation \in 1 .. MaxAllocs + 1
  BY SpanAssumption DEF CInv, TypeOK
<1>2. /\ replied' \in [Rids -> 0 .. 2]
      /\ \A q \in Rids \ {r} : replied'[q] = replied[q]
      /\ replied'[r] \in {0, 1} /\ (r \notin anonymous' => replied'[r] = 1)
  <2>1. replied[r] = 0
    BY DEF CInv, NotYet
  <2>. QED  BY <1>1, <2>1, MoreCounts
<1>3. generation' \in 1 .. MaxAllocs + 1 /\ generation <= generation'
  BY <1>1, SpanAssumption
<1>4. TypeOK'
  BY <1>1, <1>2, <1>3 DEF CInv, TypeOK
<1>5. HandleInv'
  <2>1. SUFFICES ASSUME NEW c \in air, c.what \in Carriers
                 PROVE  Fits(c)'
    BY DEF CInv, HandleInv
  <2>2. Fits(c)
    BY <2>1 DEF CInv, HandleInv
  <2>3. c.handle.gen \in Nat
    BY <2>2 DEF Fits, HandleType
  <2>4. c.handle.gen < generation'
    BY <1>1, <1>3, <2>2, <2>3 DEF Fits
  <2>. QED  BY <2>2, <2>4 DEF Fits, Resolves
<1>6. SlotInv'
  <2>1. SUFFICES ASSUME NEW i \in Slots, slots[i].used
                 PROVE  Owes(i)'
    BY DEF CInv, SlotInv
  <2>2. Owes(i)
    BY <2>1 DEF CInv, SlotInv
  <2>3. slots[i].owner \in Rids \ {r} /\ slots[i].gen \in Nat
    BY <1>1, <2>2 DEF Owes, SlotType
  <2>4. slots[i].gen < generation'
    BY <1>1, <1>3, <2>2, <2>3 DEF Owes
  <2>. QED  BY <1>2, <2>2, <2>3, <2>4 DEF Owes
<1>7. NotYet'
  BY <1>1, <1>2 DEF CInv, NotYet
<1>8. Once'
  BY <1>1, <1>2 DEF CInv, Once
<1>9. AnsweredOrOpen'
  BY <1>1, <1>2 DEF CInv, AnsweredOrOpen
<1>. QED  BY <1>4, <1>5, <1>6, <1>7, <1>8, <1>9 DEF CInv

(* Counting nobody changes nothing.                                        *)
LEMMA MoreNone ==
  ASSUME NEW count \in [Rids -> 0 .. 2]
  PROVE  More(count, {}) = count
BY DEF More

(* One slot closed, as txn_release does it.                                *)
LEMMA ReleasedIs ==
  ASSUME NEW i \in Slots, slots \in [Slots -> SlotType]
  PROVE  Released(i) = [j \in Slots |-> IF j \in {i} THEN Free ELSE slots[j]]
BY DEF Released

(* Closing one slot: a command's is answered by its request id, a reporting *)
(* chain's by its verdict.                                                 *)
LEMMA CloseOneKeeps ==
  ASSUME CInv, NEW i \in Slots, slots[i].used, slots' = Released(i),
         UNCHANGED <<generation, issued, anonymous>>, late' \subseteq Rids,
         air' \subseteq air,
         confirming' = NoRid \/ confirming'.handle \in HandleType,
         \/ replied' = More(replied, {slots[i].rid}) /\ verdicts' = verdicts
         \/ /\ slots[i].kind \in Chain /\ replied' = replied
            /\ verdicts' = More(verdicts, {slots[i].owner})
  PROVE  CInv'
<1>1. /\ slots \in [Slots -> SlotType]
      /\ More(verdicts, {}) = verdicts /\ More(replied, {}) = replied
  BY MoreNone DEF CInv, TypeOK
<1> DEFINE D == {i}
           N == {}
<1>2. slots' = [j \in Slots |-> IF j \in D THEN Free ELSE slots[j]]
  BY <1>1, ReleasedIs
<1>3. D \subseteq Slots /\ \A j \in D : slots[j].used
  OBVIOUS
<1>4. CASE replied' = More(replied, {slots[i].rid}) /\ verdicts' = verdicts
  <2> DEFINE R == {slots[i].rid}
  <2>1. \A q \in Rids : q \in R <=> \E j \in D : slots[j].rid = q
    OBVIOUS
  <2>2. \A q \in N \cap Rids : \E j \in D : slots[j].owner = q /\ slots[j].kind \in Chain
    OBVIOUS
  <2>3. replied' = More(replied, R) /\ verdicts' = More(verdicts, N)
    BY <1>1, <1>4
  <2> HIDE DEF D, N, R
  <2>. QED  BY <1>2, <1>3, <2>1, <2>2, <2>3, CloseKeeps
<1>5. CASE /\ slots[i].kind \in Chain /\ replied' = replied
           /\ verdicts' = More(verdicts, {slots[i].owner})
  <2> DEFINE V == {slots[i].owner}
  <2>1. slots[i].rid = NoRid
    BY <1>5 DEF CInv, SlotInv, Owes
  <2>2. \A q \in Rids : q \in N <=> \E j \in D : slots[j].rid = q
    BY <2>1, RidAssumption
  <2>3. \A q \in V \cap Rids : \E j \in D : slots[j].owner = q /\ slots[j].kind \in Chain
    BY <1>5
  <2>4. replied' = More(replied, N) /\ verdicts' = More(verdicts, V)
    BY <1>1, <1>5
  <2> HIDE DEF D, N, V
  <2>. QED  BY <1>2, <1>3, <2>2, <2>3, <2>4, CloseKeeps
<1>. QED  BY <1>4, <1>5

-----------------------------------------------------------------------------
LEMMA NextCInv == CInv /\ [Next]_vars => CInv'
<1> SUFFICES ASSUME CInv, [Next]_vars
             PROVE  CInv'
  OBVIOUS
<1> USE DEF history, table
<1>1. /\ slots \in [Slots -> SlotType] /\ issued \subseteq Rids
      /\ replied \in [Rids -> 0 .. 2] /\ verdicts \in [Rids -> 0 .. 2]
      /\ generation \in Nat
      /\ confirming = NoRid \/ confirming.handle \in HandleType
      /\ \A c \in air : c.owner \in Rids
      /\ late \subseteq Rids
  BY SpanAssumption DEF CInv, TypeOK
<1>4. late' \subseteq Rids
  <2>1. CASE late' = late
    BY <1>1, <2>1
  <2>2. CASE \E c \in air : late' = late \cup {c.owner}
    BY <1>1, <2>2
  <2>3. CASE Callbacks
    BY <2>1, <2>2, <2>3 DEF Callbacks, Confirm, ConfigConfirm, ReadResponse, BindResult,
                            BindFails, Configure, ConfigResponse, Lose
  <2>. QED
    BY <2>1, <2>3 DEF Next, Commands, LockTimeout, Busy, SendFails, Command, EnableReporting,
                      Finish, Expire, Tick, vars
<1>2. \A i \in Slots : slots[i].used => Owes(i)
  BY DEF CInv, SlotInv
<1>3. \A c \in air : c.what \in Carriers => Fits(c) /\ c.handle.index \in Slots
  BY DEF CInv, HandleInv, Fits, HandleType
<1>5. \A i \in Slots :
        Released(i) = [j \in Slots |-> IF j \in {i} THEN Free ELSE slots[j]]
  BY <1>1, ReleasedIs
<1>6. ASSUME NEW r \in Rids, LockTimeout(r) \/ Busy(r) \/ SendFails(r)
      PROVE  CInv'
  <2>1. /\ r \notin issued /\ issued' = issued \cup {r}
        /\ UNCHANGED <<slots, air, confirming, verdicts, late>>
        /\ \/ generation' = generation
           \/ generation < MaxAllocs /\ generation' = generation + 1
        /\ \/ anonymous' = anonymous \cup {r} /\ replied' = replied
           \/ anonymous' = anonymous /\ replied' = More(replied, {r})
    BY <1>6 DEF LockTimeout, Busy, SendFails, Dispatch, InTurn, Reply
  <2>. QED  BY <2>1, RefusalKeeps
<1>7. ASSUME NEW r \in Rids, NEW a \in Addrs, NEW kind \in Kinds \ Chain, Command(r, kind, a)
      PROVE  CInv'
  <2>1. /\ r \notin issued /\ issued' = issued \cup {r} /\ ~ Full
        /\ generation < MaxAllocs /\ generation' = generation + 1
        /\ slots' = Opened(slots, kind, r, a, r)
        /\ UNCHANGED <<confirming, anonymous, verdicts, late, replied>>
        /\ air' \subseteq air \cup {Confirmation(NextHandle(slots), r), Answer(kind, a, r)}
    BY <1>7 DEF Command, Dispatch, InTurn
  <2>2. r \notin anonymous /\ replied[r] = 0
    BY <2>1 DEF CInv, NotYet
  <2>3. \A i \in Slots : slots[i].used => slots[i].owner # r
    BY <1>2, <2>1 DEF Owes
  <2>4. \E i \in Slots : ~ slots[i].used
    BY <2>1 DEF Full, FreeSlots
  <2>5. \A c \in air' \ air :
          /\ c.owner = r
          /\ c.what \in Carriers => c.handle = NextHandle(slots) /\ kind \in KindsOf(c.what)
          /\ c.what \notin Carriers => c.handle = NoRid
    <3>1. kind \notin Carriers
      BY DEF Kinds, Carriers, Chain
    <3>. QED  BY <2>1, <3>1 DEF Confirmation, Answer, Carriers, KindsOf
  <2>6. Opens(slots, r, kind, a, r)
    BY <1>1, <2>1, <2>2, <2>3, <2>4, <2>5 DEF Opens
  <2>. QED  BY <2>6, OpenKeeps
<1>8. ASSUME NEW r \in Rids, NEW a \in Addrs, EnableReporting(r, a)
      PROVE  CInv'
  <2> DEFINE kind == "bind"
  <2>1. /\ r \notin issued /\ issued' = issued \cup {r} /\ ~ Full
        /\ generation < MaxAllocs /\ generation' = generation + 1
        /\ slots' = Opened(slots, kind, NoRid, a, r)
        /\ UNCHANGED <<confirming, anonymous, verdicts, late>>
        /\ replied' = More(replied, {r})
    BY <1>8 DEF EnableReporting, Dispatch, InTurn, Reply
  <2>2. r \notin anonymous /\ replied[r] = 0 /\ verdicts'[r] = 0
    BY <2>1 DEF CInv, NotYet
  <2>3. /\ replied' \in [Rids -> 0 .. 2] /\ replied'[r] = 1
        /\ \A q \in Rids \ {r} : replied'[q] = replied[q]
    BY <1>1, <2>1, <2>2, MoreCounts
  <2>4. \A i \in Slots : slots[i].used => slots[i].owner # r
    BY <1>2, <2>1 DEF Owes
  <2>5. \E i \in Slots : ~ slots[i].used
    BY <2>1 DEF Full, FreeSlots
  <2>6. \A c \in air' \ air :
          /\ c.owner = r
          /\ c.what \in Carriers => c.handle = NextHandle(slots) /\ kind \in KindsOf(c.what)
          /\ c.what \notin Carriers => c.handle = NoRid
    BY <1>8 DEF EnableReporting, Carriers, KindsOf
  <2>7. kind \in Kinds /\ kind \in Chain
    BY DEF Kinds, Chain
  <2> HIDE DEF kind
  <2>8. Opens(slots, r, kind, a, NoRid)
    BY <1>1, <2>1, <2>2, <2>3, <2>4, <2>5, <2>6, <2>7 DEF Opens
  <2>. QED  BY <2>7, <2>8, OpenKeeps
<1>9. ASSUME NEW c \in air, Configure(c)
      PROVE  CInv'
  <2> DEFINE i == c.handle.index
             r == slots[i].owner
             kind == "config_report"
             table0 == Released(i)
             addr == slots[i].addr
  <2>1. /\ i \in Slots /\ slots[i].used /\ slots[i].kind = "bind"
    BY <1>3, <1>9 DEF Configure, Fits, Resolves, Carriers, KindsOf
  <2>2. /\ r \in issued \ anonymous /\ r \in Rids /\ verdicts[r] = 0
        /\ slots[i].rid = NoRid
    BY <1>1, <1>2, <2>1 DEF Owes, Chain
  <2>3. \A j \in Slots : slots[j].used /\ slots[j].owner = r => j = i
    BY <2>1 DEF CInv, SlotInv
  <2>4. replied[r] = 1
    <3>1. ASSUME NEW j \in Slots, slots[j].used, slots[j].rid = r
          PROVE  FALSE
      <4>1. slots[j].owner = r /\ slots[j].kind \notin Chain
        BY <1>2, <2>2, <3>1, RidAssumption DEF Owes
      <4>. QED  BY <2>1, <2>3, <3>1, <4>1 DEF Chain
    <3>. QED  BY <2>2, <3>1 DEF CInv, AnsweredOrOpen
  <2>5. /\ table0 \in [Slots -> SlotType]
        /\ ~ table0[i].used
        /\ \A j \in Slots \ {i} : table0[j] = slots[j]
    <3>1. Free \in SlotType /\ ~ Free.used
      BY DEF Free, SlotType, Kinds
    <3>. QED  BY <1>1, <1>5, <2>1, <3>1
  <2>6. /\ generation < MaxAllocs /\ generation' = generation + 1
        /\ slots' = Opened(table0, kind, NoRid, addr, r)
        /\ issued' = issued \cup {r}
        /\ UNCHANGED <<confirming, anonymous, verdicts, late, replied>>
    BY <1>9, <2>2 DEF Configure
  <2>7. \A d \in air' \ air :
          /\ d.owner = r
          /\ d.what \in Carriers => d.handle = NextHandle(table0) /\ kind \in KindsOf(d.what)
          /\ d.what \notin Carriers => d.handle = NoRid
    BY <1>9 DEF Configure, Answer, Carriers, KindsOf
  <2>8. kind \in Kinds /\ kind \in Chain /\ addr \in Addrs \cup {NoRid}
    BY <1>1, <2>1 DEF Kinds, Chain, SlotType
  <2>9. /\ \A j \in Slots : table0[j].used => table0[j] = slots[j]
        /\ \A j \in Slots : table0[j].used => slots[j].owner # r
        /\ \A j \in Slots : slots[j].used => table0[j] = slots[j] \/ slots[j].rid = NoRid
        /\ \E j \in Slots : ~ table0[j].used
    BY <2>1, <2>2, <2>3, <2>5
  <2> HIDE DEF i, r, kind, table0, addr
  <2>10. Opens(table0, r, kind, addr, NoRid)
    BY <1>1, <2>2, <2>4, <2>5, <2>6, <2>7, <2>8, <2>9 DEF Opens
  <2>. QED  BY <2>2, <2>8, <2>10, OpenKeeps
<1>10. CASE Expire
  <2> DEFINE due == {i \in Slots : slots[i].used /\ slots[i].left = 0}
             R == {slots[i].rid : i \in due}
             V == {slots[i].owner : i \in {j \in due : slots[j].kind = "config_report"}}
  <2>1. /\ slots' = [i \in Slots |-> IF i \in due THEN Free ELSE slots[i]]
        /\ replied' = More(replied, R) /\ verdicts' = More(verdicts, V)
        /\ UNCHANGED <<generation, air, confirming, issued, anonymous>>
    BY <1>10 DEF Expire, Reply, Verdict
  <2>2. \A q \in Rids : q \in R <=> \E i \in due : slots[i].rid = q
    OBVIOUS
  <2>3. \A q \in V \cap Rids : \E i \in due : slots[i].owner = q /\ slots[i].kind \in Chain
    BY DEF Chain
  <2>4. due \subseteq Slots /\ \A i \in due : slots[i].used
    OBVIOUS
  <2> HIDE DEF due, R, V
  <2>. QED  BY <1>1, <1>4, <2>1, <2>2, <2>3, <2>4, CloseKeeps
<1>11. CASE Finish
  <2> DEFINE i == confirming.handle.index
  <2>1. /\ i \in Slots /\ confirming' = NoRid
        /\ UNCHANGED <<generation, air, issued, history>>
    BY <1>1, <1>11 DEF Finish, HandleType
  <2>2. CASE UNCHANGED <<slots, replied>>
    BY <1>4, <1>1, <2>1, <2>2, NothingKeeps
  <2>3. CASE slots[i].used /\ slots' = Released(i) /\ replied' = More(replied, {slots[i].rid})
    BY <1>4, <2>1, <2>3, CloseOneKeeps
  <2>. QED  BY <1>11, <2>2, <2>3 DEF Finish, Resolves, Reply
<1>12. ASSUME NEW c \in air, ReadResponse(c)
       PROVE  CInv'
  <2>1. /\ air' \subseteq air
        /\ UNCHANGED <<generation, confirming, issued, anonymous, verdicts>>
    BY <1>12 DEF ReadResponse, Callback
  <2>2. CASE UNCHANGED <<slots, replied>>
    BY <1>4, <1>1, <2>1, <2>2, NothingKeeps
  <2>3. ASSUME NEW i \in Slots, slots[i].used, slots' = Released(i),
               replied' = More(replied, {slots[i].rid})
        PROVE  CInv'
    BY <1>4, <1>1, <2>1, <2>3, CloseOneKeeps
  <2>4. \A kind, addr, tsn : Matches(kind, addr, tsn) \subseteq {i \in Slots : slots[i].used}
    BY DEF Matches, Candidates
  <2>. QED  BY <1>12, <2>2, <2>3, <2>4 DEF ReadResponse, Reply
<1>13. ASSUME NEW c \in air, BindFails(c)
       PROVE  CInv'
  <2> DEFINE i == c.handle.index
  <2>1. /\ i \in Slots /\ slots[i].used /\ slots[i].kind = "bind" /\ slots[i].owner = c.owner
    BY <1>3, <1>13 DEF BindFails, Callback, Fits, Resolves, Carriers, KindsOf
  <2>2. /\ air' \subseteq air /\ slots' = Released(i) /\ verdicts' = More(verdicts, {c.owner})
        /\ UNCHANGED <<generation, confirming, issued, replied, anonymous>>
    BY <1>13 DEF BindFails, Callback, Verdict
  <2>3. slots[i].kind \in Chain
    BY <2>1 DEF Chain
  <2> HIDE DEF i
  <2>. QED  BY <1>4, <1>1, <2>1, <2>2, <2>3, CloseOneKeeps
<1>14. ASSUME NEW c \in air, NEW ok \in BOOLEAN, ConfigConfirm(c, ok)
       PROVE  CInv'
  <2> DEFINE i == c.handle.index
  <2>1. /\ air' \subseteq air /\ c.what \in Carriers /\ KindsOf(c.what) = {"config_report"}
        /\ UNCHANGED <<generation, confirming, issued, replied, anonymous>>
    BY <1>14 DEF ConfigConfirm, Callback, Carriers, KindsOf
  <2>2. CASE UNCHANGED <<slots, verdicts>>
    BY <1>4, <1>1, <2>1, <2>2, NothingKeeps
  <2>3. CASE Resolves(c.handle) /\ slots' = Released(i) /\ verdicts' = More(verdicts, {slots[i].owner})
    <3>1. i \in Slots /\ slots[i].used /\ slots[i].kind = "config_report"
      BY <1>3, <2>1, <2>3 DEF Fits, Resolves
    <3>2. slots[i].kind \in Chain
      BY <3>1 DEF Chain
    <3> HIDE DEF i
    <3>. QED  BY <1>4, <1>1, <2>1, <2>3, <3>1, <3>2, CloseOneKeeps
  <2>. QED  BY <1>14, <2>2, <2>3 DEF ConfigConfirm, Verdict
<1>15. ASSUME NEW c \in air, ConfigResponse(c)
       PROVE  CInv'
  <2>1. /\ air' \subseteq air
        /\ UNCHANGED <<generation, confirming, issued, replied, anonymous>>
    BY <1>15 DEF ConfigResponse, Callback
  <2>2. CASE UNCHANGED <<slots, verdicts>>
    BY <1>4, <1>1, <2>1, <2>2, NothingKeeps
  <2>3. ASSUME NEW i \in Slots, slots[i].used, slots[i].kind = "config_report",
               slots' = Released(i), verdicts' = More(verdicts, {slots[i].owner})
        PROVE  CInv'
    <3>1. slots[i].kind \in Chain
      BY <2>3 DEF Chain
    <3>. QED  BY <1>4, <1>1, <2>1, <2>3, <3>1, CloseOneKeeps
  <2> DEFINE found == Matches("config_report", c.addr, NoTsn)
  <2>4. \A i \in found : i \in Slots /\ slots[i].used /\ slots[i].kind = "config_report"
    BY DEF Matches, Candidates
  <2>5. \/ UNCHANGED <<slots, verdicts>>
        \/ \E i \in found :
              slots' = Released(i) /\ verdicts' = More(verdicts, {slots[i].owner})
    BY <1>15, Zenon DEF ConfigResponse, Verdict
  <2> HIDE DEF found
  <2>. QED  BY <2>2, <2>3, <2>4, <2>5
<1>16. ASSUME NEW c \in air, NEW ok \in BOOLEAN, Confirm(c, ok)
       PROVE  CInv'
  <2>1. /\ air' \subseteq air /\ UNCHANGED <<generation, issued, replied, history>>
        /\ c.what \in Carriers
    BY <1>16 DEF Confirm, Callback, Carriers
  <2>2. c.handle \in HandleType /\ c.handle.index \in Slots /\ c.owner \in Rids
    BY <1>1, <1>3, <2>1 DEF Fits
  <2>3. confirming' = NoRid \/ confirming'.handle \in HandleType
    BY <1>16, <2>2 DEF Confirm, Callback
  <2>4. \/ slots' = slots
        \/ slots' = [slots EXCEPT ![c.handle.index].tsn = c.owner]
    BY <1>16 DEF Confirm
  <2>5. /\ slots' \in [Slots -> SlotType]
        /\ \A i \in Slots :
              /\ slots'[i].used = slots[i].used /\ slots'[i].gen = slots[i].gen
              /\ slots'[i].kind = slots[i].kind /\ slots'[i].rid = slots[i].rid
              /\ slots'[i].owner = slots[i].owner
    BY <1>1, <2>2, <2>4 DEF SlotType
  <2>. QED  BY <1>4, <2>1, <2>3, <2>5, NothingKeeps
<1>17. CASE Tick
  <2>1. slots' = [i \in Slots |-> [slots[i] EXCEPT !.left = IF @ > 0 THEN @ - 1 ELSE 0]]
    BY <1>17 DEF Tick
  <2>2. /\ slots' \in [Slots -> SlotType]
        /\ \A i \in Slots :
              /\ slots'[i].used = slots[i].used /\ slots'[i].gen = slots[i].gen
              /\ slots'[i].kind = slots[i].kind /\ slots'[i].rid = slots[i].rid
              /\ slots'[i].owner = slots[i].owner
    BY <1>1, <2>1 DEF SlotType
  <2>. QED  BY <1>4, <1>1, <1>17, <2>2, NothingKeeps DEF Tick
<1>18. ASSUME NEW c \in air, BindResult(c) \/ Lose(c)
       PROVE  CInv'
  <2>1. /\ air' \subseteq air
        /\ UNCHANGED <<table, confirming, issued, replied, history>>
    BY <1>18 DEF BindResult, Lose, Callback
  <2>. QED  BY <1>4, <1>1, <2>1, NothingKeeps
<1>19. CASE UNCHANGED vars
  BY <1>4, <1>1, <1>19, NothingKeeps DEF vars
<1>20. CASE Commands
  <2>1. {"on_off", "read_attr", "read_report_cfg"} = Kinds \ Chain
    BY DEF Kinds, Chain
  <2>. QED  BY <1>6, <1>7, <1>8, <1>20, <2>1, RidAssumption DEF Commands
<1>21. CASE Callbacks
  BY <1>9, <1>12, <1>13, <1>14, <1>15, <1>16, <1>18, <1>21 DEF Callbacks
<1>. QED  BY <1>10, <1>11, <1>17, <1>19, <1>20, <1>21 DEF Next

-----------------------------------------------------------------------------
(* What is heard of a device after its chain was concluded.                *)

(* Whoever matches, somebody does: txn_match returns nothing only when no  *)
(* request of that kind to that address is open.                           *)
LEMMA SomebodyMatches ==
  ASSUME slots \in [Slots -> SlotType], NEW kind, NEW addr,
         NEW i \in Candidates(kind, addr, NoTsn)
  PROVE  Matches(kind, addr, NoTsn) # {}
<1> DEFINE open == Candidates(kind, addr, NoTsn)
           lefts == {slots[j].left : j \in open}
<1>1. open \subseteq Slots /\ \A j \in open : slots[j].left \in Nat
  BY DEF Candidates, SlotType
<1>2. lefts \subseteq Nat /\ slots[i].left \in lefts
  BY <1>1
<1>3. Matches(kind, addr, NoTsn) = {j \in open : \A k \in open : slots[j].left <= slots[k].left}
  BY DEF Matches
<1> HIDE DEF open
<1>4. \A k \in open : slots[k].left \in lefts
  OBVIOUS
<1>5. PICK m \in lefts : \A k \in lefts : <<k, m>> \notin OpToRel(<, Nat)
  <2> HIDE DEF lefts
  <2>. QED
    BY <1>2, WFMin, NatLessThanWellFounded
<1>6. PICK j \in open : slots[j].left = m
  OBVIOUS
<1> HIDE DEF lefts
<1>7. \A k \in lefts : ~ (k < m)
  BY <1>2, <1>5, Zenon DEF OpToRel
<1>8. \A k \in open : slots[j].left <= slots[k].left
  BY <1>1, <1>4, <1>6, <1>7
<1>. QED
  BY <1>3, <1>6, <1>8

(* What an action has to do for HeardInv: a chain stays concluded, and a   *)
(* configure whose transaction goes is concluded.                          *)
LEMMA HeardKeeps ==
  ASSUME HeardInv,
         \A r \in Rids : verdicts[r] = 1 => verdicts'[r] = 1,
         \A i \in Slots : slots[i].used /\ slots[i].kind = "config_report" =>
           \/ /\ slots'[i].used /\ slots'[i].kind = "config_report"
              /\ slots'[i].owner = slots[i].owner /\ slots'[i].addr = slots[i].addr
           \/ verdicts'[slots[i].owner] = 1,
         late \subseteq Rids, \A c \in air : c.owner \in Rids,
         \A r \in late' \ late : verdicts'[r] = 1,
         \A c \in air' \ air : c.what = "config_report" => Heard(c)'
  PROVE  HeardInv'
<1>1. \A r \in late' : verdicts'[r] = 1
  BY DEF HeardInv
<1>2. ASSUME NEW c \in air, c.what = "config_report"
      PROVE  Heard(c)'
  <2>1. CASE verdicts[c.owner] = 1
    BY <2>1 DEF Heard
  <2>2. ASSUME NEW i \in Slots, Awaits(i, c)
        PROVE  Heard(c)'
    BY <2>2 DEF Heard, Awaits
  <2>. QED
    BY <1>2, <2>1, <2>2 DEF HeardInv, Heard
<1>. QED
  BY <1>1, <1>2 DEF HeardInv

(* Counting once more never makes a count of one another.                  *)
LEMMA OneStays ==
  ASSUME CInv, CInv', NEW V, verdicts' = More(verdicts, V)
  PROVE  /\ \A r \in Rids : verdicts[r] = 1 => verdicts'[r] = 1
         /\ \A r \in V \cap Rids : verdicts'[r] = 1
<1>1. /\ verdicts \in [Rids -> 0 .. 2] /\ verdicts' \in [Rids -> 0 .. 2]
      /\ \A r \in Rids : verdicts[r] <= 1 /\ verdicts'[r] <= 1
  BY DEF CInv, TypeOK, Once
<1>2. \A r \in Rids : verdicts'[r] = IF r \in V /\ verdicts[r] < 2 THEN verdicts[r] + 1
                                     ELSE verdicts[r]
  BY DEF More
<1>. QED
  BY <1>1, <1>2

(* Between its two critical sections cmd_confirm_cb excludes everybody who *)
(* could open a slot.                                                      *)
LEMMA NextConfirms == CInv /\ ConfirmsCommand /\ [Next]_vars => ConfirmsCommand'
<1> SUFFICES ASSUME CInv, ConfirmsCommand, [Next]_vars, confirming' # NoRid,
                    Resolves(confirming.handle)'
             PROVE  slots'[confirming'.handle.index].kind \notin Chain
  BY DEF ConfirmsCommand
<1> USE DEF history, table
<1>1. slots \in [Slots -> SlotType]
  BY DEF CInv, TypeOK
<1>2. CASE confirming = NoRid
  <2>1. PICK c \in air, ok \in BOOLEAN : Confirm(c, ok)
    BY <1>2, Zenon DEF Next, Commands, LockTimeout, Busy, SendFails, Command, EnableReporting,
       Callbacks, ConfigConfirm, ReadResponse, BindResult, BindFails, Configure, ConfigResponse,
       Lose, Finish, Expire, Tick, vars
  <2>2. Resolves(c.handle) /\ confirming'.handle = c.handle /\ c.what = "confirm"
        /\ slots' = [slots EXCEPT ![c.handle.index].tsn = c.owner]
    BY <1>2, <2>1 DEF Confirm, Callback
  <2>3. c.handle.index \in Slots /\ slots[c.handle.index].kind \in KindsOf("confirm")
    BY <2>2 DEF CInv, HandleInv, Fits, HandleType, Carriers
  <2>4. slots'[c.handle.index].kind = slots[c.handle.index].kind
    BY <1>1, <2>2, <2>3 DEF SlotType
  <2>. QED
    BY <2>2, <2>3, <2>4 DEF KindsOf
<1>3. CASE confirming # NoRid
  <2>1. /\ confirming' = confirming
        /\ \/ slots' = slots
           \/ slots' = [i \in Slots |-> [slots[i] EXCEPT !.left = IF @ > 0 THEN @ - 1 ELSE 0]]
           \/ \E D \in SUBSET Slots : slots' = [i \in Slots |-> IF i \in D THEN Free ELSE slots[i]]
    <3>1. CASE Tick
      BY <3>1 DEF Tick
    <3>2. CASE Expire
      BY <3>2 DEF Expire
    <3>. QED
      BY <1>3, <3>1, <3>2 DEF Next, Commands, LockTimeout, Busy, SendFails, Dispatch, Command,
         EnableReporting, Callbacks, Callback, Confirm, ConfigConfirm, ReadResponse, BindResult,
         BindFails, Configure, ConfigResponse, Lose, Finish, vars
  <2> DEFINE i == confirming.handle.index
  <2>2. i \in Slots
    BY <1>3 DEF CInv, TypeOK, HandleType
  <2>3. slots'[i].used /\ slots'[i].gen = confirming.handle.gen
    BY <2>1 DEF Resolves
  <2>4. slots'[i].used = slots[i].used /\ slots'[i].gen = slots[i].gen /\ slots'[i].kind = slots[i].kind
    <3>1. slots[i] \in SlotType
      BY <1>1, <2>2
    <3>. HIDE DEF i
    <3>2. CASE slots' = slots
      BY <3>2
    <3>3. CASE slots' = [k \in Slots |-> [slots[k] EXCEPT !.left = IF @ > 0 THEN @ - 1 ELSE 0]]
      BY <3>1, <3>3, <2>2 DEF SlotType
    <3>4. ASSUME NEW D \in SUBSET Slots, slots' = [k \in Slots |-> IF k \in D THEN Free ELSE slots[k]]
          PROVE  slots'[i] = slots[i]
      <4>1. i \notin D
        BY <3>4, <2>2, <2>3 DEF Free
      <4>. QED
        BY <3>4, <4>1, <2>2
    <3>. QED
      BY <2>1, <3>2, <3>3, <3>4
  <2>. QED
    BY <1>3, <2>1, <2>3, <2>4 DEF ConfirmsCommand, Resolves
<1>. QED
  BY <1>2, <1>3

LEMMA NextHeard == CInv /\ CInv' /\ ConfirmsCommand /\ HeardInv /\ [Next]_vars => HeardInv'
<1> SUFFICES ASSUME CInv, CInv', ConfirmsCommand, HeardInv, [Next]_vars
             PROVE  HeardInv'
  OBVIOUS
<1> USE DEF history, table
<1>1. /\ slots \in [Slots -> SlotType] /\ late \subseteq Rids
      /\ \A c \in air : c.owner \in Rids
      /\ verdicts \in [Rids -> 0 .. 2]
  BY DEF CInv, TypeOK
<1>2. \A i \in Slots : slots[i].used => slots[i].owner \in Rids
  BY DEF CInv, TypeOK, SlotInv, Owes
<1>3. \A c \in air : c.what \in Carriers => Fits(c) /\ c.handle.index \in Slots
  BY DEF CInv, HandleInv, Fits, HandleType
<1>4. verdicts = More(verdicts, {})
  BY <1>1, MoreNone
\* One slot is closed, and if a configure waited in it, its chain is concluded.
<1>5. ASSUME NEW i \in Slots, slots[i].used, slots' = Released(i), late' = late, air' \subseteq air,
             NEW V, verdicts' = More(verdicts, V),
             slots[i].kind = "config_report" => slots[i].owner \in V
      PROVE  HeardInv'
  <2>1. \A j \in Slots \ {i} : slots'[j] = slots[j]
    BY <1>1, <1>5 DEF Released
  <2>. QED
    BY <1>1, <1>2, <1>5, <2>1, OneStays, HeardKeeps
\* No configure is touched.
<1>6. ASSUME \A i \in Slots : slots[i].used /\ slots[i].kind = "config_report" =>
               /\ slots'[i].used /\ slots'[i].kind = "config_report"
               /\ slots'[i].owner = slots[i].owner /\ slots'[i].addr = slots[i].addr,
             late' = late, verdicts' = verdicts,
             \A c \in air' \ air : c.what # "config_report"
      PROVE  HeardInv'
  BY <1>1, <1>6, HeardKeeps
<1>7. ASSUME NEW r \in Rids, LockTimeout(r) \/ Busy(r) \/ SendFails(r)
      PROVE  HeardInv'
  BY <1>6, <1>7 DEF LockTimeout, Busy, SendFails, Dispatch
<1>8. ASSUME NEW r \in Rids, NEW a \in Addrs, NEW kind \in Kinds, NEW rid,
             ~ Full, slots' = Opened(slots, kind, rid, a, r), late' = late, verdicts' = verdicts,
             \A c \in air' \ air : c.what # "config_report"
      PROVE  HeardInv'
  <2> DEFINE k == Lowest({i \in Slots : ~ slots[i].used})
  <2>1. k \in Slots /\ ~ slots[k].used
    BY <1>8, LowestIn DEF Full, FreeSlots
  <2> HIDE DEF k
  <2>2. \A i \in Slots \ {k} : slots'[i] = slots[i]
    BY <1>1, <1>8, <2>1 DEF Opened, k
  <2>. QED
    BY <1>6, <1>8, <2>1, <2>2
<1>9. ASSUME NEW r \in Rids, NEW a \in Addrs, NEW kind \in Kinds \ Chain, Command(r, kind, a)
      PROVE  HeardInv'
  <2>1. kind # "config_report"
    BY DEF Chain
  <2>2. \A c \in air' \ air : c.what # "config_report"
    BY <1>9, <2>1 DEF Command, Confirmation, Answer
  <2>. QED
    BY <1>8, <1>9, <2>2 DEF Command
<1>10. ASSUME NEW r \in Rids, NEW a \in Addrs, EnableReporting(r, a)
       PROVE  HeardInv'
  <2>1. \A c \in air' \ air : c.what # "config_report"
    BY <1>10 DEF EnableReporting
  <2>2. "bind" \in Kinds
    BY DEF Kinds
  <2>. QED
    BY <1>8, <1>10, <2>1, <2>2 DEF EnableReporting
<1>11. ASSUME NEW c \in air, Configure(c)
       PROVE  HeardInv'
  <2> DEFINE i == c.handle.index
             table0 == Released(i)
             k == Lowest({j \in Slots : ~ table0[j].used})
  <2>1. i \in Slots /\ slots[i].used /\ slots[i].kind = "bind"
    BY <1>3, <1>11 DEF Configure, Fits, Resolves, Carriers, KindsOf
  <2>2. ~ table0[i].used /\ \A j \in Slots \ {i} : table0[j] = slots[j]
    BY <1>1, <2>1 DEF Released, Free
  <2>3. k \in Slots /\ ~ table0[k].used
    BY <2>1, <2>2, LowestIn
  <2> HIDE DEF k
  <2>4. slots' = [table0 EXCEPT ![k] =
                    [used |-> TRUE, gen |-> generation, kind |-> "config_report", rid |-> NoRid,
                     addr |-> slots[i].addr, tsn |-> NoTsn, left |-> Timeout["config_report"],
                     owner |-> slots[i].owner]]
    BY <1>11 DEF Configure, Opened, k
  <2>5. DOMAIN table0 = Slots
    BY <1>1 DEF Released
  <2> HIDE DEF table0
  <2>6. /\ \A j \in Slots \ {k} : slots'[j] = table0[j]
        /\ slots'[k].used /\ slots'[k].kind = "config_report"
        /\ slots'[k].owner = slots[i].owner /\ slots'[k].addr = slots[i].addr
    BY <2>3, <2>4, <2>5
  <2>7. ASSUME NEW j \in Slots, slots[j].used, slots[j].kind = "config_report"
        PROVE  slots'[j] = slots[j]
    BY <2>1, <2>2, <2>3, <2>6, <2>7
  <2>8. ASSUME NEW d \in air' \ air, d.what = "config_report"
        PROVE  Heard(d)'
    <3>1. d.owner = slots[i].owner /\ d.addr = slots[i].addr
      BY <1>11, <2>8 DEF Configure, Answer
    <3>. QED
      BY <2>3, <2>6, <3>1 DEF Heard, Awaits
  <2>9. late' = late /\ verdicts' = verdicts
    BY <1>11 DEF Configure
  <2>. QED
    BY <1>1, <2>7, <2>8, <2>9, HeardKeeps
<1>12. CASE Expire
  <2> DEFINE due == {i \in Slots : slots[i].used /\ slots[i].left = 0}
             V == {slots[i].owner : i \in {j \in due : slots[j].kind = "config_report"}}
  <2>1. /\ slots' = [i \in Slots |-> IF i \in due THEN Free ELSE slots[i]]
        /\ verdicts' = More(verdicts, V) /\ UNCHANGED <<air, late>>
    BY <1>12 DEF Expire, Verdict
  <2>2. \A i \in due : slots[i].kind = "config_report" => slots[i].owner \in V
    OBVIOUS
  <2> HIDE DEF due, V
  <2>3. \A i \in Slots \ due : slots'[i] = slots[i]
    BY <2>1
  <2>. QED
    BY <1>1, <1>2, <2>1, <2>2, <2>3, OneStays, HeardKeeps
<1>13. CASE Finish
  <2> DEFINE i == confirming.handle.index
  <2>1. i \in Slots /\ late' = late /\ verdicts' = verdicts /\ air' = air
    BY <1>13 DEF Finish, CInv, TypeOK, HandleType
  <2>2. CASE slots' = slots
    BY <1>6, <2>1, <2>2
  <2>3. CASE slots' = Released(i) /\ Resolves(confirming.handle)
    <3>1. slots[i].used /\ slots[i].kind # "config_report"
      BY <1>13, <2>3 DEF Finish, ConfirmsCommand, Resolves, Chain
    <3>. QED
      BY <1>4, <1>5, <2>1, <2>3, <3>1
  <2>. QED
    BY <1>13, <2>2, <2>3 DEF Finish
<1>14. ASSUME NEW c \in air, ReadResponse(c)
       PROVE  HeardInv'
  <2>1. air' \subseteq air /\ late' = late /\ verdicts' = verdicts
    BY <1>14 DEF ReadResponse, Callback
  <2>2. CASE slots' = slots
    BY <1>6, <2>1, <2>2
  <2>3. ASSUME NEW kind \in {"read_attr", "read_report_cfg"}, NEW tsn,
               NEW i \in Matches(kind, c.addr, tsn), slots' = Released(i)
        PROVE  HeardInv'
    <3>1. i \in Slots /\ slots[i].used /\ slots[i].kind # "config_report"
      BY DEF Matches, Candidates
    <3>. QED
      BY <1>4, <1>5, <2>1, <2>3, <3>1
  <2>. QED
    BY <1>14, <2>2, <2>3 DEF ReadResponse
<1>15. ASSUME NEW c \in air, BindFails(c)
       PROVE  HeardInv'
  <2> DEFINE i == c.handle.index
  <2>1. i \in Slots /\ slots[i].used /\ slots[i].kind = "bind"
    BY <1>3, <1>15 DEF BindFails, Callback, Fits, Resolves, Carriers, KindsOf
  <2>2. slots' = Released(i) /\ late' = late /\ air' \subseteq air /\ verdicts' = More(verdicts, {c.owner})
    BY <1>15 DEF BindFails, Callback, Verdict
  <2> HIDE DEF i
  <2>. QED
    BY <1>5, <2>1, <2>2
<1>16. ASSUME NEW c \in air, NEW ok \in BOOLEAN, ConfigConfirm(c, ok)
       PROVE  HeardInv'
  <2> DEFINE i == c.handle.index
  <2>1. air' \subseteq air /\ late' = late /\ i \in Slots
    BY <1>3, <1>16 DEF ConfigConfirm, Callback, Carriers
  <2>2. CASE slots' = slots /\ verdicts' = verdicts
    BY <1>6, <2>1, <2>2
  <2>3. CASE slots[i].used /\ slots' = Released(i) /\ verdicts' = More(verdicts, {slots[i].owner})
    <3> HIDE DEF i
    <3>. QED
      BY <1>5, <2>1, <2>3
  <2>. QED
    BY <1>16, <2>2, <2>3 DEF ConfigConfirm, Verdict, Resolves
<1>17. ASSUME NEW c \in air, ConfigResponse(c)
       PROVE  HeardInv'
  <2> DEFINE found == Matches("config_report", c.addr, NoTsn)
  <2>1. air' \subseteq air /\ c.what = "config_report"
    BY <1>17 DEF ConfigResponse, Callback
  <2>2. CASE found = {} /\ late' = late \cup {c.owner} /\ slots' = slots /\ verdicts' = verdicts
    <3>1. \A i \in Slots : ~ Awaits(i, c)
      <4>1. SUFFICES ASSUME NEW i \in Slots, Awaits(i, c)
                     PROVE  FALSE
        OBVIOUS
      <4>2. i \in Candidates("config_report", c.addr, NoTsn)
        BY <4>1 DEF Awaits, Candidates
      <4>. QED
        BY <1>1, <2>2, <4>2, SomebodyMatches
    <3>2. verdicts[c.owner] = 1
      BY <2>1, <3>1 DEF HeardInv, Heard
    <3>. QED
      BY <1>1, <2>1, <2>2, <3>2, HeardKeeps
  <2>3. ASSUME NEW i \in found, slots' = Released(i), verdicts' = More(verdicts, {slots[i].owner}),
               late' = late
        PROVE  HeardInv'
    <3>1. i \in Slots /\ slots[i].used
      BY DEF Matches, Candidates
    <3>. QED
      BY <1>5, <2>1, <2>3, <3>1
  <2>4. \/ found = {} /\ late' = late \cup {c.owner} /\ slots' = slots /\ verdicts' = verdicts
        \/ \E i \in found : /\ slots' = Released(i) /\ verdicts' = More(verdicts, {slots[i].owner})
                            /\ late' = late
    BY <1>17, Zenon DEF ConfigResponse, Verdict
  <2> HIDE DEF found
  <2>. QED
    BY <2>2, <2>3, <2>4
<1>18. ASSUME NEW c \in air, NEW ok \in BOOLEAN, Confirm(c, ok)
       PROVE  HeardInv'
  <2>1. c.handle.index \in Slots /\ late' = late /\ verdicts' = verdicts /\ air' \subseteq air
    BY <1>3, <1>18 DEF Confirm, Callback, Carriers
  <2>2. slots' = slots \/ slots' = [slots EXCEPT ![c.handle.index].tsn = c.owner]
    BY <1>18 DEF Confirm
  <2>3. \A i \in Slots : /\ slots'[i].used = slots[i].used /\ slots'[i].kind = slots[i].kind
                         /\ slots'[i].owner = slots[i].owner /\ slots'[i].addr = slots[i].addr
    BY <1>1, <2>1, <2>2 DEF SlotType
  <2>. QED
    BY <1>6, <2>1, <2>3
<1>19. CASE Tick
  <2>1. slots' = [i \in Slots |-> [slots[i] EXCEPT !.left = IF @ > 0 THEN @ - 1 ELSE 0]]
    BY <1>19 DEF Tick
  <2>2. \A i \in Slots : /\ slots'[i].used = slots[i].used /\ slots'[i].kind = slots[i].kind
                         /\ slots'[i].owner = slots[i].owner /\ slots'[i].addr = slots[i].addr
    BY <1>1, <2>1 DEF SlotType
  <2>. QED
    BY <1>6, <1>19, <2>2 DEF Tick
<1>20. ASSUME NEW c \in air, BindResult(c) \/ Lose(c)
       PROVE  HeardInv'
  BY <1>6, <1>20 DEF BindResult, Lose, Callback
<1>21. CASE UNCHANGED vars
  BY <1>6, <1>21 DEF vars
<1>22. CASE Commands
  <2>1. {"on_off", "read_attr", "read_report_cfg"} = Kinds \ Chain
    BY DEF Kinds, Chain
  <2>. QED
    BY <1>7, <1>9, <1>10, <1>22, <2>1, RidAssumption DEF Commands
<1>23. CASE Callbacks
  BY <1>11, <1>14, <1>15, <1>16, <1>17, <1>18, <1>20, <1>23 DEF Callbacks
<1>. QED
  BY <1>12, <1>13, <1>19, <1>21, <1>22, <1>23 DEF Next

-----------------------------------------------------------------------------
(* The account of the table holds for every coordinator: each used slot is *)
(* the only one of its request and owes it one answer, each handle is of a *)
(* generation already given out, and a device that may still answer a      *)
(* configure is waited for, or its chain has been concluded.               *)
THEOREM Inductive == Spec => [](CInv /\ ConfirmsCommand /\ HeardInv)
<1>1. Init => ConfirmsCommand /\ HeardInv
  BY DEF Init, ConfirmsCommand, HeardInv
<1>. QED
  BY <1>1, InitCInv, NextCInv, NextConfirms, NextHeard, PTL DEF Spec

(* Whatever the order of the confirms, the responses, the sweep and the    *)
(* reuse of slots, no command is answered twice and every reporting chain  *)
(* is concluded once, also when the generation in a handle has wrapped: a  *)
(* response for which no transaction is left comes after the conclusion.   *)
THEOREM AnsweredOnce == Spec => []OneReply
<1>1. CInv /\ HeardInv => OneReply
  BY DEF CInv, Once, HeardInv, OneReply
<1>. QED
  BY <1>1, Inductive, PTL

(* No command that was taken with its id is forgotten: it is answered or a *)
(* slot that is still open owes it the answer.                             *)
THEOREM NothingForgotten == Spec => []AnsweredOrOpen
<1>1. CInv => AnsweredOrOpen
  BY DEF CInv
<1>. QED
  BY <1>1, Inductive, PTL

(* The callback of a request that expired never finds the request that     *)
(* reuses its slot: txn_get compares the generations.                      *)
THEOREM LateCallbacksHarmless == Spec => []HandleFindsOwner
<1>1. CInv => HandleFindsOwner
  BY DEF CInv, HandleInv, Fits, HandleFindsOwner
<1>. QED  BY <1>1, Inductive, PTL

-----------------------------------------------------------------------------
(* The UART link.                                                          *)

Token == [n : Nat, i : Nat]

FrameNames ==
  {"pong", "reply", "error", "boot", "network_formed", "formation_failed", "network_down",
   "device_joined", "device_left", "device_endpoints", "device_clusters"}
FrameType == [type : FrameNames, n : Nat, up : BOOLEAN]

LinkShape ==
  /\ LinkTypeOK
  /\ rx \in Seq(Token)
  /\ lines \in [buf : Seq(Token), overrun : BOOLEAN]
  /\ rxq \in Seq(Nat)
  /\ txq \in Seq(FrameType)

\* A frame that names a command is its reply.
Words == \A k \in DOMAIN txq : txq[k].n # Ping => txq[k].type = "reply"

\* What arrived of a line is in the buffer, unless it overran.
Begun ==
  /\ ~ lines.overrun => \A n \in begun : \E k \in DOMAIN lines.buf : lines.buf[k].n = n
  /\ \A k \in DOMAIN lines.buf : lines.buf[k].n \in begun

\* The whole frame of n is on the wire, on a line of its own.
Ahead(n) ==
  \E k \in DOMAIN rx :
    /\ rx[k] = Newline
    /\ k + Size(n) + 1 \in DOMAIN rx /\ rx[k + Size(n) + 1] = Newline
    /\ \A j \in 1 .. Size(n) : rx[k + j] = [n |-> n, i |-> j]

\* The first part of the frame is in the buffer, the rest is at the head.
Coming(n) ==
  LET had == Len(lines.buf)
  IN  /\ ~ lines.overrun /\ had <= Size(n)
      /\ \A j \in 1 .. had : lines.buf[j] = [n |-> n, i |-> j]
      /\ Size(n) - had + 1 \in DOMAIN rx /\ rx[Size(n) - had + 1] = Newline
      /\ \A j \in had + 1 .. Size(n) : rx[j - had] = [n |-> n, i |-> j]

\* The next command will start a line.
EndsClean ==
  \/ rx = <<>> /\ lines = Fresh
  \/ rx # <<>> /\ rx[Len(rx)] = Newline
  \/ next \in spoilt \cup lapsed

Spared(n) ==
  \/ n \in spoilt \cup taken \cup refused \cup lapsed
  \/ Ahead(n) \/ Coming(n) \/ Size(n) > ItemMax

\* The frame of n waits for tx_task.
InTxq(n) == \E k \in DOMAIN txq : txq[k].n = n

Traced(n) ==
  \/ n \in begun \/ \E k \in DOMAIN rx : rx[k].n = n
  \/ \E k \in DOMAIN rxq : rxq[k] = n
  \/ n \in answered \cup counted \cup lapsed \/ InTxq(n)
  \/ n \in spoilt /\ Size(n) = 1

LinkInv ==
  /\ LinkShape /\ Words /\ Begun /\ EndsClean
  /\ \A n \in 1 .. next - 1 : Spared(n) /\ Traced(n)

-----------------------------------------------------------------------------
LEMMA SizeFacts ==
  ASSUME NEW n \in 1 .. Len(Sizes)
  PROVE  /\ n \in Nat /\ n # Ping /\ Size(n) \in Nat \ {0}
         /\ Tokens(n) \in Seq(Token) /\ Len(Tokens(n)) = Size(n)
         /\ \A j \in 1 .. Size(n) : /\ Tokens(n)[j] = [n |-> n, i |-> j]
                                    /\ Tokens(n)[j] # Newline
<1>1. n \in Nat /\ n # Ping /\ Size(n) = Sizes[n]
  BY LinkAssumption DEF Ping, Size
<1>2. Sizes[n] \in Nat \ {0}
  BY LinkAssumption, ElementOfSeq
<1>3. \A j \in 1 .. Size(n) : [n |-> n, i |-> j] \in Token
  BY <1>1, <1>2 DEF Token
<1>4. Tokens(n) \in [1 .. Size(n) -> Token]
  BY <1>3 DEF Tokens
<1>5. Tokens(n) \in Seq(Token) /\ Len(Tokens(n)) = Size(n)
  BY <1>1, <1>2, <1>4, IsASeq
<1>6. ASSUME NEW j \in 1 .. Size(n)
      PROVE  Tokens(n)[j] = [n |-> n, i |-> j] /\ Tokens(n)[j] # Newline
  <2>1. Tokens(n)[j] = [n |-> n, i |-> j]
    BY <1>6 DEF Tokens
  <2>2. [n |-> n, i |-> j].n = n /\ Newline.n = Ping
    BY DEF Newline
  <2> QED
    BY <1>1, <2>1, <2>2
<1> QED
  BY <1>1, <1>2, <1>5, <1>6

LEMMA NewlineIs == Newline \in Token /\ Newline.n = Ping /\ Newline.i = 0
  BY DEF Newline, Token, Ping

LEMMA PingIs == /\ Size(Ping) = 1 /\ Ping = 0
                /\ Append(Tokens(Ping), Newline) \in Seq(Token)
                /\ Len(Append(Tokens(Ping), Newline)) = 2
                /\ Append(Tokens(Ping), Newline)[2] = Newline
<1>1. Tokens(Ping) \in [1 .. 1 -> Token] /\ 1 \in Nat
  BY DEF Tokens, Size, Ping, Token
<1>2. Tokens(Ping) \in Seq(Token) /\ Len(Tokens(Ping)) = 1
  <2>1. \A m \in Nat : \A s \in [1 .. m -> Token] : s \in Seq(Token) /\ Len(s) = m
    BY IsASeq
  <2> QED
    BY <1>1, <2>1
<1> QED
  BY <1>2, NewlineIs, AppendProperties DEF Size, Ping

\* What _write_cmd puts on the wire.
LEMMA WriteLeaves ==
  ASSUME NEW n \in 1 .. Len(Sizes), next = n, Write(n)
  PROVE  \E w \in Seq(Token) :
           /\ w # <<>> /\ rx' = rx \o w
           /\ \/ /\ spoilt' = spoilt
                 /\ Len(w) = Size(n) + 1 /\ w[Size(n) + 1] = Newline
                 /\ \A j \in 1 .. Size(n) : w[j] = [n |-> n, i |-> j]
              \/ /\ spoilt \subseteq spoilt' /\ n \in spoilt'
                 /\ w[Len(w)] = Newline \/ n + 1 \in spoilt'
                 /\ Size(n) = 1 \/ \E k \in DOMAIN w : w[k].n = n
<1> DEFINE line == Append(Tokens(n), Newline)
<1>1. /\ line \in Seq(Token) /\ Len(line) = Size(n) + 1 /\ line[Size(n) + 1] = Newline
      /\ \A j \in 1 .. Size(n) : line[j] = [n |-> n, i |-> j]
      /\ DOMAIN line = 1 .. Size(n) + 1
  BY SizeFacts, NewlineIs, AppendProperties
<1>2. Size(n) \in Nat \ {0} /\ n # Ping
  BY SizeFacts
<1>3. CASE rx' = rx \o line /\ UNCHANGED <<damage, spoilt>>
  <2>1. line # <<>>
    BY <1>1, <1>2
  <2> QED
    BY <1>1, <1>3, <2>1
<1>4. CASE \E i \in DOMAIN line :
             /\ rx' = rx \o RemoveAt(line, i)
             /\ spoilt' = spoilt \cup (IF line[i] = Newline THEN {n, next + 1} ELSE {n})
  <2>1. PICK i \in DOMAIN line :
             /\ rx' = rx \o RemoveAt(line, i)
             /\ spoilt' = spoilt \cup (IF line[i] = Newline THEN {n, next + 1} ELSE {n})
    BY <1>4
  <2> DEFINE a == SubSeq(line, 1, i - 1)
             b == SubSeq(line, i + 1, Len(line))
             w == RemoveAt(line, i)
  <2>2. i \in 1 .. Size(n) + 1 /\ i \in Int
    BY <1>1, <1>2
  <2>3. /\ a \in Seq(Token) /\ Len(a) = i - 1
        /\ \A j \in 1 .. i - 1 : a[j] = line[j]
    BY <1>1, <1>2, <2>2, SubSeqProperties
  <2>4. /\ b \in Seq(Token) /\ Len(b) = Size(n) + 1 - i
        /\ \A j \in 1 .. Size(n) + 1 - i : b[j] = line[j + i]
    <3>1. /\ i + 1 \in Int /\ Size(n) + 1 \in Int /\ Len(line) = Size(n) + 1
          /\ \A k \in i + 1 .. Size(n) + 1 : line[k] \in Token
      BY <1>1, <1>2, <2>2, ElementOfSeq
    <3> DEFINE c == SubSeq(line, i + 1, Size(n) + 1)
    <3> HIDE DEF line
    <3>2. /\ c \in Seq(Token)
          /\ Len(c) = IF i + 1 <= Size(n) + 1 THEN (Size(n) + 1) - (i + 1) + 1 ELSE 0
          /\ \A j \in 1 .. (Size(n) + 1) - (i + 1) + 1 : c[j] = line[(i + 1) + j - 1]
      BY <3>1, SubSeqProperties
    <3>3. b = c
      BY <3>1
    <3> HIDE DEF b, c
    <3>4. Len(c) = Size(n) + 1 - i
      BY <1>2, <2>2, <3>2
    <3>5. ASSUME NEW j \in 1 .. Size(n) + 1 - i
          PROVE  c[j] = line[j + i]
      <4>1. j \in 1 .. (Size(n) + 1) - (i + 1) + 1 /\ (i + 1) + j - 1 = j + i
        BY <1>2, <2>2, <3>5
      <4>2. c[j] = line[(i + 1) + j - 1]
        BY <3>2, <4>1
      <4> QED
        BY <4>1, <4>2
    <3> QED
      BY <3>2, <3>3, <3>4, <3>5
  <2> HIDE DEF line
  <2>5. w = a \o b
    BY DEF RemoveAt
  <2> HIDE DEF a, b, w
  <2>6. /\ w \in Seq(Token) /\ Len(w) = Size(n)
        /\ \A j \in 1 .. i - 1 : w[j] = line[j]
        /\ \A j \in i .. Size(n) : w[j] = line[j + 1]
    <3>1. w \in Seq(Token) /\ Len(w) = Len(a) + Len(b)
      BY <2>3, <2>4, <2>5, ConcatProperties
    <3>2. \A j \in 1 .. Len(a) + Len(b) : w[j] = IF j <= Len(a) THEN a[j] ELSE b[j - Len(a)]
      BY <2>3, <2>4, <2>5, ConcatProperties
    <3>3. \A j \in 1 .. i - 1 : w[j] = line[j]
      <4>1. ASSUME NEW j \in 1 .. i - 1
            PROVE  w[j] = line[j]
        <5>1. j \in 1 .. Len(a) + Len(b) /\ j <= Len(a)
          BY <1>2, <2>2, <2>3, <2>4, <4>1
        <5> QED
          BY <2>3, <3>2, <4>1, <5>1
      <4> QED
        BY <4>1
    <3>4. ASSUME NEW j \in i .. Size(n)
          PROVE  w[j] = line[j + 1]
      <4>1. j \in 1 .. Len(a) + Len(b) /\ ~ (j <= Len(a)) /\ j - Len(a) = j - i + 1
        BY <1>2, <2>2, <2>3, <2>4, <3>4
      <4>2. w[j] = b[j - i + 1]
        BY <3>2, <4>1
      <4>3. j - i + 1 \in 1 .. Size(n) + 1 - i /\ (j - i + 1) + i = j + 1
        BY <1>2, <2>2, <3>4
      <4> QED
        BY <2>4, <4>2, <4>3
    <3>5. Len(w) = Size(n)
      BY <1>2, <2>2, <2>3, <2>4, <3>1
    <3> QED
      BY <3>1, <3>3, <3>4, <3>5
  <2>7. w # <<>> /\ DOMAIN w = 1 .. Size(n)
    BY <1>2, <2>6
  <2>8. rx' = rx \o w /\ spoilt \subseteq spoilt' /\ n \in spoilt'
    BY <2>1 DEF w
  <2>9. w[Len(w)] = Newline \/ n + 1 \in spoilt'
    <3>1. CASE i = Size(n) + 1
      BY <1>1, <2>1, <3>1
    <3>2. CASE i # Size(n) + 1
      BY <1>1, <1>2, <2>2, <2>6, <3>2
    <3> QED
      BY <3>1, <3>2
  <2>10. Size(n) = 1 \/ \E k \in DOMAIN w : w[k].n = n
    <3>1. CASE i = 1 /\ Size(n) # 1
      <4>1. w[1] = line[2] /\ line[2] = [n |-> n, i |-> 2] /\ 1 \in DOMAIN w
        BY <1>1, <1>2, <2>6, <2>7, <3>1
      <4> QED
        BY <4>1
    <3>2. CASE i # 1
      <4>1. w[1] = line[1] /\ line[1] = [n |-> n, i |-> 1] /\ 1 \in DOMAIN w
        BY <1>1, <1>2, <2>2, <2>6, <2>7, <3>2
      <4> QED
        BY <4>1
    <3> QED
      BY <3>1, <3>2
  <2> QED
    BY <2>6, <2>7, <2>8, <2>9, <2>10
<1> QED
  BY <1>3, <1>4 DEF Write

\* What is appended to the wire changes nothing in front of it.
LEMMA WireGrows ==
  ASSUME rx \in Seq(Token), lines.buf \in Seq(Token), NEW w \in Seq(Token), w # <<>>, rx' = rx \o w, lines' = lines
  PROVE  /\ rx' \in Seq(Token) /\ rx' # <<>> /\ rx'[Len(rx')] = w[Len(w)]
         /\ Len(rx') = Len(rx) + Len(w)
         /\ \A j \in 1 .. Len(w) : rx'[Len(rx) + j] = w[j]
         /\ \A j \in DOMAIN rx : j \in DOMAIN rx' /\ rx'[j] = rx[j]
         /\ \A m \in 1 .. Len(Sizes) : (Ahead(m) => Ahead(m)') /\ (Coming(m) => Coming(m)')
<1>1. /\ rx' \in Seq(Token) /\ Len(rx') = Len(rx) + Len(w)
      /\ \A i \in 1 .. Len(rx) + Len(w) : rx'[i] = IF i <= Len(rx) THEN rx[i] ELSE w[i - Len(rx)]
  BY ConcatProperties
<1>2. /\ Len(rx) \in Nat /\ Len(w) \in Nat \ {0}
      /\ DOMAIN rx = 1 .. Len(rx) /\ DOMAIN rx' = 1 .. Len(rx')
  BY <1>1, EmptySeq
<1>3. \A j \in DOMAIN rx : j \in DOMAIN rx' /\ rx'[j] = rx[j]
  BY <1>1, <1>2
<1>4. ASSUME NEW j \in 1 .. Len(w)
      PROVE  rx'[Len(rx) + j] = w[j]
  <2>1. /\ Len(rx) + j \in 1 .. Len(rx) + Len(w) /\ ~ (Len(rx) + j <= Len(rx))
        /\ (Len(rx) + j) - Len(rx) = j
    BY <1>2, <1>4
  <2> QED
    BY <1>1, <2>1
<1>5. rx' # <<>> /\ rx'[Len(rx')] = w[Len(w)]
  BY <1>1, <1>2, <1>4
<1>6. ASSUME NEW m \in 1 .. Len(Sizes)
      PROVE  (Ahead(m) => Ahead(m)') /\ (Coming(m) => Coming(m)')
  <2>1. Size(m) \in Nat \ {0} /\ Size(m)' = Size(m) /\ Newline' = Newline
    BY SizeFacts DEF Size, Newline
  <2>2. ASSUME Ahead(m)
        PROVE  Ahead(m)'
    <3>1. PICK k \in DOMAIN rx :
            /\ rx[k] = Newline
            /\ k + Size(m) + 1 \in DOMAIN rx /\ rx[k + Size(m) + 1] = Newline
            /\ \A j \in 1 .. Size(m) : rx[k + j] = [n |-> m, i |-> j]
      BY <2>2 DEF Ahead
    <3>2. \A j \in 1 .. Size(m) : k + j \in DOMAIN rx
      BY <1>2, <2>1, <3>1
    <3> QED
      BY <1>3, <2>1, <3>1, <3>2 DEF Ahead
  <2>3. ASSUME Coming(m)
        PROVE  Coming(m)'
    <3> DEFINE had == Len(lines.buf)
    <3>1. /\ ~ lines.overrun /\ had <= Size(m)
          /\ \A j \in 1 .. had : lines.buf[j] = [n |-> m, i |-> j]
          /\ Size(m) - had + 1 \in DOMAIN rx /\ rx[Size(m) - had + 1] = Newline
          /\ \A j \in had + 1 .. Size(m) : rx[j - had] = [n |-> m, i |-> j]
      BY <2>3 DEF Coming
    <3>2. had' = had /\ had \in Nat
      OBVIOUS
    <3> HIDE DEF had
    <3>4. \A j \in had + 1 .. Size(m) : j - had \in DOMAIN rx
      BY <1>2, <2>1, <3>1, <3>2
    <3> QED
      BY <1>3, <2>1, <3>1, <3>2, <3>4 DEF Coming, had
  <2> QED
    BY <2>2, <2>3
<1> QED
  BY <1>1, <1>3, <1>4, <1>5, <1>6

\* link_send_body keeps a frame or counts it.
LEMMA SendLeaves ==
  ASSUME txq \in Seq(FrameType), Len(txq) <= TxDepth, Words,
         NEW known, NEW f \in FrameType, f.n # Ping => f.type = "reply",
         SendFrom(txq, known, f)
  PROVE  /\ txq' \in Seq(FrameType) /\ Len(txq') <= TxDepth /\ Words'
         /\ known \subseteq counted'
         /\ \A n : InTxq(n) => InTxq(n)'
         /\ f.n \in counted' \/ InTxq(f.n)'
<1>1. Ping' = Ping
  BY DEF Ping
<1>2. CASE Len(txq) < TxDepth
  <2>1. txq' = Append(txq, f) /\ counted' = known
    BY <1>2 DEF SendFrom
  <2>2. /\ txq' \in Seq(FrameType) /\ Len(txq') = Len(txq) + 1
        /\ \A i \in 1 .. Len(txq) : txq'[i] = txq[i]
        /\ txq'[Len(txq) + 1] = f
    BY <2>1, AppendProperties
  <2>3. DOMAIN txq = 1 .. Len(txq) /\ Len(txq) \in Nat /\ DOMAIN txq' = 1 .. Len(txq) + 1
    BY <2>2
  <2>4. Words'
    BY <1>1, <2>2, <2>3 DEF Words
  <2>5. InTxq(f.n)' /\ \A n : InTxq(n) => InTxq(n)'
    BY <2>2, <2>3 DEF InTxq
  <2>6. Len(txq') <= TxDepth
    BY <1>2, <2>2, <2>3, LinkAssumption
  <2> QED
    BY <2>1, <2>2, <2>4, <2>5, <2>6
<1>3. CASE ~ (Len(txq) < TxDepth)
  <2>1. txq' = txq /\ counted' = known \cup {f.n}
    BY <1>3 DEF SendFrom
  <2> QED
    BY <1>1, <2>1 DEF Words, InTxq
<1> QED
  BY <1>2, <1>3

\* A frame that stands whole on the wire comes into the buffer whole.
LEMMA FedKeeps ==
  ASSUME rx \in Seq(Token), rx # <<>>, lines \in [buf : Seq(Token), overrun : BOOLEAN],
         rx' = Tail(rx), lines' = Feed(lines, Head(rx)),
         NEW m \in 1 .. Len(Sizes), Size(m) <= ItemMax
  PROVE  /\ Ahead(m) => (Ahead(m)' \/ Coming(m)')
         /\ Coming(m) => \/ Coming(m)'
                         \/ Head(rx) = Newline /\ ~ lines.overrun /\ lines.buf = Tokens(m)
<1> DEFINE had == Len(lines.buf)
<1>1. /\ rx' \in Seq(Token) /\ Len(rx') = Len(rx) - 1
      /\ \A i \in 1 .. Len(rx) - 1 : rx'[i] = rx[i + 1]
      /\ Head(rx) = rx[1]
  BY HeadTailProperties
<1>2. /\ Len(rx) \in Nat \ {0} /\ had \in Nat
      /\ DOMAIN rx = 1 .. Len(rx) /\ DOMAIN rx' = 1 .. Len(rx) - 1
  BY <1>1, EmptySeq
<1>3. /\ Size(m) \in Nat \ {0} /\ Size(m)' = Size(m) /\ Newline' = Newline
      /\ \A j \in 1 .. Size(m) : [n |-> m, i |-> j] # Newline
  BY SizeFacts DEF Size, Newline
<1>4. ASSUME Ahead(m)
      PROVE  Ahead(m)' \/ Coming(m)'
  <2>1. PICK k \in DOMAIN rx :
          /\ rx[k] = Newline
          /\ k + Size(m) + 1 \in DOMAIN rx /\ rx[k + Size(m) + 1] = Newline
          /\ \A j \in 1 .. Size(m) : rx[k + j] = [n |-> m, i |-> j]
    BY <1>4 DEF Ahead
  <2>2. CASE k = 1
    <3>1. lines' = Fresh
      BY <1>1, <2>1, <2>2 DEF Feed
    <3>2. lines'.overrun = FALSE /\ Len(lines'.buf) = 0
      BY <3>1 DEF Fresh
    <3>3. Size(m) + 1 \in DOMAIN rx' /\ rx'[Size(m) + 1] = Newline
      BY <1>1, <1>2, <1>3, <2>1, <2>2
    <3>4. \A j \in 1 .. Size(m) : rx'[j] = [n |-> m, i |-> j]
      BY <1>1, <1>2, <1>3, <2>1, <2>2
    <3> DEFINE h == Len(lines'.buf)
    <3>5. h = 0
      BY <3>2
    <3> HIDE DEF h
    <3>6. /\ h <= Size(m) /\ \A j \in 1 .. h : lines'.buf[j] = [n |-> m, i |-> j]
          /\ Size(m) - h + 1 \in DOMAIN rx' /\ rx'[Size(m) - h + 1] = Newline
      BY <1>3, <3>3, <3>5
    <3>7. \A j \in h + 1 .. Size(m) : rx'[j - h] = [n |-> m, i |-> j]
      <4>1. \A j \in h + 1 .. Size(m) : j \in 1 .. Size(m) /\ j - h = j
        BY <1>3, <3>5
      <4> QED
        BY <3>4, <4>1
    <3> QED
      BY <1>3, <3>2, <3>6, <3>7 DEF Coming, h
  <2>3. CASE k # 1
    <3>1. k - 1 \in DOMAIN rx' /\ rx'[k - 1] = Newline
      BY <1>1, <1>2, <2>1, <2>3
    <3>2. /\ (k - 1) + Size(m) + 1 \in DOMAIN rx'
          /\ rx'[(k - 1) + Size(m) + 1] = Newline
      BY <1>1, <1>2, <1>3, <2>1, <2>3
    <3>3. ASSUME NEW j \in 1 .. Size(m)
          PROVE  rx'[(k - 1) + j] = [n |-> m, i |-> j]
      <4>1. (k - 1) + j \in 1 .. Len(rx) - 1 /\ ((k - 1) + j) + 1 = k + j
        BY <1>2, <1>3, <2>1, <2>3, <3>3
      <4> QED
        BY <1>1, <2>1, <3>3, <4>1
    <3> QED
      BY <1>3, <3>1, <3>2, <3>3 DEF Ahead
  <2> QED
    BY <2>2, <2>3
<1>5. ASSUME Coming(m)
      PROVE  \/ Coming(m)'
             \/ Head(rx) = Newline /\ ~ lines.overrun /\ lines.buf = Tokens(m)
  <2>1. /\ ~ lines.overrun /\ had <= Size(m)
        /\ \A j \in 1 .. had : lines.buf[j] = [n |-> m, i |-> j]
        /\ Size(m) - had + 1 \in DOMAIN rx /\ rx[Size(m) - had + 1] = Newline
        /\ \A j \in had + 1 .. Size(m) : rx[j - had] = [n |-> m, i |-> j]
    BY <1>5 DEF Coming
  <2>2. CASE had = Size(m)
    <3>1. Head(rx) = Newline
      BY <1>1, <1>3, <2>1, <2>2
    <3>2. /\ Tokens(m) \in Seq(Token) /\ Len(Tokens(m)) = had
          /\ \A j \in 1 .. had : Tokens(m)[j] = lines.buf[j]
      BY SizeFacts, <2>1, <2>2
    <3>3. lines.buf = Tokens(m)
      BY <3>2, SeqEqual
    <3> QED
      BY <2>1, <3>1, <3>3
  <2>3. CASE had # Size(m)
    <3> HIDE DEF had
    <3>1. Head(rx) = [n |-> m, i |-> had + 1] /\ Head(rx) # Newline /\ Head(rx) \in Token
      <4>1. had + 1 \in had + 1 .. Size(m) /\ (had + 1) - had = 1 /\ had + 1 \in 1 .. Size(m)
        BY <1>2, <1>3, <2>1, <2>3
      <4>2. Head(rx) \in Token
        BY HeadTailProperties
      <4> QED
        <5>1. rx[(had + 1) - had] = [n |-> m, i |-> had + 1]
          BY <2>1, <4>1
        <5>2. Head(rx) = [n |-> m, i |-> had + 1]
          BY <1>1, <4>1, <5>1
        <5>3. [n |-> m, i |-> had + 1] # Newline
          BY <1>3, <4>1
        <5> QED
          BY <4>2, <5>2, <5>3
    <3>2. ~ (had >= LineMax)
      BY <1>2, <1>3, <2>1, <2>3, LinkAssumption
    <3>3. lines' = [lines EXCEPT !.buf = Append(@, Head(rx))]
      BY <2>1, <3>1, <3>2 DEF Feed, had
    <3>4. lines'.buf = Append(lines.buf, Head(rx)) /\ lines'.overrun = lines.overrun
      BY <3>3
    <3>5. /\ Len(lines'.buf) = had + 1
          /\ \A j \in 1 .. had : lines'.buf[j] = lines.buf[j]
          /\ lines'.buf[had + 1] = Head(rx)
      BY <3>1, <3>4, AppendProperties DEF had
    <3>6. had + 1 <= Size(m) /\ \A j \in 1 .. had + 1 : lines'.buf[j] = [n |-> m, i |-> j]
      <4>1. had + 1 <= Size(m)
        BY <1>2, <1>3, <2>1, <2>3
      <4>2. \A j \in 1 .. had + 1 : j \in 1 .. had \/ j = had + 1
        BY <1>2
      <4> QED
        BY <2>1, <3>1, <3>5, <4>1, <4>2
    <3>7. Size(m) - (had + 1) + 1 \in DOMAIN rx' /\ rx'[Size(m) - (had + 1) + 1] = Newline
      BY <1>1, <1>2, <1>3, <2>1, <2>3
    <3>8. ASSUME NEW j \in (had + 1) + 1 .. Size(m)
          PROVE  rx'[j - (had + 1)] = [n |-> m, i |-> j]
      <4>1. /\ j - (had + 1) \in 1 .. Len(rx) - 1 /\ (j - (had + 1)) + 1 = j - had
            /\ j \in had + 1 .. Size(m)
        BY <1>2, <1>3, <2>1, <2>3, <3>8
      <4> QED
        BY <1>1, <2>1, <4>1
    <3> QED
      BY <1>3, <2>1, <3>4, <3>5, <3>6, <3>7, <3>8 DEF Coming
  <2> QED
    BY <2>2, <2>3
<1> QED
  BY <1>4, <1>5

\* What does not touch the wire, the line and the next command.
LEMMA StillKeeps ==
  ASSUME LinkInv, rx' = rx, lines' = lines, next' = next, begun' = begun,
         spoilt \subseteq spoilt', lapsed \subseteq lapsed',
         taken \subseteq taken', refused \subseteq refused',
         LinkShape', Words', \A n \in 1 .. next - 1 : Traced(n)'
  PROVE  LinkInv'
<1>1. Begun' /\ EndsClean'
  BY DEF LinkInv, Begun, EndsClean, Fresh
<1>2. ASSUME NEW n \in 1 .. next - 1
      PROVE  Spared(n)'
  <2>1. (Ahead(n) => Ahead(n)') /\ (Coming(n) => Coming(n)') /\ Size(n)' = Size(n)
    BY DEF Ahead, Coming, Size, Newline
  <2> QED
    BY <1>2, <2>1 DEF LinkInv, Spared
<1> QED
  BY <1>1, <1>2 DEF LinkInv

LEMMA LinkInitial ==
  ASSUME LinkInit
  PROVE  LinkInv
<1>1. LinkShape
  <2>1. \A S : <<>> \in Seq(S) /\ Len(<<>>) = 0
    BY EmptySeq
  <2>2. LinkTypeOK
    BY <2>1, LinkAssumption DEF LinkInit, LinkTypeOK, Fresh
  <2>3. Fresh \in [buf : Seq(Token), overrun : BOOLEAN]
    BY <2>1 DEF Fresh
  <2> QED
    BY <2>1, <2>2, <2>3 DEF LinkInit, LinkShape
<1>2. Words /\ Begun /\ EndsClean
  <2>1. txq = <<>> /\ begun = {} /\ rx = <<>> /\ lines = Fresh
    BY DEF LinkInit
  <2>2. lines.buf = <<>>
    BY <2>1 DEF Fresh
  <2>3. Begun
    BY <2>1, <2>2 DEF Begun
  <2> QED
    BY <2>1, <2>3 DEF Words, EndsClean
<1>3. 1 .. next - 1 = {}
  BY DEF LinkInit
<1> QED
  BY <1>1, <1>2, <1>3 DEF LinkInv

\* The wire has grown by words w, and nothing before it is lost.
LEMMA TracesStay ==
  ASSUME LinkInv, \A j \in DOMAIN rx : j \in DOMAIN rx' /\ rx'[j] = rx[j],
         UNCHANGED <<begun, rxq, txq, answered, counted, lapsed>>,
         spoilt \subseteq spoilt', NEW n \in 1 .. next - 1
  PROVE  Traced(n)'
<1>1. Traced(n)
  BY DEF LinkInv
<1> QED
  BY <1>1 DEF Traced, InTxq, Size, Ping

LEMMA WriteCommandKeeps ==
  ASSUME LinkInv, WriteCommand
  PROVE  LinkInv'
<1>1. PICK n \in 1 .. Len(Sizes) :
        /\ next = n /\ Len(Sizes) \in Nat /\ next' = n + 1 /\ Write(n)
        /\ UNCHANGED <<network, entry, answered, lines, rxq, txq, counted, radio, beacons,
                       upsets, lapsed, taken, refused, begun>>
  <2>1. Len(Sizes) \in Nat
    BY LinkAssumption
  <2>2. next \in 1 .. Len(Sizes)
    BY <2>1 DEF LinkInv, LinkShape, LinkTypeOK, WriteCommand
  <2> QED
    BY <2>1, <2>2 DEF WriteCommand
<1>2. PICK w \in Seq(Token) :
        /\ w # <<>> /\ rx' = rx \o w
        /\ \/ /\ spoilt' = spoilt
              /\ Len(w) = Size(n) + 1 /\ w[Size(n) + 1] = Newline
              /\ \A j \in 1 .. Size(n) : w[j] = [n |-> n, i |-> j]
           \/ /\ spoilt \subseteq spoilt' /\ n \in spoilt'
              /\ w[Len(w)] = Newline \/ n + 1 \in spoilt'
              /\ Size(n) = 1 \/ \E k \in DOMAIN w : w[k].n = n
  BY <1>1, WriteLeaves
<1>3. rx \in Seq(Token) /\ lines.buf \in Seq(Token) /\ lines' = lines
  BY <1>1 DEF LinkInv, LinkShape
<1>4. /\ rx' \in Seq(Token) /\ rx' # <<>> /\ rx'[Len(rx')] = w[Len(w)]
      /\ Len(rx') = Len(rx) + Len(w)
      /\ \A j \in 1 .. Len(w) : rx'[Len(rx) + j] = w[j]
      /\ \A j \in DOMAIN rx : j \in DOMAIN rx' /\ rx'[j] = rx[j]
      /\ \A m \in 1 .. Len(Sizes) : (Ahead(m) => Ahead(m)') /\ (Coming(m) => Coming(m)')
  BY <1>2, <1>3, WireGrows
<1>5. /\ Size(n) \in Nat \ {0} /\ Len(w) \in Nat \ {0} /\ Len(rx) \in Nat
      /\ DOMAIN w = 1 .. Len(w) /\ DOMAIN rx' = 1 .. Len(rx') /\ DOMAIN rx = 1 .. Len(rx)
      /\ \A m : Size(m)' = Size(m)
      /\ Newline' = Newline /\ spoilt \subseteq spoilt' /\ Fresh' = Fresh
  BY <1>1, <1>2, <1>3, <1>4, SizeFacts, EmptySeq DEF Size, Newline, Ping, Fresh
<1>6. LinkShape' /\ Words' /\ Begun'
  BY <1>1, <1>4 DEF LinkInv, LinkShape, LinkTypeOK, Words, Begun, Ping, radio
<1>7. EndsClean'
  BY <1>1, <1>2, <1>4, <1>5 DEF EndsClean
<1>8. Spared(n)'
  <2>1. CASE n \in spoilt' \cup lapsed
    BY <1>1, <2>1 DEF Spared
  <2>2. CASE n \notin spoilt' \cup lapsed
    <3>1. /\ Len(w) = Size(n) + 1 /\ w[Size(n) + 1] = Newline
          /\ \A j \in 1 .. Size(n) : w[j] = [n |-> n, i |-> j]
      BY <1>2, <2>2
    <3>2. CASE rx = <<>> /\ lines = Fresh
      <4> DEFINE h == Len(lines'.buf)
      <4>1. h = 0 /\ Len(rx) = 0 /\ ~ lines'.overrun
        BY <1>1, <3>2 DEF Fresh
      <4> HIDE DEF h
      <4>2. \A j \in 1 .. Len(w) : rx'[j] = w[j] /\ j \in DOMAIN rx'
        BY <1>4, <1>5, <4>1
      <4>3. /\ h <= Size(n) /\ \A j \in 1 .. h : lines'.buf[j] = [n |-> n, i |-> j]
            /\ Size(n) - h + 1 \in DOMAIN rx' /\ rx'[Size(n) - h + 1] = Newline
        BY <1>5, <3>1, <4>1, <4>2
      <4>4. \A j \in h + 1 .. Size(n) : rx'[j - h] = [n |-> n, i |-> j]
        <5>1. \A j \in h + 1 .. Size(n) : j \in 1 .. Size(n) /\ j \in 1 .. Len(w) /\ j - h = j
          BY <1>5, <3>1, <4>1
        <5> QED
          BY <3>1, <4>2, <5>1
      <4>5. Coming(n)'
        BY <1>5, <4>1, <4>3, <4>4 DEF Coming, h
      <4> QED
        BY <4>5 DEF Spared
    <3>3. CASE rx # <<>> /\ rx[Len(rx)] = Newline
      <4>1. Len(rx) \in DOMAIN rx' /\ rx'[Len(rx)] = Newline
        <5>1. Len(rx) # 0
          BY <1>3, <3>3, EmptySeq
        <5>2. Len(rx) \in DOMAIN rx
          BY <1>5, <5>1
        <5> QED
          BY <1>4, <3>3, <5>2
      <4>2. Len(rx) + Size(n) + 1 \in DOMAIN rx' /\ rx'[Len(rx) + Size(n) + 1] = Newline
        BY <1>4, <1>5, <3>1
      <4>3. \A j \in 1 .. Size(n) : rx'[Len(rx) + j] = [n |-> n, i |-> j]
        BY <1>4, <1>5, <3>1
      <4>4. PICK k \in DOMAIN rx' :
              /\ rx'[k] = Newline
              /\ k + Size(n) + 1 \in DOMAIN rx' /\ rx'[k + Size(n) + 1] = Newline
              /\ \A j \in 1 .. Size(n) : rx'[k + j] = [n |-> n, i |-> j]
        BY <4>1, <4>2, <4>3
      <4>5. Ahead(n)'
        BY <1>5, <4>4 DEF Ahead
      <4> QED
        BY <4>5 DEF Spared
    <3> QED
      BY <1>1, <1>5, <2>2, <3>2, <3>3 DEF LinkInv, EndsClean
  <2> QED
    BY <2>1, <2>2
<1>9. Traced(n)'
  <2>1. (\E k \in DOMAIN w : w[k].n = n) \/ (n \in spoilt' /\ Size(n) = 1)
    <3>1. CASE \A j \in 1 .. Size(n) : w[j] = [n |-> n, i |-> j]
      <4>1. 1 \in 1 .. Size(n) /\ 1 \in DOMAIN w
        BY <1>5
      <4>2. w[1] = [n |-> n, i |-> 1] /\ [n |-> n, i |-> 1].n = n
        BY <3>1, <4>1
      <4> QED
        BY <4>1, <4>2
    <3> QED
      BY <1>2, <3>1
  <2>2. ASSUME NEW k \in DOMAIN w, w[k].n = n
        PROVE  \E j \in DOMAIN rx' : rx'[j].n = n
    BY <1>4, <1>5, <2>2
  <2> QED
    BY <1>5, <2>1, <2>2 DEF Traced
<1>10. ASSUME NEW m \in 1 .. n - 1
       PROVE  Spared(m)' /\ Traced(m)'
  <2>1. m \in 1 .. next - 1 /\ m \in 1 .. Len(Sizes)
    BY <1>1
  <2>2. Spared(m)'
    BY <1>1, <1>4, <1>5, <2>1 DEF LinkInv, Spared
  <2>3. Traced(m)'
    BY <1>1, <1>4, <1>5, <2>1, TracesStay
  <2> QED
    BY <2>2, <2>3
<1>11. \A m \in 1 .. next' - 1 : m = n \/ m \in 1 .. n - 1
  BY <1>1
<1> QED
  BY <1>6, <1>7, <1>8, <1>9, <1>10, <1>11 DEF LinkInv

LEMMA WritePingKeeps ==
  ASSUME LinkInv, WritePing
  PROVE  LinkInv'
<1> DEFINE w == Append(Tokens(Ping), Newline)
<1>1. /\ w \in Seq(Token) /\ w # <<>> /\ w[Len(w)] = Newline
      /\ rx \in Seq(Token) /\ lines.buf \in Seq(Token)
      /\ rx' = rx \o w /\ lines' = lines /\ Newline' = Newline /\ next' = next
      /\ \A m : Size(m)' = Size(m)
      /\ UNCHANGED <<network, answered, entry, rxq, txq, counted, zb, asked, beacons,
                     spoilt, lapsed, taken, refused, begun>>
  BY PingIs, EmptySeq DEF LinkInv, LinkShape, WritePing, hub, radio, linkHistory, Newline, Size, Ping
<1> HIDE DEF w
<1>2. /\ rx' \in Seq(Token) /\ rx' # <<>> /\ rx'[Len(rx')] = w[Len(w)]
      /\ \A j \in DOMAIN rx : j \in DOMAIN rx' /\ rx'[j] = rx[j]
      /\ \A m \in 1 .. Len(Sizes) : (Ahead(m) => Ahead(m)') /\ (Coming(m) => Coming(m)')
  BY <1>1, WireGrows
<1>3. LinkShape' /\ Words' /\ Begun' /\ EndsClean'
  BY <1>1, <1>2 DEF LinkInv, LinkShape, LinkTypeOK, Words, Begun, EndsClean, Ping
<1>4. ASSUME NEW m \in 1 .. next - 1
      PROVE  Spared(m)' /\ Traced(m)'
  <2>1. m \in 1 .. Len(Sizes)
    BY LinkAssumption DEF LinkInv, LinkShape, LinkTypeOK
  <2>2. Spared(m)'
    BY <1>1, <1>2, <2>1 DEF LinkInv, Spared
  <2>3. Traced(m)'
    BY <1>1, <1>2, TracesStay
  <2> QED
    BY <2>2, <2>3
<1> QED
  BY <1>1, <1>3, <1>4 DEF LinkInv

\* A byte in the middle of a line, and the end of one.
LEMMA Feeds ==
  ASSUME LinkShape, rx # <<>>, rx' = Tail(rx), lines' = Feed(lines, Head(rx))
  PROVE  /\ rx' \in Seq(Token) /\ lines' \in [buf : Seq(Token), overrun : BOOLEAN]
         /\ Len(lines'.buf) <= LineMax
         /\ Head(rx) \in Token /\ Head(rx) = rx[1] /\ Len(rx') = Len(rx) - 1 /\ Len(rx) \in Nat \ {0}
         /\ \A i \in 1 .. Len(rx) - 1 : rx'[i] = rx[i + 1]
         /\ Head(rx) = Newline => lines' = Fresh
         /\ \A i \in DOMAIN lines'.buf :
              \/ Head(rx) # Newline /\ lines'.buf[i] = Head(rx)
              \/ i \in DOMAIN lines.buf /\ lines'.buf[i] = lines.buf[i]
         /\ Head(rx) # Newline /\ ~ lines'.overrun =>
              /\ Len(lines'.buf) = Len(lines.buf) + 1 /\ ~ lines.overrun
              /\ \A i \in DOMAIN lines.buf : i \in DOMAIN lines'.buf /\ lines'.buf[i] = lines.buf[i]
              /\ \E i \in DOMAIN lines'.buf : lines'.buf[i] = Head(rx)
<1>1. /\ rx' \in Seq(Token) /\ Len(rx') = Len(rx) - 1
      /\ \A i \in 1 .. Len(rx) - 1 : rx'[i] = rx[i + 1]
      /\ Head(rx) = rx[1] /\ Head(rx) \in Token /\ Len(rx) \in Nat \ {0}
  BY HeadTailProperties, EmptySeq DEF LinkShape
<1>2. /\ lines.buf \in Seq(Token) /\ lines.overrun \in BOOLEAN /\ Len(lines.buf) \in Nat
      /\ Len(lines.buf) <= LineMax /\ LineMax \in Nat /\ lines = [buf |-> lines.buf, overrun |-> lines.overrun]
  BY LinkAssumption DEF LinkShape, LinkTypeOK
<1>3. CASE Head(rx) = Newline
  <2>1. lines' = Fresh
    BY <1>3 DEF Feed
  <2>2. <<>> \in Seq(Token) /\ Len(<<>>) = 0
    BY EmptySeq
  <2>3. Fresh \in [buf : Seq(Token), overrun : BOOLEAN] /\ Len(Fresh.buf) = 0 /\ DOMAIN Fresh.buf = {}
    BY <2>2 DEF Fresh
  <2> QED
    BY <1>1, <1>2, <1>3, <2>1, <2>3
<1>4. CASE Head(rx) # Newline /\ lines.overrun
  <2>1. lines' = lines
    BY <1>4 DEF Feed
  <2>2. lines' \in [buf : Seq(Token), overrun : BOOLEAN] /\ Len(lines'.buf) <= LineMax
    BY <1>2, <2>1 DEF LinkShape
  <2>3. ~ (Head(rx) # Newline /\ ~ lines'.overrun) /\ ~ (Head(rx) = Newline)
    BY <1>4, <2>1
  <2>4. \A i \in DOMAIN lines'.buf : i \in DOMAIN lines.buf /\ lines'.buf[i] = lines.buf[i]
    BY <2>1
  <2> QED
    BY <1>1, <2>2, <2>3, <2>4
<1>5. CASE Head(rx) # Newline /\ ~ lines.overrun /\ Len(lines.buf) >= LineMax
  <2>1. lines' = [lines EXCEPT !.overrun = TRUE]
    BY <1>5 DEF Feed
  <2> QED
    BY <1>1, <1>2, <1>5, <2>1
<1>6. CASE Head(rx) # Newline /\ ~ lines.overrun /\ ~ (Len(lines.buf) >= LineMax)
  <2>1. lines' = [lines EXCEPT !.buf = Append(@, Head(rx))]
    BY <1>6 DEF Feed
  <2>2. lines' = [buf |-> Append(lines.buf, Head(rx)), overrun |-> lines.overrun]
    BY <1>2, <2>1
  <2> DEFINE b == Append(lines.buf, Head(rx))
  <2>3. /\ b \in Seq(Token) /\ Len(b) = Len(lines.buf) + 1
        /\ \A i \in 1 .. Len(lines.buf) : b[i] = lines.buf[i]
        /\ b[Len(lines.buf) + 1] = Head(rx)
    BY <1>1, <1>2, AppendProperties
  <2>4. lines'.buf = b /\ lines'.overrun = lines.overrun
    BY <2>2
  <2> HIDE DEF b
  <2>5. DOMAIN b = 1 .. Len(lines.buf) + 1 /\ DOMAIN lines.buf = 1 .. Len(lines.buf)
    BY <1>2, <2>3
  <2>6. \A i \in DOMAIN lines.buf : i \in DOMAIN b /\ b[i] = lines.buf[i]
    BY <1>2, <2>3, <2>5
  <2>7. \E i \in DOMAIN b : b[i] = Head(rx)
    BY <1>2, <2>3, <2>5
  <2>10. \A i \in DOMAIN b : b[i] = Head(rx) \/ (i \in DOMAIN lines.buf /\ b[i] = lines.buf[i])
    <3>1. \A i \in DOMAIN b : i \in 1 .. Len(lines.buf) \/ i = Len(lines.buf) + 1
      BY <1>2, <2>5
    <3>2. \A i \in 1 .. Len(lines.buf) : i \in DOMAIN lines.buf
      BY <2>5
    <3> QED
      BY <2>3, <3>1, <3>2
  <2>8. Len(b) <= LineMax
    BY <1>2, <1>6, <2>3
  <2>9. lines' \in [buf : Seq(Token), overrun : BOOLEAN]
    <3>1. lines' = [buf |-> b, overrun |-> FALSE]
      BY <1>6, <2>2 DEF b
    <3>2. \A c \in Seq(Token) : [buf |-> c, overrun |-> FALSE] \in [buf : Seq(Token), overrun : BOOLEAN]
      OBVIOUS
    <3>3. b \in Seq(Token)
      BY <2>3
    <3> QED
      BY <3>1, <3>2, <3>3
  <2> QED
    BY <1>1, <1>6, <2>3, <2>4, <2>6, <2>7, <2>8, <2>9, <2>10
<1> QED
  BY <1>3, <1>4, <1>5, <1>6

LEMMA FrameIs ==
  ASSUME NEW type \in FrameNames, NEW n \in Nat
  PROVE  Frame(type, n) \in FrameType /\ Frame(type, n).n = n /\ Frame(type, n).type = type
<1>1. (zb = "up") \in BOOLEAN
  OBVIOUS
<1> DEFINE up == zb = "up"
<1>2. Frame(type, n) = [type |-> type, n |-> n, up |-> up]
  BY DEF Frame
<1> HIDE DEF up
<1> QED
  BY <1>1, <1>2 DEF FrameType, up

\* handle_line takes a whole frame, or finds the queue full; any other line
\* is counted.
LEMMA LineHandled ==
  ASSUME LinkShape, Words, NEW buf \in Seq(Token), buf # <<>>, HandleLine(buf)
  PROVE  /\ rxq' \in Seq(Nat) /\ Len(rxq') <= RxDepth
         /\ txq' \in Seq(FrameType) /\ Len(txq') <= TxDepth /\ Words'
         /\ taken \subseteq taken' /\ refused \subseteq refused' /\ counted \subseteq counted'
         /\ \A k \in DOMAIN rxq : k \in DOMAIN rxq' /\ rxq'[k] = rxq[k]
         /\ \A n : InTxq(n) => InTxq(n)'
         /\ \A k \in DOMAIN buf : \/ buf[k].n \in counted'
                                  \/ \E j \in DOMAIN rxq' : rxq'[j] = buf[k].n
         /\ \A n \in 1 .. Len(Sizes) :
              buf = Tokens(n) /\ Size(n) <= ItemMax => n \in taken' \cup refused'
<1> DEFINE n == buf[1].n
           legal == ~ BadPrefix(buf) /\ ~ BadCrc(buf) /\ Size(n) <= ItemMax
<1>1. /\ buf[1] \in Token /\ n \in Nat /\ DOMAIN buf = 1 .. Len(buf) /\ Len(buf) \in Nat \ {0}
  <2>1. Len(buf) \in Nat \ {0} /\ DOMAIN buf = 1 .. Len(buf)
    BY EmptySeq
  <2>2. buf[1] \in Token
    BY <2>1, ElementOfSeq
  <2> QED
    BY <2>1, <2>2 DEF Token
<1>2. ASSUME NEW m \in 1 .. Len(Sizes), buf = Tokens(m), Size(m) <= ItemMax
      PROVE  legal /\ n = m
  <2>1. Size(m) \in Nat \ {0} /\ \A j \in 1 .. Size(m) : Tokens(m)[j] = [n |-> m, i |-> j]
    BY SizeFacts
  <2>2. buf[1] = [n |-> m, i |-> 1]
    BY <1>2, <2>1
  <2>3. n = m /\ buf[1].i = 1
    BY <2>2
  <2> QED
    BY <1>2, <2>3 DEF BadPrefix, BadCrc
<1>3. CASE legal /\ Len(rxq) < RxDepth
  <2>1. rxq' = Append(rxq, n) /\ taken' = taken \cup {n} /\ UNCHANGED <<txq, counted, refused>>
    BY <1>3 DEF HandleLine
  <2>2. rxq \in Seq(Nat) /\ Len(rxq) \in Nat /\ RxDepth \in Nat /\ DOMAIN rxq = 1 .. Len(rxq)
    BY LinkAssumption DEF LinkShape
  <2>3. /\ rxq' \in Seq(Nat) /\ Len(rxq') = Len(rxq) + 1
        /\ \A k \in 1 .. Len(rxq) : rxq'[k] = rxq[k]
        /\ rxq'[Len(rxq) + 1] = n
    BY <1>1, <2>1, <2>2, AppendProperties
  <2>4. DOMAIN rxq' = 1 .. Len(rxq) + 1 /\ Len(rxq') <= RxDepth
    BY <1>3, <2>2, <2>3
  <2>5. \A k \in DOMAIN buf : buf[k].n = n
    <3>1. buf = Tokens(n)
      BY <1>3 DEF BadCrc
    <3> HIDE DEF n
    <3> QED
      BY <3>1 DEF Tokens
  <2>6. \A k \in DOMAIN buf : \E j \in DOMAIN rxq' : rxq'[j] = buf[k].n
    BY <2>2, <2>3, <2>4, <2>5
  <2>7. Words' /\ (\A m : InTxq(m) => InTxq(m)') /\ txq' \in Seq(FrameType) /\ Len(txq') <= TxDepth
    BY <2>1 DEF Words, InTxq, LinkShape, LinkTypeOK, Ping
  <2>8. \A k \in DOMAIN rxq : k \in DOMAIN rxq' /\ rxq'[k] = rxq[k]
    BY <2>2, <2>3, <2>4
  <2> HIDE DEF n, legal
  <2> QED
    BY <1>2, <2>1, <2>3, <2>4, <2>6, <2>7, <2>8
<1>4. CASE ~ (legal /\ Len(rxq) < RxDepth)
  <2>1. /\ Complain(buf) /\ refused' = (IF legal THEN refused \cup {n} ELSE refused)
        /\ UNCHANGED <<rxq, taken>>
    BY <1>4 DEF HandleLine
  <2>0. Ping \in Nat /\ "error" \in FrameNames
    BY DEF Ping, FrameNames
  <2>2. /\ Frame("error", Ping) \in FrameType /\ Frame("error", Ping).n = Ping
        /\ SendFrom(txq, counted \cup {t.n : t \in ToSet(buf)}, Frame("error", Ping))
    BY <2>0, <2>1, FrameIs DEF Complain
  <2>3. /\ txq' \in Seq(FrameType) /\ Len(txq') <= TxDepth /\ Words'
        /\ counted \cup {t.n : t \in ToSet(buf)} \subseteq counted'
        /\ \A m : InTxq(m) => InTxq(m)'
    BY <2>2, SendLeaves DEF LinkShape, LinkTypeOK
  <2>4. \A k \in DOMAIN buf : buf[k].n \in counted'
    BY <2>3 DEF ToSet
  <2>5. rxq' = rxq /\ rxq \in Seq(Nat) /\ Len(rxq) <= RxDepth
    BY <2>1 DEF LinkShape, LinkTypeOK
  <2> HIDE DEF n, legal
  <2> QED
    BY <1>2, <2>1, <2>3, <2>4, <2>5
<1> QED
  BY <1>3, <1>4

LEMMA RxTaskKeeps ==
  ASSUME LinkInv, RxTask
  PROVE  LinkInv'
<1> DEFINE token == Head(rx)
<1>1. /\ LinkShape /\ Words /\ Begun /\ EndsClean
      /\ \A n \in 1 .. next - 1 : Spared(n) /\ Traced(n)
  BY DEF LinkInv
<1>2. /\ rx # <<>> /\ rx' = Tail(rx) /\ lines' = Feed(lines, Head(rx))
      /\ begun' = IF token = Newline THEN {} ELSE begun \cup {token.n}
      /\ next' = next /\ spoilt' = spoilt /\ lapsed' = lapsed /\ answered' = answered
      /\ UNCHANGED <<network, entry, zb, asked, beacons>>
  BY DEF RxTask, hub, radio
<1>3. /\ rx' \in Seq(Token) /\ lines' \in [buf : Seq(Token), overrun : BOOLEAN]
      /\ Len(lines'.buf) <= LineMax
      /\ token \in Token /\ token = rx[1] /\ Len(rx') = Len(rx) - 1 /\ Len(rx) \in Nat \ {0}
      /\ \A i \in 1 .. Len(rx) - 1 : rx'[i] = rx[i + 1]
      /\ token = Newline => lines' = Fresh
      /\ \A i \in DOMAIN lines'.buf :
           \/ token # Newline /\ lines'.buf[i] = token
           \/ i \in DOMAIN lines.buf /\ lines'.buf[i] = lines.buf[i]
      /\ token # Newline /\ ~ lines'.overrun =>
           /\ Len(lines'.buf) = Len(lines.buf) + 1 /\ ~ lines.overrun
           /\ \A i \in DOMAIN lines.buf : i \in DOMAIN lines'.buf /\ lines'.buf[i] = lines.buf[i]
           /\ \E i \in DOMAIN lines'.buf : lines'.buf[i] = token
  BY <1>1, <1>2, Feeds
<1>4. /\ lines \in [buf : Seq(Token), overrun : BOOLEAN] /\ rx \in Seq(Token)
      /\ DOMAIN rx = 1 .. Len(rx) /\ DOMAIN rx' = 1 .. Len(rx) - 1
      /\ Newline' = Newline /\ Fresh' = Fresh /\ (\A m : Size(m)' = Size(m)) /\ Newline.n = Ping
  BY <1>1, <1>3 DEF LinkShape, Newline, Fresh, Size, Ping
<1>5. \A n \in 1 .. next - 1 : n \in 1 .. Len(Sizes) /\ n # Ping
  BY <1>1, LinkAssumption DEF LinkShape, LinkTypeOK, Ping
<1> HIDE DEF token
\* What becomes of the line that has ended, if one has.
<1>6. /\ rxq' \in Seq(Nat) /\ Len(rxq') <= RxDepth
      /\ txq' \in Seq(FrameType) /\ Len(txq') <= TxDepth /\ Words'
      /\ taken \subseteq taken' /\ refused \subseteq refused' /\ counted \subseteq counted'
      /\ \A k \in DOMAIN rxq : k \in DOMAIN rxq' /\ rxq'[k] = rxq[k]
      /\ \A n : InTxq(n) => InTxq(n)'
      /\ \A n \in begun : \/ token # Newline \/ n \in counted'
                          \/ \E j \in DOMAIN rxq' : rxq'[j] = n
      /\ \A n \in 1 .. Len(Sizes) :
           /\ token = Newline /\ ~ lines.overrun /\ lines.buf = Tokens(n) /\ Size(n) <= ItemMax
           => n \in taken' \cup refused'
  <2>1. /\ rxq \in Seq(Nat) /\ Len(rxq) <= RxDepth
        /\ txq \in Seq(FrameType) /\ Len(txq) <= TxDepth /\ Words
    BY <1>1 DEF LinkShape, LinkTypeOK
  <2>2. CASE token # Newline
    <3>1. UNCHANGED <<rxq, txq, counted, taken, refused>>
      BY <2>2 DEF RxTask, token
    <3>2. Words' /\ \A n : InTxq(n) => InTxq(n)'
      BY <2>1, <3>1 DEF Words, InTxq, Ping
    <3> QED
      BY <2>1, <2>2, <3>1, <3>2
  <2>3. CASE lines = Fresh
    <3>1. UNCHANGED <<rxq, txq, counted, taken, refused>>
      BY <2>3 DEF RxTask
    <3>2. Words' /\ \A n : InTxq(n) => InTxq(n)'
      BY <2>1, <3>1 DEF Words, InTxq, Ping
    <3>3. lines.buf = <<>> /\ ~ lines.overrun /\ DOMAIN lines.buf = {}
      BY <2>3 DEF Fresh
    <3>4. begun = {}
      BY <1>1, <3>3 DEF Begun
    <3>5. \A n \in 1 .. Len(Sizes) : lines.buf # Tokens(n)
      <4>1. Len(lines.buf) = 0
        BY <3>3
      <4> QED
        BY <4>1, SizeFacts
    <3> QED
      BY <2>1, <3>1, <3>2, <3>4, <3>5
  <2>4. CASE token = Newline /\ lines # Fresh /\ lines.overrun
    <3>1. counted' = counted \cup begun /\ UNCHANGED <<rxq, txq, taken, refused>>
      BY <2>4 DEF RxTask, token
    <3>2. Words' /\ \A n : InTxq(n) => InTxq(n)'
      BY <2>1, <3>1 DEF Words, InTxq, Ping
    <3> QED
      BY <2>1, <2>4, <3>1, <3>2
  <2>5. CASE token = Newline /\ lines # Fresh /\ ~ lines.overrun
    <3>1. HandleLine(lines.buf)
      BY <2>5 DEF RxTask, token
    <3>2. lines.buf \in Seq(Token) /\ lines.buf # <<>>
      BY <1>4, <2>5 DEF Fresh
    <3>3. PICK buf \in Seq(Token) : buf = lines.buf
      BY <3>2
    <3>4. /\ rxq' \in Seq(Nat) /\ Len(rxq') <= RxDepth
          /\ txq' \in Seq(FrameType) /\ Len(txq') <= TxDepth /\ Words'
          /\ taken \subseteq taken' /\ refused \subseteq refused' /\ counted \subseteq counted'
          /\ \A k \in DOMAIN rxq : k \in DOMAIN rxq' /\ rxq'[k] = rxq[k]
          /\ \A n : InTxq(n) => InTxq(n)'
          /\ \A k \in DOMAIN buf : \/ buf[k].n \in counted'
                                   \/ \E j \in DOMAIN rxq' : rxq'[j] = buf[k].n
          /\ \A n \in 1 .. Len(Sizes) :
               buf = Tokens(n) /\ Size(n) <= ItemMax => n \in taken' \cup refused'
      BY <1>1, <3>1, <3>2, <3>3, LineHandled
    <3>5. \A n \in begun : n \in counted' \/ \E j \in DOMAIN rxq' : rxq'[j] = n
      BY <1>1, <2>5, <3>3, <3>4 DEF Begun
    <3> QED
      BY <3>3, <3>4, <3>5
  <2> QED
    BY <2>2, <2>3, <2>4, <2>5
<1>7. LinkShape'
  BY <1>1, <1>2, <1>3, <1>6 DEF LinkShape, LinkTypeOK
<1>8. Begun'
  <2>1. CASE token = Newline
    <3>1. DOMAIN lines'.buf = {} /\ begun' = {}
      BY <1>2, <1>3, <2>1 DEF Fresh
    <3> QED
      BY <3>1 DEF Begun
  <2>2. CASE token # Newline
    <3>1. begun' = begun \cup {token.n}
      BY <1>2, <2>2
    <3>2. \A k \in DOMAIN lines'.buf : lines'.buf[k].n \in begun'
      BY <1>1, <1>3, <3>1 DEF Begun
    <3>3. ASSUME ~ lines'.overrun, NEW n \in begun'
          PROVE  \E k \in DOMAIN lines'.buf : lines'.buf[k].n = n
      BY <1>1, <1>3, <2>2, <3>1, <3>3 DEF Begun
    <3> QED
      BY <3>2, <3>3 DEF Begun
  <2> QED
    BY <2>1, <2>2
<1>9. EndsClean'
  <2>1. CASE rx[Len(rx)] = Newline /\ Len(rx) = 1
    <3>1. lines' = Fresh /\ rx' = <<>>
      BY <1>3, <2>1, EmptySeq
    <3> QED
      BY <1>4, <3>1 DEF EndsClean
  <2>2. CASE rx[Len(rx)] = Newline /\ Len(rx) # 1
    <3>1. rx'[Len(rx')] = Newline
      BY <1>3, <2>2
    <3>2. rx' # <<>>
      BY <1>3, <2>2, EmptySeq
    <3> QED
      BY <1>4, <3>1, <3>2 DEF EndsClean
  <2>3. CASE next \in spoilt \cup lapsed
    BY <1>2, <2>3 DEF EndsClean
  <2> QED
    BY <1>1, <1>2, <2>1, <2>2, <2>3 DEF EndsClean
<1>10. ASSUME NEW n \in 1 .. next - 1
       PROVE  Spared(n)' /\ Traced(n)'
  <2>1. Spared(n) /\ Traced(n) /\ n \in 1 .. Len(Sizes) /\ n # Ping
    BY <1>1, <1>5
  <2>2. Spared(n)'
    <3>1. CASE n \in spoilt \cup taken \cup refused \cup lapsed \/ Size(n) > ItemMax
      BY <1>2, <1>4, <1>6, <3>1 DEF Spared
    <3>2. CASE Size(n) <= ItemMax /\ (Ahead(n) \/ Coming(n))
      <4>1. \/ Ahead(n)' \/ Coming(n)'
            \/ Head(rx) = Newline /\ ~ lines.overrun /\ lines.buf = Tokens(n)
        BY <1>2, <1>4, <2>1, <3>2, FedKeeps
      <4> QED
        BY <1>6, <2>1, <3>2, <4>1 DEF Spared, token
    <3>3. Size(n) \in Nat /\ ItemMax \in Nat
      BY <2>1, SizeFacts, LinkAssumption
    <3> QED
      BY <2>1, <3>1, <3>2, <3>3 DEF Spared
  <2>3. Traced(n)'
    <3>1. CASE n \in begun
      <4>1. CASE token = Newline
        BY <1>6, <3>1, <4>1 DEF Traced
      <4>2. CASE token # Newline
        BY <1>2, <3>1, <4>2 DEF Traced
      <4> QED
        BY <4>1, <4>2
    <3>2. CASE \E k \in DOMAIN rx : rx[k].n = n
      <4>1. PICK k \in DOMAIN rx : rx[k].n = n
        BY <3>2
      <4>2. CASE k = 1
        <5>1. token.n = n /\ token # Newline
          BY <1>3, <1>4, <2>1, <4>1, <4>2
        <5>2. n \in begun'
          BY <1>2, <5>1
        <5> QED
          BY <5>2 DEF Traced
      <4>3. CASE k # 1
        <5>1. k - 1 \in DOMAIN rx' /\ rx'[k - 1] = rx[k]
          BY <1>3, <1>4, <4>1, <4>3
        <5> QED
          BY <4>1, <5>1 DEF Traced
      <4> QED
        BY <4>2, <4>3
    <3>3. CASE \E k \in DOMAIN rxq : rxq[k] = n
      BY <1>6, <3>3 DEF Traced
    <3>4. CASE \/ n \in answered \cup counted \cup lapsed \/ InTxq(n)
               \/ n \in spoilt /\ Size(n) = 1
      BY <1>2, <1>4, <1>6, <3>4 DEF Traced
    <3> QED
      BY <2>1, <3>1, <3>2, <3>3, <3>4 DEF Traced
  <2> QED
    BY <2>2, <2>3
<1> QED
  BY <1>2, <1>6, <1>7, <1>8, <1>9, <1>10 DEF LinkInv

\* The dispatcher takes the first command of the queue: a reply, or busy.
LEMMA DispatchKeeps ==
  ASSUME LinkInv, rxq # <<>>, rxq' = Tail(rxq),
         NEW f \in FrameType, f.n # Ping => f.type = "reply",
         Send(f), f.n = Head(rxq) \/ Head(rxq) \in lapsed' \/ Head(rxq) = Ping,
         lapsed \subseteq lapsed',
         UNCHANGED <<hub, rx, lines, radio, beacons, damage, upsets, spoilt, taken, refused, begun>>
  PROVE  LinkInv'
<1>1. /\ LinkShape /\ Words
      /\ \A n \in 1 .. next - 1 : Traced(n)
      /\ txq \in Seq(FrameType) /\ Len(txq) <= TxDepth /\ rxq \in Seq(Nat) /\ Len(rxq) <= RxDepth
  BY DEF LinkInv, LinkShape, LinkTypeOK
<1>2. /\ txq' \in Seq(FrameType) /\ Len(txq') <= TxDepth /\ Words'
      /\ counted \subseteq counted'
      /\ \A n : InTxq(n) => InTxq(n)'
      /\ f.n \in counted' \/ InTxq(f.n)'
  BY <1>1, SendLeaves DEF Send
<1>3. /\ rxq' \in Seq(Nat) /\ Len(rxq') = Len(rxq) - 1 /\ Len(rxq) \in Nat \ {0}
      /\ \A i \in 1 .. Len(rxq') : rxq'[i] = rxq[i + 1]
      /\ Head(rxq) = rxq[1] /\ DOMAIN rxq = 1 .. Len(rxq) /\ DOMAIN rxq' = 1 .. Len(rxq) - 1
  BY <1>1, HeadTailProperties, EmptySeq
<1>4. LinkShape'
  <2>1. Len(rxq') <= RxDepth
    BY <1>1, <1>3, LinkAssumption
  <2> QED
    BY <1>1, <1>2, <1>3, <2>1 DEF LinkShape, LinkTypeOK, hub, radio
<1>5. ASSUME NEW n \in 1 .. next - 1
      PROVE  Traced(n)'
  <2>1. n # Ping
    BY <1>1, LinkAssumption DEF LinkShape, LinkTypeOK, Ping
  <2>2. CASE \E k \in DOMAIN rxq : rxq[k] = n
    <3>1. PICK k \in DOMAIN rxq : rxq[k] = n
      BY <2>2
    <3>2. CASE k = 1
      BY <1>2, <1>3, <2>1, <3>1, <3>2 DEF Traced
    <3>3. CASE k # 1
      <4>1. k - 1 \in DOMAIN rxq' /\ rxq'[k - 1] = n
        BY <1>3, <3>1, <3>3
      <4> QED
        BY <4>1 DEF Traced
    <3> QED
      BY <3>2, <3>3
  <2>3. CASE ~ \E k \in DOMAIN rxq : rxq[k] = n
    BY <1>1, <1>2, <2>3 DEF Traced, hub, Size, Ping
  <2> QED
    BY <2>2, <2>3
<1>6. rx' = rx /\ lines' = lines /\ next' = next /\ begun' = begun /\ UNCHANGED <<spoilt, taken, refused>>
  BY DEF hub
<1> QED
  BY <1>2, <1>4, <1>5, <1>6, StillKeeps

LEMMA DispatcherKeeps ==
  ASSUME LinkInv, DispatchLine \/ StackBusy
  PROVE  LinkInv'
<1>1. CASE DispatchLine
  <2>1. rxq # <<>> /\ rxq \in Seq(Nat) /\ Head(rxq) \in Nat
    BY <1>1, HeadTailProperties DEF DispatchLine, LinkInv, LinkShape
  <2>2. PICK n \in Nat : n = Head(rxq)
    BY <2>1
  <2>3. ReplyTo(n) = Frame(IF n = Ping THEN "pong" ELSE "reply", n)
    BY DEF ReplyTo
  <2>4. PICK f \in FrameType : f = ReplyTo(n) /\ f.n = n /\ (n # Ping => f.type = "reply")
    BY <2>3, FrameIs DEF FrameNames
  <2>5. /\ Send(f) /\ f.n = Head(rxq) /\ rxq' = Tail(rxq) /\ lapsed' = lapsed
        /\ UNCHANGED <<hub, rx, lines, radio, beacons, damage, upsets, spoilt, taken, refused, begun>>
    BY <1>1, <2>2, <2>4 DEF DispatchLine, linkHistory
  <2> QED
    BY <2>1, <2>4, <2>5, DispatchKeeps
<1>2. CASE StackBusy
  <2>1. PICK f \in FrameType : f = Frame("error", Ping) /\ f.n = Ping
    <3>1. Ping \in Nat /\ "error" \in FrameNames
      BY DEF Ping, FrameNames
    <3> QED
      BY <3>1, FrameIs
  <2>2. /\ Send(f) /\ rxq # <<>> /\ Head(rxq) \in lapsed' /\ rxq' = Tail(rxq) /\ lapsed \subseteq lapsed'
        /\ UNCHANGED <<hub, rx, lines, radio, beacons, damage, upsets, spoilt, taken, refused, begun>>
    BY <1>2, <2>1 DEF StackBusy
  <2> QED
    BY <2>1, <2>2, DispatchKeeps
<1> QED
  BY <1>1, <1>2

\* An event is posted.
LEMMA PostKeeps ==
  ASSUME LinkInv, NEW f \in FrameType, f.n = Ping, Send(f),
         zb' \in {"starting", "up", "down"}, beacons' \in 0 .. Beacons,
         UNCHANGED <<hub, rx, lines, rxq, linkHistory>>
  PROVE  LinkInv'
<1>1. /\ LinkShape /\ Words
      /\ \A n \in 1 .. next - 1 : Traced(n)
      /\ txq \in Seq(FrameType) /\ Len(txq) <= TxDepth
  BY DEF LinkInv, LinkShape, LinkTypeOK
<1>2. /\ txq' \in Seq(FrameType) /\ Len(txq') <= TxDepth /\ Words'
      /\ counted \subseteq counted'
      /\ \A n : InTxq(n) => InTxq(n)'
  BY <1>1, SendLeaves DEF Send
<1>3. LinkShape'
  BY <1>1, <1>2 DEF LinkShape, LinkTypeOK, hub
<1>4. ASSUME NEW n \in 1 .. next - 1
      PROVE  Traced(n)'
  BY <1>1, <1>2 DEF Traced, hub, linkHistory, Size, Ping
<1>5. rx' = rx /\ lines' = lines /\ next' = next /\ begun' = begun /\ UNCHANGED <<spoilt, lapsed, taken, refused>>
  BY DEF hub, linkHistory
<1> QED
  BY <1>2, <1>3, <1>4, <1>5, StillKeeps

LEMMA EventFrame ==
  ASSUME NEW type \in FrameNames, NEW up \in BOOLEAN
  PROVE  /\ Frame(type, Ping) \in FrameType /\ Frame(type, Ping).n = Ping
         /\ [type |-> type, n |-> Ping, up |-> up] \in FrameType
         /\ [type |-> type, n |-> Ping, up |-> up].n = Ping
<1>1. Ping \in Nat
  BY DEF Ping
<1> QED
  BY <1>1, FrameIs DEF FrameType

LEMMA SignalsKeep ==
  ASSUME LinkInv,
         \/ AnnounceNetwork \/ FormationFailed \/ NetworkDown \/ DeviceAnnounced
         \/ ActiveEpCb \/ SimpleDescCb \/ LeaveIndication \/ AnnounceBoot
  PROVE  LinkInv'
<1>1. zb \in {"starting", "up", "down"} /\ beacons \in 0 .. Beacons /\ Beacons \in Nat
  BY LinkAssumption DEF LinkInv, LinkShape, LinkTypeOK
<1>2. ASSUME NEW type \in FrameNames, Post(type),
             zb' \in {"starting", "up", "down"}, beacons' \in 0 .. Beacons
      PROVE  LinkInv'
  <2>1. PICK f \in FrameType : f = Frame(type, Ping) /\ f.n = Ping
    BY EventFrame
  <2>2. Send(f) /\ UNCHANGED <<hub, rx, lines, rxq, linkHistory>>
    BY <1>2, <2>1 DEF Post
  <2> QED
    BY <1>2, <2>1, <2>2, PostKeeps
<1>3. CASE AnnounceNetwork
  <2>1. PICK f \in FrameType : f = [type |-> "network_formed", n |-> Ping, up |-> TRUE] /\ f.n = Ping
    BY EventFrame DEF FrameNames
  <2>2. /\ Send(f) /\ UNCHANGED <<hub, rx, lines, rxq, linkHistory>>
        /\ zb' = "up" /\ beacons' = beacons
    BY <1>3, <2>1 DEF AnnounceNetwork
  <2> QED
    BY <1>1, <2>1, <2>2, PostKeeps
<1>4. CASE FormationFailed
  BY <1>1, <1>2, <1>4 DEF FormationFailed, FrameNames
<1>5. CASE NetworkDown
  BY <1>1, <1>2, <1>5 DEF NetworkDown, FrameNames
<1>6. CASE DeviceAnnounced
  BY <1>1, <1>2, <1>6 DEF DeviceAnnounced, FrameNames
<1>7. CASE ActiveEpCb
  BY <1>1, <1>2, <1>7 DEF ActiveEpCb, FrameNames
<1>8. CASE SimpleDescCb
  BY <1>1, <1>2, <1>8 DEF SimpleDescCb, FrameNames
<1>9. CASE LeaveIndication
  BY <1>1, <1>2, <1>9 DEF LeaveIndication, FrameNames
<1>10. CASE AnnounceBoot
  <2>1. Post("boot") /\ zb' = zb /\ beacons' \in 0 .. Beacons /\ "boot" \in FrameNames
    BY <1>1, <1>10 DEF AnnounceBoot, FrameNames
  <2> QED
    BY <1>1, <1>2, <2>1
<1> QED
  BY <1>3, <1>4, <1>5, <1>6, <1>7, <1>8, <1>9, <1>10

LEMMA RestartKeeps ==
  ASSUME LinkInv, Restart
  PROVE  LinkInv'
<1>1. \A S : <<>> \in Seq(S) /\ Len(<<>>) = 0
  BY EmptySeq
<1>2. /\ lines' = Fresh /\ rxq' = <<>> /\ txq' = <<>> /\ zb' = "starting" /\ beacons' = Beacons
      /\ lapsed' = 1 .. next /\ begun' = {} /\ rx' = rx /\ next' = next /\ network' = network
  BY DEF Restart, hub
<1>3. LinkShape
  BY DEF LinkInv
<1>4. LinkShape'
  <2>1. Fresh \in [buf : Seq(Token), overrun : BOOLEAN] /\ Len(Fresh.buf) = 0
    BY <1>1 DEF Fresh
  <2>2. LinkTypeOK'
    BY <1>1, <1>2, <1>3, <2>1, LinkAssumption DEF LinkShape, LinkTypeOK
  <2> QED
    BY <1>1, <1>2, <1>3, <2>1, <2>2 DEF LinkShape
<1>5. next \in Nat \ {0}
  BY <1>3, LinkAssumption DEF LinkShape, LinkTypeOK
<1>6. Words' /\ Begun' /\ EndsClean'
  <2>1. lines'.buf = <<>>
    BY <1>2 DEF Fresh
  <2> QED
    BY <1>2, <1>5, <2>1 DEF Words, Begun, EndsClean
<1>7. \A n \in 1 .. next - 1 : n \in lapsed'
  BY <1>2, <1>5
<1>8. \A n \in 1 .. next - 1 : Spared(n)' /\ Traced(n)'
  BY <1>7 DEF Spared, Traced
<1> QED
  BY <1>2, <1>4, <1>6, <1>8 DEF LinkInv

LEMMA ProcessLineKeeps ==
  ASSUME LinkInv, ProcessLine
  PROVE  LinkInv'
<1>1. /\ LinkShape /\ Words
      /\ \A n \in 1 .. next - 1 : Traced(n)
      /\ txq \in Seq(FrameType) /\ Len(txq) <= TxDepth /\ txq # <<>> /\ txq' = Tail(txq)
  BY DEF LinkInv, LinkShape, LinkTypeOK, ProcessLine
<1>2. PICK f : f = Head(txq)
  OBVIOUS
<1>3. /\ txq' \in Seq(FrameType) /\ Len(txq') = Len(txq) - 1 /\ Len(txq) \in Nat \ {0}
      /\ \A i \in 1 .. Len(txq') : txq'[i] = txq[i + 1]
      /\ f = txq[1] /\ DOMAIN txq = 1 .. Len(txq) /\ DOMAIN txq' = 1 .. Len(txq) - 1
  BY <1>1, <1>2, HeadTailProperties, EmptySeq
<1>4. /\ UNCHANGED <<next, rx, lines, rxq, counted, zb, beacons, spoilt, taken, refused, begun>>
      /\ answered \subseteq answered' /\ lapsed \subseteq lapsed'
      /\ network' \in {"unknown", "up", "down"}
      /\ f.n \in lapsed' \/ (f.type = "reply" => f.n \in answered')
  <2>1. UNCHANGED <<next, rx, lines, rxq, counted, zb, beacons, spoilt, taken, refused, begun>>
    BY DEF ProcessLine, radio
  <2>2. network \in {"unknown", "up", "down"} /\ NetworkUp(f) \in {"unknown", "up", "down"}
    BY <1>1 DEF LinkShape, LinkTypeOK, NetworkUp
  <2>3. \/ /\ network' = NetworkUp(f)
           /\ answered' = IF f.type = "reply" THEN answered \cup {f.n} ELSE answered
           /\ lapsed' = lapsed
        \/ /\ lapsed' = lapsed \cup {f.n} /\ network' = network /\ answered' = answered
    BY <1>2 DEF ProcessLine
  <2> QED
    BY <2>1, <2>2, <2>3
<1>5. Words'
  <2>1. ASSUME NEW k \in DOMAIN txq', txq'[k].n # Ping
        PROVE  txq'[k].type = "reply"
    <3>1. k + 1 \in DOMAIN txq /\ txq'[k] = txq[k + 1]
      BY <1>3, <2>1
    <3> QED
      BY <1>1, <2>1, <3>1 DEF Words
  <2> QED
    BY <2>1 DEF Words, Ping
<1>6. LinkShape'
  <2>1. Len(txq') <= TxDepth
    BY <1>1, <1>3, LinkAssumption
  <2> QED
    BY <1>1, <1>3, <1>4, <2>1 DEF LinkShape, LinkTypeOK
<1>7. ASSUME NEW n \in 1 .. next - 1
      PROVE  Traced(n)'
  <2>1. n # Ping
    BY <1>1, LinkAssumption DEF LinkShape, LinkTypeOK, Ping
  <2>2. CASE InTxq(n)
    <3>1. PICK k \in DOMAIN txq : txq[k].n = n
      BY <2>2 DEF InTxq
    <3>2. CASE k = 1
      <4>1. f.n = n /\ f.type = "reply"
        BY <1>1, <1>3, <2>1, <3>1, <3>2 DEF Words
      <4> QED
        BY <1>4, <4>1 DEF Traced
    <3>3. CASE k # 1
      <4>1. k - 1 \in DOMAIN txq' /\ txq'[k - 1] = txq[k]
        BY <1>3, <3>1, <3>3
      <4>2. InTxq(n)'
        BY <3>1, <4>1 DEF InTxq
      <4> QED
        BY <4>2 DEF Traced
    <3> QED
      BY <3>2, <3>3
  <2>3. CASE ~ InTxq(n)
    BY <1>1, <1>4, <2>3 DEF Traced, Size, Ping
  <2> QED
    BY <2>2, <2>3
<1> QED
  BY <1>4, <1>5, <1>6, <1>7, StillKeeps

-----------------------------------------------------------------------------
\* The account of the link holds in every reachable state.
THEOREM LinkInductive == LinkSpec => []LinkInv
<1>1. LinkInit => LinkInv
  BY LinkInitial
<1>2. LinkInv /\ [LinkNext]_linkVars => LinkInv'
  <2> SUFFICES ASSUME LinkInv, [LinkNext]_linkVars
               PROVE  LinkInv'
    OBVIOUS
  <2>1. CASE WriteCommand
    BY <2>1, WriteCommandKeeps
  <2>2. CASE WritePing
    BY <2>2, WritePingKeeps
  <2>3. CASE RxTask
    BY <2>3, RxTaskKeeps
  <2>4. CASE DispatchLine \/ StackBusy
    BY <2>4, DispatcherKeeps
  <2>5. CASE \/ AnnounceNetwork \/ FormationFailed \/ NetworkDown \/ DeviceAnnounced
             \/ ActiveEpCb \/ SimpleDescCb \/ LeaveIndication \/ AnnounceBoot
    BY <2>5, SignalsKeep
  <2>6. CASE Restart
    BY <2>6, RestartKeeps
  <2>7. CASE ProcessLine
    BY <2>7, ProcessLineKeeps
  <2>8. CASE UNCHANGED linkVars
    <3>1. /\ rx' = rx /\ lines' = lines /\ next' = next /\ begun' = begun
          /\ UNCHANGED <<spoilt, lapsed, taken, refused, rxq, txq, counted, answered, network, zb, beacons>>
      BY <2>8 DEF linkVars, hub, radio, linkHistory
    <3>2. LinkShape' /\ Words' /\ \A n \in 1 .. next - 1 : Traced(n)'
      BY <3>1 DEF LinkInv, LinkShape, LinkTypeOK, Words, Traced, InTxq, Size, Ping
    <3> QED
      BY <3>1, <3>2, StillKeeps
  <2> QED
    BY <2>1, <2>2, <2>3, <2>4, <2>5, <2>6, <2>7, <2>8 DEF LinkNext
<1> QED
  BY <1>1, <1>2, PTL DEF LinkSpec

\* Types and the depth of both queues and of the line buffer.
THEOREM LinkTypeCorrect == LinkSpec => []LinkTypeOK
<1>1. LinkInv => LinkTypeOK
  BY DEF LinkInv, LinkShape
<1> QED
  BY <1>1, LinkInductive, PTL

\* A line that is damaged, too long or dropped takes no neighbour with it.
THEOREM NeighboursKept == LinkSpec => []NeighboursSpared
<1>1. LinkInv => NeighboursSpared
  <2> SUFFICES ASSUME LinkInv, NEW n \in 1 .. next - 1
               PROVE  \/ n \in spoilt \cup taken \cup refused \cup lapsed
                      \/ OnTheWay(n) \/ Size(n) > ItemMax
    BY DEF NeighboursSpared
  <2>1. Spared(n) /\ n \in 1 .. Len(Sizes)
    BY LinkAssumption DEF LinkInv, LinkShape, LinkTypeOK
  <2>2. Size(n) \in Nat \ {0}
    BY <2>1, SizeFacts
  <2>3. rx \in Seq(Token) /\ DOMAIN rx = 1 .. Len(rx) /\ Len(rx) \in Nat
    BY DEF LinkInv, LinkShape
  <2>4. CASE Ahead(n)
    <3>1. PICK k \in DOMAIN rx : /\ k + Size(n) + 1 \in DOMAIN rx
                                 /\ \A j \in 1 .. Size(n) : rx[k + j] = [n |-> n, i |-> j]
      BY <2>4 DEF Ahead
    <3>2. k + 1 \in DOMAIN rx /\ rx[k + 1] = [n |-> n, i |-> 1]
      BY <2>2, <2>3, <3>1
    <3>3. rx[k + 1] \in ToSet(rx) /\ rx[k + 1].n = n
      BY <3>2 DEF ToSet
    <3> QED
      BY <3>3 DEF OnTheWay
  <2>5. CASE Coming(n)
    <3>1. PICK had \in Nat : had = Len(lines.buf)
      BY DEF LinkInv, LinkShape
    <3>2. /\ had <= Size(n)
          /\ \A j \in 1 .. had : lines.buf[j] = [n |-> n, i |-> j]
          /\ Size(n) - had + 1 \in DOMAIN rx
          /\ \A j \in had + 1 .. Size(n) : rx[j - had] = [n |-> n, i |-> j]
      BY <2>5, <3>1 DEF Coming
    <3>3. CASE had < Size(n)
      <4>1. 1 \in DOMAIN rx /\ rx[1] = [n |-> n, i |-> had + 1]
        <5>1. had + 1 \in had + 1 .. Size(n) /\ (had + 1) - had = 1 /\ 1 \in DOMAIN rx
          BY <2>2, <2>3, <3>2, <3>3
        <5> QED
          BY <3>2, <5>1
      <4>2. rx[1] \in ToSet(rx) /\ rx[1].n = n
        BY <4>1 DEF ToSet
      <4> QED
        BY <4>2 DEF OnTheWay
    <3>4. CASE had = Size(n)
      <4>1. 1 \in DOMAIN lines.buf /\ lines.buf[1] = [n |-> n, i |-> 1]
        <5>1. 1 \in 1 .. had /\ lines.buf \in Seq(Token)
          BY <2>2, <3>1, <3>4 DEF LinkInv, LinkShape
        <5> QED
          BY <3>1, <3>2, <5>1
      <4>0. n \in begun
        BY <4>1 DEF LinkInv, Begun
      <4> QED
        BY <4>0 DEF OnTheWay
    <3> QED
      BY <2>2, <3>2, <3>3, <3>4
  <2> QED
    BY <2>1, <2>4, <2>5 DEF Spared
<1> QED
  BY <1>1, LinkInductive, PTL

\* No command vanishes without a trace.
THEOREM NothingVanishes == LinkSpec => []Accounted
<1>1. LinkInv => Accounted
  BY DEF LinkInv, Traced, InTxq, Accounted, OnTheWay, ToSet
<1> QED
  BY <1>1, LinkInductive, PTL
=============================================================================
