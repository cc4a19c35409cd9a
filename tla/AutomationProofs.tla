--------------------------- MODULE AutomationProofs ---------------------------
(***************************************************************************)
(* Theorems about Automation, for every value of its constants: the state  *)
(* is well typed, no due event is skipped, the journal and the calls stay  *)
(* consistent, an id is sent again only after MaxRecords others.           *)
(***************************************************************************)
EXTENDS Automation, SequenceTheorems, FiniteSetTheorems, WellFoundedInduction,
        TLAPS

(***************************************************************************)
(* Lemmas about the operators the model is built from.                     *)
(***************************************************************************)

(* A nonempty set of naturals has a least element.                         *)
LEMMA LeastNatural ==
  ASSUME NEW S \in SUBSET Nat, S # {}
  PROVE  \E x \in S : \A y \in S : x <= y
<1> DEFINE less == {pair \in Nat \X Nat : pair[1] < pair[2]}
<1>1. IsWellFoundedOn(less, Nat)
  BY NatLessThanWellFounded DEF OpToRel
<1>2. \A x, y \in Nat : <<y, x>> \in less <=> y < x
  OBVIOUS
<1> HIDE DEF less
<1>3. PICK x \in S : \A y \in S : ~ (<<y, x>> \in less)
  BY <1>1, WFMin
<1>4. \A y \in S : ~ (y < x)
  BY <1>2, <1>3
<1>5. QED
  BY <1>4

(* AdvanceTo never passes an unfinished event nor the planned minute.      *)
LEMMA AdvanceToBound ==
  ASSUME NEW m \in Minutes, NEW pending \in SUBSET Events
  PROVE  /\ AdvanceTo(m, pending) \in Minutes
         /\ AdvanceTo(m, pending) <= m
         /\ \A e \in pending : AdvanceTo(m, pending) < Due[e]
<1>1. CASE pending = {}
  BY <1>1 DEF AdvanceTo, Minutes
<1>2. CASE pending # {}
  <2> DEFINE dues == {Due[e] : e \in pending}
             first == CHOOSE d \in dues : \A f \in pending : d <= Due[f]
  <2>1. dues \in SUBSET Nat /\ dues # {}
    BY <1>2, DueAssumption, BoundsAssumption
  <2>2. \E d \in dues : \A f \in pending : d <= Due[f]
    <3>1. \A f \in pending : Due[f] \in dues
      OBVIOUS
    <3> HIDE DEF dues
    <3>2. PICK d \in dues : \A y \in dues : d <= y
      BY <2>1, LeastNatural
    <3>3. QED
      BY <3>1, <3>2
  <2>3. first \in dues /\ \A f \in pending : first <= Due[f]
    BY <2>2
  <2>4. first \in 1 .. Horizon
    BY <2>3, DueAssumption
  <2>5. AdvanceTo(m, pending) = Smaller(first - 1, m)
    BY <1>2 DEF AdvanceTo
  <2> HIDE DEF first
  <2>6. \A f \in pending : Due[f] \in Int
    BY DueAssumption, BoundsAssumption
  <2>7. QED
    BY <2>3, <2>4, <2>5, <2>6, BoundsAssumption DEF Smaller, Minutes
<1>3. QED
  BY <1>1, <1>2

(* Remembering an id that is not journaled appends it, and drops the       *)
(* oldest record exactly when the journal was full.                        *)
LEMMA RememberFresh ==
  ASSUME NEW s \in Seq(Ids), NEW id \in Ids, id \notin Range(s),
         Len(s) <= MaxRecords
  PROVE  /\ Remember(s, id) \in Seq(Ids)
         /\ Len(s) < MaxRecords =>
              /\ Len(Remember(s, id)) = Len(s) + 1
              /\ \A i \in 1 .. Len(s) : Remember(s, id)[i] = s[i]
              /\ Remember(s, id)[Len(s) + 1] = id
         /\ Len(s) = MaxRecords =>
              /\ Len(Remember(s, id)) = MaxRecords
              /\ \A i \in 1 .. MaxRecords - 1 : Remember(s, id)[i] = s[i + 1]
              /\ Remember(s, id)[MaxRecords] = id
<1> DEFINE longer == Append(s, id)
<1>1. Without(s, id) = s
  BY DEF Without
<1>2. /\ longer \in Seq(Ids)
      /\ Len(longer) = Len(s) + 1
      /\ \A i \in 1 .. Len(s) : longer[i] = s[i]
      /\ longer[Len(s) + 1] = id
  BY AppendProperties
<1>3. Len(s) \in Nat /\ MaxRecords \in Nat \ {0}
  BY LenProperties, BoundsAssumption
<1>4. CASE Len(s) < MaxRecords
  <2>1. Remember(s, id) = longer
    BY <1>1, <1>2, <1>3, <1>4 DEF Remember
  <2>2. QED
    BY <2>1, <1>2, <1>3, <1>4
<1>5. CASE Len(s) = MaxRecords
  <2>1. Remember(s, id) = SubSeq(longer, 2, MaxRecords + 1)
    BY <1>1, <1>2, <1>3, <1>5 DEF Remember
  <2>2. \A i \in 2 .. MaxRecords + 1 : longer[i] \in Ids
    BY <1>2, <1>3, <1>5, ElementOfSeq
  <2> HIDE DEF longer
  <2>3. /\ SubSeq(longer, 2, MaxRecords + 1) \in Seq(Ids)
        /\ Len(SubSeq(longer, 2, MaxRecords + 1)) = MaxRecords
        /\ \A i \in 1 .. MaxRecords :
             SubSeq(longer, 2, MaxRecords + 1)[i] = longer[i + 1]
    BY <2>2, <1>3, SubSeqProperties
  <2>4. \A i \in 1 .. MaxRecords - 1 : longer[i + 1] = s[i + 1]
    BY <1>2, <1>3, <1>5
  <2>5. QED
    BY <2>1, <2>3, <2>4, <1>2, <1>3, <1>5
<1>6. QED
  BY <1>3, <1>4, <1>5

LEMMA RememberType ==
  ASSUME NEW s \in Seq(Ids), NEW id \in Ids
  PROVE  Remember(s, id) \in Seq(Ids)
<1>1. Without(s, id) \in Seq(Ids)
  BY DEF Without, Range
<1>2. QED
  BY <1>1, BoundsAssumption DEF Remember

(***************************************************************************)
(* Every state is well typed: in particular the scheduler's marker stays a *)
(* minute of the timeline and no call makes more than MaxAttempts attempts *)
(* (Executor.execute's bounded loop, _advance_to's arithmetic).            *)
(***************************************************************************)
LEMMA InitType == Init => TypeOK
BY BoundsAssumption DEF Init, TypeOK, Minutes, None

LEMMA NextType == TypeOK /\ [Next]_vars => TypeOK'
<1> SUFFICES ASSUME TypeOK, [Next]_vars PROVE TypeOK'
  OBVIOUS
<1> USE BoundsAssumption DEF TypeOK, Minutes, Ids
<1>1. CASE TickReanchor
  BY <1>1 DEF TickReanchor, callVars, history
<1>2. CASE TickStart
  BY <1>2 DEF TickStart, EventsBetween, Larger, callVars
<1>3. ASSUME NEW e \in Events, SkipExecuted(e) PROVE TypeOK'
  BY <1>3 DEF SkipExecuted, callVars, history
<1>4. ASSUME NEW e \in Events, ExecuteEvent(e) PROVE TypeOK'
  BY <1>4 DEF ExecuteEvent, SendFirst, tickVars, history
<1>5. CASE TickEnd
  <2>1. anchor \in Minutes
    BY <1>5 DEF TickEnd, Ticking
  <2>2. AdvanceTo(anchor, unfinished) \in Minutes
    BY <2>1, AdvanceToBound
  <2>3. QED
    BY <1>5, <2>2 DEF TickEnd, callVars, history
<1>6. ASSUME NEW t \in Taps, Tap(t) PROVE TypeOK'
  BY <1>6 DEF Tap, SendFirst, tickVars, history
<1>7. ASSUME NEW id \in Ids, DeviceActs(id) PROVE TypeOK'
  BY <1>7 DEF DeviceActs, tickVars, history
<1>8. ASSUME NEW id \in Ids, Executed(id) PROVE TypeOK'
  <2>1. journal' \in Seq(Ids)
    BY <1>8, RememberType DEF Executed
  <2>2. newer' \in [Ids -> SUBSET Ids]
    BY <1>8 DEF Executed
  <2>3. QED
    BY <1>8, <2>1, <2>2 DEF Executed, Return
<1>9. ASSUME NEW id \in Ids, AckUnjournaled(id) PROVE TypeOK'
  BY <1>9 DEF AckUnjournaled, Return, history
<1>10. ASSUME NEW id \in Ids, Retry(id) PROVE TypeOK'
  BY <1>10 DEF Retry, tickVars, history
<1>11. ASSUME NEW id \in Ids, GiveUp(id) PROVE TypeOK'
  BY <1>11 DEF GiveUp, Return, history
<1>12. CASE Minute
  BY <1>12 DEF Minute, tickVars, callVars, history
<1>13. ASSUME NEW m \in Minutes, SetClock(m) PROVE TypeOK'
  BY <1>13 DEF SetClock, tickVars, callVars, history
<1>14. ASSUME NEW e \in Events, Enable(e) PROVE TypeOK'
  BY <1>14 DEF Enable, tickVars, callVars
<1>15. ASSUME NEW e \in Events, Disable(e) PROVE TypeOK'
  BY <1>15 DEF Disable, tickVars, callVars, history
<1>16. CASE Crash
  BY <1>16 DEF Crash
<1>17. CASE UNCHANGED vars
  BY <1>17 DEF vars, tickVars, callVars, history
<1>18. QED
  BY <1>1, <1>2, <1>3, <1>4, <1>5, <1>6, <1>7, <1>8, <1>9, <1>10, <1>11,
     <1>12, <1>13, <1>14, <1>15, <1>16, <1>17
     DEF Next, Tick, Call, Environment

THEOREM TypeCorrect == Spec => []TypeOK
BY InitType, NextType, PTL DEF Spec

(***************************************************************************)
(* The calls and the journal.  The one lookup of execute (was_executed)    *)
(* stays valid for all attempts of the call, because a record of another   *)
(* call adds only that call's id.                                          *)
(***************************************************************************)

(* What a call leaves in the journal: nothing but the older records and    *)
(* its own id.                                                             *)
LEMMA RememberRange ==
  ASSUME NEW s \in Seq(Ids), NEW id \in Ids, id \notin Range(s),
         Len(s) <= MaxRecords
  PROVE  /\ Range(Remember(s, id)) \subseteq Range(s) \cup {id}
         /\ id \in Range(Remember(s, id))
<1> DEFINE r == Remember(s, id)
<1>1. /\ r \in Seq(Ids)
      /\ Len(s) < MaxRecords =>
           /\ Len(r) = Len(s) + 1
           /\ \A i \in 1 .. Len(s) : r[i] = s[i]
           /\ r[Len(s) + 1] = id
      /\ Len(s) = MaxRecords =>
           /\ Len(r) = MaxRecords
           /\ \A i \in 1 .. MaxRecords - 1 : r[i] = s[i + 1]
           /\ r[MaxRecords] = id
  BY RememberFresh
<1>2. Len(s) \in Nat /\ MaxRecords \in Nat \ {0}
  BY LenProperties, BoundsAssumption
<1> HIDE DEF r
<1>3. /\ Range(r) = {r[i] : i \in 1 .. Len(r)}
      /\ Range(s) = {s[i] : i \in 1 .. Len(s)}
  BY <1>1, RangeEquality
<1>4. CASE Len(s) < MaxRecords
  <2>1. \A i \in 1 .. Len(r) : r[i] = id \/ (i \in 1 .. Len(s) /\ r[i] = s[i])
    BY <1>1, <1>2, <1>4
  <2>2. Len(s) + 1 \in 1 .. Len(r) /\ r[Len(s) + 1] = id
    BY <1>1, <1>2, <1>4
  <2>3. QED
    BY <1>3, <2>1, <2>2 DEF r
<1>5. CASE Len(s) = MaxRecords
  <2>1. \A i \in 1 .. Len(r) :
          r[i] = id \/ (i + 1 \in 1 .. Len(s) /\ r[i] = s[i + 1])
    BY <1>1, <1>2, <1>5
  <2>2. MaxRecords \in 1 .. Len(r) /\ r[MaxRecords] = id
    BY <1>1, <1>2, <1>5
  <2>3. QED
    BY <1>3, <2>1, <2>2 DEF r
<1>6. QED
  BY <1>2, <1>4, <1>5

LEMMA InitCalls == Init => CallsAndJournal
BY DEF Init, CallsAndJournal, Journaled, Range

LEMMA NextCalls ==
  TypeOK /\ CallsAndJournal /\ Len(journal) <= MaxRecords /\ [Next]_vars
    => CallsAndJournal'
<1> SUFFICES ASSUME TypeOK, CallsAndJournal, Len(journal) <= MaxRecords,
                    [Next]_vars
             PROVE  CallsAndJournal'
  OBVIOUS
<1> USE DEF TypeOK, CallsAndJournal, Journaled
<1>1. CASE TickReanchor
  BY <1>1 DEF TickReanchor, callVars, history
<1>2. CASE TickStart
  BY <1>2 DEF TickStart, callVars
<1>3. ASSUME NEW e \in Events, SkipExecuted(e) PROVE CallsAndJournal'
  BY <1>3 DEF SkipExecuted, callVars, history
<1>4. ASSUME NEW e \in Events, ExecuteEvent(e) PROVE CallsAndJournal'
  BY <1>4 DEF ExecuteEvent, SendFirst, history, Ids
<1>5. CASE TickEnd
  BY <1>5 DEF TickEnd, callVars, history
<1>6. ASSUME NEW t \in Taps, Tap(t) PROVE CallsAndJournal'
  BY <1>6 DEF Tap, SendFirst, tickVars, history, Ids
<1>7. ASSUME NEW id \in Ids, DeviceActs(id) PROVE CallsAndJournal'
  BY <1>7 DEF DeviceActs, history
<1>8. ASSUME NEW id \in Ids, Executed(id) PROVE CallsAndJournal'
  <2>1. attempt[id] > 0 /\ id \notin Range(journal)
    BY <1>8 DEF Executed, SuccessReported
  <2>2. Range(journal') \subseteq Range(journal) \cup {id}
    BY <1>8, <2>1, RememberRange DEF Executed
  <2>3. DeliveryAck => id \in acted
    BY <1>8 DEF Executed, SuccessReported
  <2>4. QED
    BY <1>8, <2>1, <2>2, <2>3 DEF Executed, Return
<1>9. ASSUME NEW id \in Ids, AckUnjournaled(id) PROVE CallsAndJournal'
  BY <1>9 DEF AckUnjournaled, Return, history
<1>10. ASSUME NEW id \in Ids, Retry(id) PROVE CallsAndJournal'
  BY <1>10 DEF Retry, history
<1>11. ASSUME NEW id \in Ids, GiveUp(id) PROVE CallsAndJournal'
  BY <1>11 DEF GiveUp, Return, history
<1>12. CASE Minute
  BY <1>12 DEF Minute, callVars, history
<1>13. ASSUME NEW m \in Minutes, SetClock(m) PROVE CallsAndJournal'
  BY <1>13 DEF SetClock, callVars, history
<1>14. ASSUME NEW e \in Events, Enable(e) PROVE CallsAndJournal'
  BY <1>14 DEF Enable, callVars
<1>15. ASSUME NEW e \in Events, Disable(e) PROVE CallsAndJournal'
  BY <1>15 DEF Disable, callVars, history
<1>16. CASE Crash
  BY <1>16 DEF Crash
<1>17. CASE UNCHANGED vars
  BY <1>17 DEF vars, callVars, history
<1>18. QED
  BY <1>1, <1>2, <1>3, <1>4, <1>5, <1>6, <1>7, <1>8, <1>9, <1>10, <1>11,
     <1>12, <1>13, <1>14, <1>15, <1>16, <1>17
     DEF Next, Tick, Call, Environment

(***************************************************************************)
(* No due event is skipped.  What lies behind the marker and what the      *)
(* running tick has taken over are one argument: a tick starts where the   *)
(* marker is or CatchUp back, accounts for everything up to its minute,    *)
(* and moves the marker to just before what it could not finish.           *)
(***************************************************************************)
LEMMA InitSkipped == Init => NothingSkipped /\ TickAccounts
BY DueAssumption, BoundsAssumption
   DEF Init, NothingSkipped, TickAccounts, Ticking, None

LEMMA NextSkipped ==
  TypeOK /\ CallsAndJournal /\ NothingSkipped /\ TickAccounts /\ [Next]_vars
    => NothingSkipped' /\ TickAccounts'
<1> SUFFICES ASSUME TypeOK, CallsAndJournal, NothingSkipped, TickAccounts,
                    [Next]_vars
             PROVE  NothingSkipped' /\ TickAccounts'
  OBVIOUS
<1> USE BoundsAssumption
    DEF TypeOK, NothingSkipped, TickAccounts, Ticking, None, Minutes
<1>0. \A e \in Events : Due[e] \in 1 .. Horizon
  BY DueAssumption
<1>1. CASE TickReanchor
  <2>1. last' <= last
    BY <1>1 DEF TickReanchor, HasWindow
  <2>2. QED
    BY <1>0, <1>1, <2>1 DEF TickReanchor, history
<1>2. CASE TickStart
  <2>1. reach' \in Minutes /\ reach <= reach' /\ now <= reach'
    BY <1>2 DEF TickStart, Larger
  <2>2. NothingSkipped'
    BY <1>0, <1>2, <2>1 DEF TickStart
  <2>3. ASSUME NEW e \in enabled \ late, Due[e] <= now
        PROVE  e \in done \cup todo' \/ Due[e] <= reach' - CatchUp
    <3>1. CASE WindowStart(now) < Due[e]
      BY <1>0, <1>2, <2>3, <3>1 DEF TickStart, EventsBetween
    <3>2. CASE Due[e] <= last
      BY <1>0, <2>1, <2>3, <3>2
    <3>3. CASE Due[e] <= now - CatchUp
      BY <1>0, <2>1, <3>3
    <3>4. QED
      BY <1>0, <3>1, <3>2, <3>3 DEF WindowStart, Larger
  <2>4. TickAccounts'
    BY <1>2, <2>1, <2>3 DEF TickStart
  <2>5. QED
    BY <2>2, <2>4
<1>3. ASSUME NEW e \in Events, SkipExecuted(e)
      PROVE  NothingSkipped' /\ TickAccounts'
  <2>1. e \in done
    BY <1>3 DEF SkipExecuted, CallsAndJournal
  <2>2. QED
    BY <1>3, <2>1 DEF SkipExecuted, history
<1>4. ASSUME NEW e \in Events, ExecuteEvent(e)
      PROVE  NothingSkipped' /\ TickAccounts'
  BY <1>4 DEF ExecuteEvent, tickVars, history
<1>5. CASE TickEnd
  <2>1. anchor \in Minutes /\ unfinished \in SUBSET Events
    BY <1>5 DEF TickEnd
  <2>2. /\ last' \in Minutes
        /\ last' <= anchor
        /\ \A e \in unfinished : last' < Due[e]
    BY <1>5, <2>1, AdvanceToBound DEF TickEnd
  <2>3. ASSUME NEW e \in enabled \ late, Due[e] <= last'
        PROVE  e \in done \/ Due[e] <= reach - CatchUp
    <3>1. Due[e] <= anchor /\ e \notin unfinished
      BY <1>0, <2>1, <2>2, <2>3
    <3>2. QED
      BY <1>5, <3>1 DEF TickEnd
  <2>4. NothingSkipped'
    BY <1>5, <2>3 DEF TickEnd, history
  <2>5. TickAccounts'
    BY <1>5 DEF TickEnd
  <2>6. QED
    BY <2>4, <2>5
<1>6. ASSUME NEW t \in Taps, Tap(t)
      PROVE  NothingSkipped' /\ TickAccounts'
  BY <1>6 DEF Tap, tickVars, history
<1>7. ASSUME NEW id \in Ids, DeviceActs(id)
      PROVE  NothingSkipped' /\ TickAccounts'
  BY <1>7 DEF DeviceActs, tickVars, history
<1>8. ASSUME NEW id \in Ids, Executed(id)
      PROVE  NothingSkipped' /\ TickAccounts'
  BY <1>8 DEF Executed, Return
<1>9. ASSUME NEW id \in Ids, AckUnjournaled(id)
      PROVE  NothingSkipped' /\ TickAccounts'
  BY <1>9 DEF AckUnjournaled, Return, history
<1>10. ASSUME NEW id \in Ids, Retry(id)
       PROVE  NothingSkipped' /\ TickAccounts'
  BY <1>10 DEF Retry, tickVars, history
<1>11. ASSUME NEW id \in Ids, GiveUp(id)
       PROVE  NothingSkipped' /\ TickAccounts'
  BY <1>11 DEF GiveUp, Return, history
<1>12. CASE Minute
  BY <1>12 DEF Minute, tickVars, history
<1>13. ASSUME NEW m \in Minutes, SetClock(m)
       PROVE  NothingSkipped' /\ TickAccounts'
  BY <1>13 DEF SetClock, tickVars, history
<1>14. ASSUME NEW e \in Events, Enable(e)
       PROVE  NothingSkipped' /\ TickAccounts'
  <2>1. Due[e] <= last \/ Due[e] <= anchor => e \in late'
    BY <1>0, <1>14 DEF Enable, Larger
  <2>2. late \subseteq late' /\ enabled' = enabled \cup {e}
    BY <1>14 DEF Enable
  <2>3. QED
    BY <1>14, <2>1, <2>2 DEF Enable, tickVars
<1>15. ASSUME NEW e \in Events, Disable(e)
       PROVE  NothingSkipped' /\ TickAccounts'
  BY <1>15 DEF Disable, tickVars, history
<1>16. CASE Crash
  BY <1>0, <1>16 DEF Crash
<1>17. CASE UNCHANGED vars
  BY <1>17 DEF vars, tickVars, history
<1>18. QED
  BY <1>1, <1>2, <1>3, <1>4, <1>5, <1>6, <1>7, <1>8, <1>9, <1>10, <1>11,
     <1>12, <1>13, <1>14, <1>15, <1>16, <1>17
     DEF Next, Tick, Call, Environment

(***************************************************************************)
(* The journal is the newest MaxRecords ids, in order; a forgotten id has  *)
(* been followed by MaxRecords others.                                     *)
(***************************************************************************)

(* A list of distinct ids has as many ids as entries.                      *)
LEMMA DistinctCount ==
  ASSUME NEW s \in Seq(Ids),
         \A i, j \in DOMAIN s : i < j => s[i] # s[j]
  PROVE  IsFiniteSet(Range(s)) /\ Cardinality(Range(s)) = Len(s)
<1>1. Len(s) \in Nat /\ DOMAIN s = 1 .. Len(s)
  BY LenProperties
<1>2. s \in [1 .. Len(s) -> Range(s)]
  BY <1>1 DEF Range
<1>3. s \in Bijection(1 .. Len(s), Range(s))
  <2>1. \A i, j \in 1 .. Len(s) : s[i] = s[j] => i = j
    BY <1>1
  <2>2. \A y \in Range(s) : \E i \in 1 .. Len(s) : s[i] = y
    BY <1>1 DEF Range
  <2>3. QED
    BY <1>2, <2>1, <2>2 DEF Bijection, Injection, Surjection, IsInjective
<1>4. ExistsBijection(1 .. Len(s), Range(s))
  BY <1>3 DEF ExistsBijection
<1>5. QED
  BY <1>1, <1>4, FS_NatBijection, FS_CountingElements

LEMMA NewerFinite ==
  ASSUME TypeOK, NEW id \in Ids
  PROVE  IsFiniteSet(newer[id]) /\ Cardinality(newer[id]) \in Nat
<1>1. newer[id] \in SUBSET Ids
  BY DEF TypeOK
<1>2. QED
  BY <1>1, FiniteIds, FS_Subset, FS_CardinalityType

(* An index of a list of length n is its last one or one of the others.    *)
LEMMA LastOrBefore ==
  \A n \in Nat : \A m \in 1 .. n : m = n \/ m \in 1 .. n - 1
OBVIOUS

LEMMA InitNewest == Init => JournalIsNewest
BY BoundsAssumption DEF Init, JournalIsNewest, Journaled

(* One more record keeps the journal the newest ids in order.              *)
LEMMA ExecutedNewest ==
  ASSUME TypeOK, CallsAndJournal, JournalIsNewest,
         NEW id \in Ids, Executed(id)
  PROVE  JournalIsNewest'
<1> DEFINE r == journal'
           n == Len(journal)
<1>1. /\ journal \in Seq(Ids)
      /\ n \in Nat /\ DOMAIN journal = 1 .. n
      /\ \A i \in 1 .. n : journal[i] \in Ids
      /\ MaxRecords \in Nat \ {0}
      /\ n <= MaxRecords
  BY LenProperties, BoundsAssumption DEF TypeOK, JournalIsNewest
<1>2. id \notin Range(journal)
  BY DEF Executed, SuccessReported, CallsAndJournal, Journaled
<1>3. \A i \in 1 .. n : journal[i] # id
  BY <1>1, <1>2 DEF Range
<1>4. /\ r \in Seq(Ids)
      /\ n < MaxRecords =>
           /\ Len(r) = n + 1
           /\ \A i \in 1 .. n : r[i] = journal[i]
           /\ r[n + 1] = id
      /\ n = MaxRecords =>
           /\ Len(r) = MaxRecords
           /\ \A i \in 1 .. MaxRecords - 1 : r[i] = journal[i + 1]
           /\ r[MaxRecords] = id
  BY <1>1, <1>2, RememberFresh DEF Executed
<1>5. DOMAIN r = 1 .. Len(r) /\ Len(r) \in Nat
  BY <1>4, LenProperties
<1>6. \A i \in Ids : newer'[i] = IF i = id THEN {} ELSE newer[i] \cup {id}
  BY DEF Executed
(* Every entry but the last is an older entry, k places further in the     *)
(* older list: k = 1 when the oldest was dropped.                          *)
<1> DEFINE k == IF n = MaxRecords THEN 1 ELSE 0
<1> HIDE DEF r, n
<1>7. /\ k \in {0, 1}
      /\ k = 1 => n = MaxRecords
      /\ Len(r) = n + 1 - k
      /\ Len(r) \in 1 .. MaxRecords
  BY <1>1, <1>4
<1>8. \A i \in 1 .. Len(r) - 1 : i + k \in 1 .. n
  BY <1>1, <1>7
<1>9. \A i \in 1 .. Len(r) - 1 : r[i] = journal[i + k]
  <2>1. CASE n = MaxRecords
    <3>1. k = 1 /\ Len(r) = MaxRecords
      BY <1>4, <2>1
    <3>2. QED
      BY <1>4, <2>1, <3>1
  <2>2. CASE n < MaxRecords
    <3>1. k = 0 /\ Len(r) - 1 = n
      BY <1>1, <1>4, <2>2
    <3>2. \A i \in 1 .. n : r[i] = journal[i] /\ i + 0 = i
      BY <1>1, <1>4, <2>2
    <3>3. QED
      BY <3>1, <3>2
  <2>3. QED
    BY <1>1, <2>1, <2>2
<1>10. r[Len(r)] = id /\ Len(r) \in 1 .. Len(r)
  BY <1>1, <1>4, <1>7
<1> HIDE DEF k
<1>11. \A i \in 1 .. Len(r) - 1 : r[i] # id /\ r[i] \in Ids
  BY <1>1, <1>3, <1>8, <1>9
<1>12. \A i, j \in 1 .. Len(r) : i < j => r[i] # r[j] /\ r[j] \in newer'[r[i]]
  <2> SUFFICES ASSUME NEW i \in 1 .. Len(r), NEW j \in 1 .. Len(r), i < j
               PROVE  r[i] # r[j] /\ r[j] \in newer'[r[i]]
    OBVIOUS
  <2>1. i \in 1 .. Len(r) - 1
    BY <1>5
  <2>2. newer'[r[i]] = newer[r[i]] \cup {id}
    BY <1>6, <1>11, <2>1
  <2>3. CASE j = Len(r)
    BY <1>10, <1>11, <2>1, <2>2, <2>3
  <2>4. CASE j # Len(r)
    <3>1. j \in 1 .. Len(r) - 1
      BY <1>5, <2>4, LastOrBefore
    <3>2. i + k \in 1 .. n /\ j + k \in 1 .. n /\ i + k < j + k
      BY <1>7, <1>8, <2>1, <3>1
    <3>3. journal[i + k] # journal[j + k] /\ journal[j + k] \in newer[journal[i + k]]
      BY <1>1, <3>2 DEF JournalIsNewest
    <3>4. QED
      BY <1>9, <2>1, <2>2, <3>1, <3>3
  <2>5. QED
    BY <2>3, <2>4
<1>13. \A i \in Ids : i \notin newer'[i]
  BY <1>6 DEF JournalIsNewest
<1>14. IsFiniteSet(Range(r)) /\ Cardinality(Range(r)) = Len(r)
  BY <1>4, <1>5, <1>12, DistinctCount
<1>15. ASSUME NEW x \in done' \ Range(r)
       PROVE  Cardinality(newer'[x]) >= MaxRecords
  <2>1. x # id /\ x \in done /\ x \in Ids
    <3>1. id \in Range(r)
      BY <1>5, <1>10 DEF Range
    <3>2. QED
      BY <1>15, <3>1 DEF Executed, TypeOK
  <2>2. newer'[x] = newer[x] \cup {id}
    BY <1>6, <2>1
  <2>3. /\ IsFiniteSet(newer[x]) /\ Cardinality(newer[x]) \in Nat
        /\ IsFiniteSet(newer'[x]) /\ Cardinality(newer'[x]) \in Nat
        /\ Cardinality(newer[x]) <= Cardinality(newer'[x])
    <3>1. IsFiniteSet(newer[x]) /\ Cardinality(newer[x]) \in Nat
      BY <2>1, NewerFinite
    <3>2. IsFiniteSet(newer[x] \cup {id})
      BY <3>1, FS_AddElement
    <3>3. QED
      BY <2>2, <3>1, <3>2, FS_Subset, FS_CardinalityType
  <2>4. CASE x \notin Range(journal)
    <3>1. Cardinality(newer[x]) >= MaxRecords
      BY <2>1, <2>4 DEF JournalIsNewest, Journaled
    <3>2. QED
      BY <1>1, <2>3, <3>1
  <2>5. CASE x \in Range(journal)
    (* Its record was the dropped one, and every record that is kept is    *)
    (* newer than it.                                                      *)
    <3>1. PICK i \in 1 .. n : journal[i] = x
      BY <1>1, <2>5 DEF Range
    <3>2. \A m \in 1 .. Len(r) : r[m] # x
      BY <1>5, <1>15 DEF Range
    <3>3. i - k \notin 1 .. Len(r) - 1
      <4> SUFFICES ASSUME i - k \in 1 .. Len(r) - 1 PROVE FALSE
        OBVIOUS
      <4>1. r[i - k] = journal[(i - k) + k]
        BY <1>9
      <4>2. (i - k) + k = i /\ i - k \in 1 .. Len(r)
        BY <1>1, <1>5, <1>7
      <4>3. QED
        BY <3>1, <3>2, <4>1, <4>2
    <3>4. k = 1 /\ i = 1
      BY <1>1, <1>7, <3>3
    <3>5. \A m \in 1 .. Len(r) - 1 : r[m] \in newer[x]
      <4> TAKE m \in 1 .. Len(r) - 1
      <4>1. m + k \in 1 .. n /\ 1 \in 1 .. n /\ 1 < m + k
        BY <1>1, <1>5, <1>8, <3>1, <3>4
      <4>2. journal[m + k] \in newer[journal[1]]
        BY <1>1, <4>1 DEF JournalIsNewest
      <4>3. QED
        BY <1>9, <3>1, <3>4, <4>2
    <3>6. \A m \in 1 .. Len(r) : r[m] \in newer'[x]
      <4> TAKE m \in 1 .. Len(r)
      <4>1. m = Len(r) \/ m \in 1 .. Len(r) - 1
        BY <1>5, LastOrBefore
      <4>2. QED
        BY <1>10, <2>2, <3>5, <4>1
    <3>7. Range(r) \in SUBSET newer'[x]
      BY <1>5, <3>6 DEF Range
    <3>8. Cardinality(Range(r)) <= Cardinality(newer'[x])
      BY <2>3, <3>7, FS_Subset
    <3>9. QED
      BY <1>1, <1>7, <1>14, <2>3, <3>4, <3>8
  <2>6. QED
    BY <2>4, <2>5
<1>16. QED
  BY <1>5, <1>7, <1>12, <1>13, <1>15 DEF JournalIsNewest, Journaled, r

LEMMA NextNewest ==
  TypeOK /\ CallsAndJournal /\ JournalIsNewest /\ [Next]_vars
    => JournalIsNewest'
<1> SUFFICES ASSUME TypeOK, CallsAndJournal, JournalIsNewest, [Next]_vars
             PROVE  JournalIsNewest'
  OBVIOUS
<1>1. CASE \E id \in Ids : Executed(id)
  BY <1>1, ExecutedNewest
<1>2. CASE UNCHANGED <<journal, done, newer>>
  BY <1>2 DEF JournalIsNewest, Journaled
<1>3. CASE ~ \E id \in Ids : Executed(id)
  <2>1. CASE Tick
    BY <1>2, <2>1 DEF Tick, TickReanchor, TickStart, SkipExecuted, ExecuteEvent,
                      TickEnd, history
  <2>2. ASSUME NEW t \in Taps, Tap(t) PROVE JournalIsNewest'
    BY <1>2, <2>2 DEF Tap, history
  <2>3. ASSUME NEW id \in Ids, Call(id) PROVE JournalIsNewest'
    BY <1>2, <1>3, <2>3 DEF Call, DeviceActs, AckUnjournaled, Retry, GiveUp,
                            history
  <2>4. CASE Environment
    BY <1>2, <2>4 DEF Environment, Minute, SetClock, Enable, Disable, Crash,
                      history
  <2>5. CASE UNCHANGED vars
    BY <1>2, <2>5 DEF vars, history
  <2>6. QED
    BY <2>1, <2>2, <2>3, <2>4, <2>5 DEF Next
<1>4. QED
  BY <1>1, <1>3

(***************************************************************************)
(* The theorems.                                                           *)
(***************************************************************************)

(* The inductive invariant of the pipeline.                                *)
THEOREM Inductive == Spec => []IInv
<1>1. Init => IInv
  BY InitType, InitCalls, InitSkipped, InitNewest DEF IInv
<1>2. IInv /\ [Next]_vars => IInv'
  <2> SUFFICES ASSUME IInv, [Next]_vars PROVE IInv'
    OBVIOUS
  <2>1. /\ TypeOK /\ CallsAndJournal /\ NothingSkipped /\ TickAccounts
        /\ JournalIsNewest /\ Len(journal) <= MaxRecords
    BY DEF IInv, JournalIsNewest
  <2>2. TypeOK'
    BY <2>1, NextType
  <2>3. CallsAndJournal'
    BY <2>1, NextCalls
  <2>4. NothingSkipped' /\ TickAccounts'
    BY <2>1, NextSkipped
  <2>5. JournalIsNewest'
    BY <2>1, NextNewest
  <2>6. QED
    BY <2>2, <2>3, <2>4, <2>5 DEF IInv
<1>3. QED
  BY <1>1, <1>2, PTL DEF Spec

(* plan_window, _advance_to and the re-anchoring leave no due event behind *)
(* unless it was executed or fell out of the catch-up span.                *)
THEOREM NoEventSkipped == Spec => []NothingSkipped
<1>1. IInv => NothingSkipped
  BY DEF IInv
<1>2. QED
  BY <1>1, Inductive, PTL

(* With the ACK ladder, the journal only holds commands whose device acted.*)
THEOREM JournalTellsTheTruth == Spec => []JournaledMeansActed
<1>1. IInv => JournaledMeansActed
  BY DEF IInv, CallsAndJournal, JournaledMeansActed
<1>2. QED
  BY <1>1, Inductive, PTL

(* Which steps send: the first send looked the id up, the retries belong   *)
(* to a call that did.                                                     *)
LEMMA SendsAreFresh ==
  IInv /\ [Next]_vars =>
    \A id \in Ids : attempt'[id] > attempt[id] => id \notin Journaled
<1> SUFFICES ASSUME IInv, [Next]_vars, NEW id \in Ids,
                    attempt'[id] > attempt[id]
             PROVE  id \notin Journaled
  OBVIOUS
<1>1. TypeOK /\ CallsAndJournal /\ attempt[id] \in 0 .. MaxAttempts
  BY DEF IInv, TypeOK
<1> USE BoundsAssumption
<1>2. ASSUME NEW i \in Ids, SendFirst(i) PROVE id \notin Journaled
  <2>1. CASE id = i
    BY <1>2, <2>1 DEF SendFirst
  <2>2. CASE id # i
    <3>1. attempt'[id] = attempt[id]
      BY <1>1, <1>2, <2>2 DEF SendFirst, TypeOK
    <3>2. QED
      BY <1>1, <3>1
  <2>3. QED
    BY <2>1, <2>2
<1>3. CASE UNCHANGED attempt
  BY <1>1, <1>3
<1>4. ASSUME NEW i \in Ids, Call(i) PROVE id \notin Journaled
  <2>1. CASE Retry(i)
    BY <1>1, <2>1 DEF Retry, TypeOK, CallsAndJournal
  <2>2. CASE ~ Retry(i)
    BY <1>1, <1>4, <2>2 DEF Call, DeviceActs, Executed, AckUnjournaled, GiveUp,
                            Return, TypeOK
  <2>3. QED
    BY <2>1, <2>2
<1>5. CASE Environment
  <2>1. CASE Crash
    <3>1. attempt'[id] = 0
      BY <2>1 DEF Crash
    <3>2. QED
      BY <1>1, <3>1
  <2>2. CASE ~ Crash
    <3>1. attempt' = attempt
      BY <1>5, <2>2 DEF Environment, Minute, SetClock, Enable, Disable, callVars
    <3>2. QED
      BY <1>1, <3>1
  <2>3. QED
    BY <2>1, <2>2
<1>6. CASE UNCHANGED vars
  BY <1>1, <1>6 DEF vars, callVars
<1>7. CASE Tick
  <2>1. CASE \E e \in Events : ExecuteEvent(e)
    BY <1>2, <2>1 DEF ExecuteEvent, Ids
  <2>2. CASE ~ \E e \in Events : ExecuteEvent(e)
    BY <1>3, <1>7, <2>2 DEF Tick, TickReanchor, TickStart, SkipExecuted,
                            TickEnd, callVars
  <2>3. QED
    BY <2>1, <2>2
<1>8. ASSUME NEW t \in Taps, Tap(t) PROVE id \notin Journaled
  BY <1>2, <1>8 DEF Tap, Ids
<1>9. QED
  BY <1>4, <1>5, <1>6, <1>7, <1>8 DEF Next

(* No attempt of any call sends an id that is in the journal.              *)
THEOREM SendsOnlyUnjournaled == Spec => NeverSentWhileJournaled
<1>1. IInv /\ [Next]_vars =>
        [\A id \in Ids : attempt'[id] > attempt[id] => id \notin Journaled]_vars
  BY SendsAreFresh
<1>2. QED
  BY <1>1, Inductive, PTL DEF Spec, NeverSentWhileJournaled

(* The dedup of the executor holds as long as the journal remembers: an id *)
(* is sent again only after MaxRecords other ids were journaled.           *)
THEOREM DedupHorizon == Spec => ResendNeedsEviction
<1>1. IInv /\ [Next]_vars =>
        [\A id \in Ids : attempt'[id] > attempt[id] /\ id \in done
            => Cardinality(newer[id]) >= MaxRecords]_vars
  BY SendsAreFresh DEF IInv, JournalIsNewest
<1>2. QED
  BY <1>1, Inductive, PTL DEF Spec, ResendNeedsEviction

(***************************************************************************)
(* The pipeline keeps the executor's promise: the refinement of            *)
(* ExecutionPromise, step by step.  The clock, the ticks, the retries and  *)
(* the edits of the schedules are stutters of it.                          *)
(***************************************************************************)

(* What remembering does to the set of the remembered: the new id comes in *)
(* and, only when the journal was full, the oldest one goes.               *)
LEMMA RememberSet ==
  ASSUME NEW s \in Seq(Ids), NEW id \in Ids, id \notin Range(s),
         \A i, j \in DOMAIN s : i < j => s[i] # s[j],
         Len(s) <= MaxRecords
  PROVE  /\ Len(s) < MaxRecords => Range(Remember(s, id)) = Range(s) \cup {id}
         /\ Len(s) = MaxRecords =>
              /\ s[1] \in Range(s)
              /\ Range(Remember(s, id)) = (Range(s) \ {s[1]}) \cup {id}
<1> DEFINE r == Remember(s, id)
<1>1. /\ r \in Seq(Ids)
      /\ Len(s) < MaxRecords =>
           /\ Len(r) = Len(s) + 1
           /\ \A i \in 1 .. Len(s) : r[i] = s[i]
           /\ r[Len(s) + 1] = id
      /\ Len(s) = MaxRecords =>
           /\ Len(r) = MaxRecords
           /\ \A i \in 1 .. MaxRecords - 1 : r[i] = s[i + 1]
           /\ r[MaxRecords] = id
  BY RememberFresh
<1>2. Len(s) \in Nat /\ MaxRecords \in Nat \ {0}
  BY LenProperties, BoundsAssumption
<1>d. DOMAIN s = 1 .. Len(s)
  BY LenProperties
<1>3. Range(Remember(s, id)) = Range(r)
  OBVIOUS
<1> HIDE DEF r
<1>4. /\ Range(r) = {r[i] : i \in 1 .. Len(r)}
      /\ Range(s) = {s[i] : i \in 1 .. Len(s)}
  BY <1>1, RangeEquality
<1>5. CASE Len(s) < MaxRecords
  <2>1. \A i \in 1 .. Len(r) : r[i] = id \/ (i \in 1 .. Len(s) /\ r[i] = s[i])
    BY <1>1, <1>2, <1>5
  <2>2. \A i \in 1 .. Len(s) : i \in 1 .. Len(r)
    BY <1>1, <1>2, <1>5
  <2>3. Len(s) + 1 \in 1 .. Len(r) /\ r[Len(s) + 1] = id
    BY <1>1, <1>2, <1>5
  <2>4. Range(r) \subseteq Range(s) \cup {id}
    BY <1>4, <2>1
  <2>5. Range(s) \cup {id} \subseteq Range(r)
    BY <1>1, <1>4, <1>5, <2>2, <2>3
  <2>6. QED
    BY <1>2, <1>3, <1>5, <2>4, <2>5
<1>6. CASE Len(s) = MaxRecords
  <2>1. \A i \in 1 .. Len(r) :
          r[i] = id \/ (i + 1 \in 2 .. Len(s) /\ r[i] = s[i + 1])
    BY <1>1, <1>2, <1>6
  <2>2. \A i \in 2 .. Len(s) : i - 1 \in 1 .. Len(r) /\ r[i - 1] = s[i]
    BY <1>1, <1>2, <1>6
  <2>3. MaxRecords \in 1 .. Len(r) /\ r[MaxRecords] = id
    BY <1>1, <1>2, <1>6
  <2>4. 1 \in 1 .. Len(s) /\ \A i \in 2 .. Len(s) : i \in 1 .. Len(s) /\ s[1] # s[i]
    BY <1>2, <1>6, <1>d
  <2>5. \A i \in 1 .. Len(s) : i = 1 \/ i \in 2 .. Len(s)
    BY <1>2
  <2> DEFINE kept == {s[i] : i \in 2 .. Len(s)}
  <2>6. Range(s) \ {s[1]} = kept /\ s[1] \in Range(s)
    BY <1>4, <2>4, <2>5
  <2>7. Range(r) = kept \cup {id}
    BY <1>4, <2>1, <2>2, <2>3
  <2>8. QED
    BY <1>2, <1>3, <1>6, <2>6, <2>7
<1>7. QED
  BY <1>2, <1>5, <1>6

(* The calls that run, the `open' of the promise.                          *)
InProgress == {id \in Ids : attempt[id] > 0}

(* A first send opens a call, or goes on with the call of that id.         *)
LEMMA SendBegins ==
  ASSUME TypeOK, CallsAndJournal, NEW id \in Ids, SendFirst(id), UNCHANGED journal
  PROVE  Promise!Next \/ UNCHANGED Promise!promiseVars
<1>1. \A i \in Ids : attempt'[i] = IF i = id THEN 1 ELSE attempt[i]
  BY DEF TypeOK, SendFirst
<1>2. InProgress' = InProgress \cup {id}
  BY <1>1 DEF InProgress
<1>3. CASE id \in InProgress
  <2>1. sent' = sent
    BY <1>3 DEF CallsAndJournal, SendFirst, InProgress
  <2>2. QED
    BY <1>2, <1>3, <2>1 DEF Promise!promiseVars, Journaled, InProgress, SendFirst
<1>4. CASE id \notin InProgress
  <2>1. Promise!Begin(id)
    BY <1>2, <1>4 DEF Promise!Begin, SendFirst, Journaled, InProgress
  <2>2. QED
    BY <2>1 DEF Promise!Next
<1>5. QED
  BY <1>3, <1>4

(* A call that returns is closed.                                          *)
LEMMA ReturnCloses ==
  ASSUME TypeOK, NEW id \in Ids, NEW journaled \in BOOLEAN,
         Return(id, journaled)
  PROVE  InProgress' = InProgress \ {id}
<1>1. \A i \in Ids : attempt'[i] = IF i = id THEN 0 ELSE attempt[i]
  BY DEF TypeOK, Return
<1>2. QED
  BY <1>1 DEF InProgress

(* "executed" commits: what is acknowledged has moved its device.          *)
LEMMA ExecutedCommits ==
  ASSUME IInv, NEW id \in Ids, Executed(id)
  PROVE  Promise!Commit(id)
<1>1. /\ TypeOK /\ CallsAndJournal
      /\ journal \in Seq(Ids)
      /\ Len(journal) <= MaxRecords
      /\ \A i, j \in DOMAIN journal : i < j => journal[i] # journal[j]
  BY DEF IInv, TypeOK, JournalIsNewest
<1>2. attempt[id] > 0 /\ id \notin Range(journal) /\ id \in InProgress
  BY <1>1 DEF Executed, SuccessReported, CallsAndJournal, Journaled, InProgress
<1>3. DeliveryAck => id \in acted
  BY DEF Executed, SuccessReported
<1>4. InProgress' = InProgress \ {id}
  BY <1>1, ReturnCloses DEF Executed
<1>5. /\ Len(journal) < MaxRecords =>
           Range(Remember(journal, id)) = Range(journal) \cup {id}
      /\ Len(journal) = MaxRecords =>
           /\ journal[1] \in Range(journal)
           /\ Range(Remember(journal, id)) = (Range(journal) \ {journal[1]}) \cup {id}
  BY <1>1, <1>2, RememberSet
<1>6. Cardinality(Range(journal)) = Len(journal)
  BY <1>1, DistinctCount
<1>7. Len(journal) \in Nat /\ MaxRecords \in Nat
  BY <1>1, LenProperties, BoundsAssumption
<1>8. \/ /\ Cardinality(Journaled) < MaxRecords
         /\ Journaled' = Journaled \cup {id}
      \/ /\ Cardinality(Journaled) = MaxRecords
         /\ \E old \in Journaled : Journaled' = (Journaled \ {old}) \cup {id}
  BY <1>1, <1>5, <1>6, <1>7 DEF Executed, Journaled
<1>9. UNCHANGED <<sent, acted>>
  BY DEF Executed, Return
<1>10. {i \in Ids : attempt'[i] > 0} = {i \in Ids : attempt[i] > 0} \ {id}
  BY <1>4 DEF InProgress
<1>11. Promise!Cardinality(Journaled) = Cardinality(Journaled)
  BY Zenon DEF Promise!Cardinality, Cardinality
<1>12. QED
  BY <1>2, <1>3, <1>8, <1>9, <1>10, <1>11 DEF Promise!Commit

(* Every step of the pipeline is a step of the promise or a stutter.       *)
LEMMA StepKeepsPromise ==
  IInv /\ [Next]_vars => [Promise!Next]_(Promise!promiseVars)
<1> SUFFICES ASSUME IInv, [Next]_vars
             PROVE  Promise!Next \/ UNCHANGED Promise!promiseVars
  OBVIOUS
<1>1. TypeOK /\ CallsAndJournal
  BY DEF IInv
<1>2. CASE UNCHANGED <<attempt, sent, journal, acted>>
  BY <1>2 DEF Promise!promiseVars, Journaled
<1>3. CASE Tick
  <2>1. ASSUME NEW e \in Events, ExecuteEvent(e)
        PROVE  Promise!Next \/ UNCHANGED Promise!promiseVars
    BY <1>1, <2>1, SendBegins DEF ExecuteEvent, Ids, history
  <2>2. CASE ~ \E e \in Events : ExecuteEvent(e)
    BY <1>2, <1>3, <2>2 DEF Tick, TickReanchor, TickStart, SkipExecuted,
                            TickEnd, callVars, history
  <2>3. QED
    BY <2>1, <2>2
<1>4. ASSUME NEW t \in Taps, Tap(t)
      PROVE  Promise!Next \/ UNCHANGED Promise!promiseVars
  BY <1>1, <1>4, SendBegins DEF Tap, Ids, history
<1>5. ASSUME NEW id \in Ids, Call(id)
      PROVE  Promise!Next \/ UNCHANGED Promise!promiseVars
  <2>1. CASE DeviceActs(id)
    <3>1. Promise!Move(id)
      BY <2>1 DEF DeviceActs, Promise!Move, Journaled
    <3>2. QED
      BY <3>1 DEF Promise!Next
  <2>2. CASE Executed(id)
    BY <2>2, ExecutedCommits DEF Promise!Next
  <2>3. CASE AckUnjournaled(id) \/ GiveUp(id)
    <3>1. InProgress' = InProgress \ {id} /\ UNCHANGED <<journal, sent, acted>>
      BY <1>1, <2>3, ReturnCloses DEF AckUnjournaled, GiveUp, Return
    <3>2. attempt[id] > 0 \/ attempt[id] = MaxAttempts
      BY <2>3 DEF AckUnjournaled, GiveUp, SuccessReported
    <3>3. attempt[id] > 0
      BY <3>2, BoundsAssumption
    <3>4. Promise!Abandon(id)
      BY <3>1, <3>3 DEF Promise!Abandon, InProgress, Journaled
    <3>5. QED
      BY <3>4 DEF Promise!Next
  <2>4. CASE Retry(id)
    <3>1. \A i \in Ids : attempt'[i] > 0 <=> attempt[i] > 0
      BY <1>1, <2>4 DEF Retry, TypeOK
    <3>2. QED
      BY <2>4, <3>1 DEF Retry, history, Promise!promiseVars, Journaled
  <2>5. QED
    BY <1>5, <2>1, <2>2, <2>3, <2>4 DEF Call
<1>6. CASE Environment
  <2>1. CASE Crash
    <3>1. {id \in Ids : attempt'[id] > 0} = {}
      BY <2>1 DEF Crash
    <3>2. Promise!PowerCut
      BY <2>1, <3>1 DEF Crash, Promise!PowerCut, Journaled
    <3>3. QED
      BY <3>2 DEF Promise!Next
  <2>2. CASE ~ Crash
    BY <1>2, <1>6, <2>2 DEF Environment, Minute, SetClock, Enable, Disable,
                            callVars, history
  <2>3. QED
    BY <2>1, <2>2
<1>7. CASE UNCHANGED vars
  BY <1>2, <1>7 DEF vars, callVars, history
<1>8. QED
  BY <1>3, <1>4, <1>5, <1>6, <1>7 DEF Next

(* Scheduler, executor and journal together implement ExecutionPromise: a  *)
(* command in progress is never one that is remembered, only what moved    *)
(* its device is remembered, and one command is forgotten at a time, only  *)
(* to make room.                                                           *)
THEOREM KeepsExecutionPromise == Spec => KeepsPromise
<1>1. Init => Promise!Init
  BY DEF Init, Promise!Init, Journaled, Range
<1>2. QED
  BY <1>1, StepKeepsPromise, Inductive, PTL DEF Spec, KeepsPromise, Promise!Spec

=============================================================================
