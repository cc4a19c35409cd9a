-------------------------- MODULE EventJournalProofs --------------------------
(***************************************************************************)
(* Theorems about EventJournal, for every set of events, every number of   *)
(* records kept, with os.replace or without, and any number of power cuts  *)
(* and storage errors: the journal always starts again, a start finds what *)
(* was acknowledged, and the memory is what the log says.  An append that  *)
(* is cut off leaves a line that does not parse; the one that loses only   *)
(* its newline (TornAnywhere) is the finding of the run                    *)
(* event_journal_torn, and is excluded.                                    *)
(***************************************************************************)
EXTENDS EventJournal, SequenceTheorems, FiniteSetTheorems, WellFoundedInduction, TLAPS

(***************************************************************************)
(* The inductive invariant.                                                *)
(***************************************************************************)
Typed ==
  /\ power \in {"down", "up"} /\ skipped \subseteq Names /\ misread \in BOOLEAN
  /\ records \in Seq(Events) /\ physical \in 0 .. 2 * MaxRecords /\ compact \in BOOLEAN
  /\ stage \in Stages /\ recording \in Events \cup {None}
  /\ cuts \in 0 .. MaxCuts /\ errors \in 0 .. MaxErrors
  /\ acked \in Seq(Events) /\ tried \subseteq Events

(* The records of the journal are distinct and no more than it keeps; what *)
(* a call tries to record is none of them.                                 *)
Distinct(s) == \A i, j \in 1 .. Len(s) : s[i] = s[j] => i = j
Brief(s) == s \in Seq(Events) /\ Distinct(s) /\ Len(s) <= MaxRecords
Memory ==
  /\ Brief(acked) /\ \A e \in tried : \A i \in 1 .. Len(acked) : acked[i] # e
  /\ power = "up" => records = acked
  /\ power = "down" => stage = "idle" /\ records = <<>>
  /\ stage = "idle" <=> recording = None
  /\ stage # "idle" => recording \in tried
  /\ misread => power = "down"
  /\ skipped # {} => misread

(* A file is missing or can be read; its lines are few.                    *)
Sound(f) ==
  /\ f \in FileType
  /\ f = Absent \/ (Readable(f) /\ (f.ended <=> ~ TruncatedTail(f)))
  /\ Len(f.lines) <= 2 * MaxRecords

(* What the next start may find, and where it looks.                       *)
Findable == {acked} \cup {RecordsWith(acked, e) : e \in tried}
Says(f) == SetRecords(Parsed(f))
Leading(g) == IF g["log"].present THEN g["log"] ELSE g["tmp"]
Keeps(g, found) ==
  /\ g = [n \in Names |-> g[n]] /\ \A n \in Names : Sound(g[n])
  /\ Says(Leading(g)) \in found
  /\ g["bak"].present => g["log"].present \/ g["tmp"].present

(* After an error of a start, all that is known is that something is there *)
(* to be read.                                                             *)
Holds(g) ==
  /\ g = [n \in Names |-> g[n]] /\ \A n \in Names : Sound(g[n])
  /\ \E n \in Names : g[n].present
Medium(g) == IF misread THEN Holds(g) ELSE Keeps(g, Findable)

(* How far a compaction is, and that the log is the memory meanwhile.      *)
Blank(g) == ~ g["log"].present => acked = <<>> /\ ~ g["bak"].present
Compacting ==
  /\ stage = "backup" => file["log"].present
  /\ stage \in {"backup", "install"} =>
       file["tmp"] = Lines(RecordsWith(acked, recording))
  /\ stage = "install" =>
       /\ ~ file["log"].present
       /\ IF file["bak"].present THEN Says(file["bak"]) \in Findable ELSE acked = <<>>
Appending ==
  /\ power = "up" /\ ~ compact /\ stage \in {"idle", "append"} =>
       /\ file["log"].ended /\ Says(file["log"]) = acked
       /\ Len(file["log"].lines) = physical
  /\ stage = "append" => ~ compact /\ physical + 1 <= 2 * MaxRecords

IInv ==
  /\ Typed /\ Memory /\ Medium(file)
  /\ power = "up" /\ stage # "install" => Blank(file)
  /\ Compacting /\ Appending

(***************************************************************************)
(* Sets of positions.                                                      *)
(***************************************************************************)
LEMMA LeastNatural ==
  ASSUME NEW T \in SUBSET Nat, T # {}
  PROVE  \E x \in T : \A y \in T : x <= y
<1> DEFINE R == OpToRel(<, Nat)
<1>1. IsWellFoundedOn(R, Nat)
  BY NatLessThanWellFounded
<1>2. \A x, y \in Nat : y < x => <<y, x>> \in R
  BY DEF OpToRel
<1> HIDE DEF R
<1>3. PICK x \in T : \A y \in T : ~ (<<y, x>> \in R)
  BY <1>1, WFMin
<1>4. \A y \in T : x \in Nat /\ y \in Nat /\ ~ (y < x)
  BY <1>2, <1>3
<1>5. QED
  BY <1>4

Upto(S, i) == {j \in S : j <= i}
From(S, i) == {j \in S : j >= i}

(* Positions are finite in number, and fewer in a smaller set.             *)
LEMMA PositionsFinite ==
  ASSUME NEW n \in Nat, NEW S \in SUBSET (1 .. n)
  PROVE  /\ IsFiniteSet(S) /\ Cardinality(S) \in Nat /\ Cardinality(S) <= n
         /\ \A T \in SUBSET S : /\ IsFiniteSet(T) /\ Cardinality(T) \in Nat
                               /\ Cardinality(T) <= Cardinality(S)
<1>1. IsFiniteSet(1 .. n) /\ Cardinality(1 .. n) = n
  BY FS_Interval
<1>2. IsFiniteSet(S) /\ Cardinality(S) <= n
  BY <1>1, FS_Subset
<1>3. \A T \in SUBSET S : IsFiniteSet(T) /\ Cardinality(T) <= Cardinality(S)
  BY <1>2, FS_Subset
<1>4. QED
  BY <1>2, <1>3, FS_CardinalityType

(* There is a k-th position, and only one.                                 *)
LEMMA NthExists ==
  ASSUME NEW n \in Nat, NEW S \in SUBSET (1 .. n), NEW k \in 1 .. Cardinality(S)
  PROVE  NthOf(S, k) \in S /\ Cardinality(Upto(S, NthOf(S, k))) = k
<1> DEFINE T == {i \in Nat : Cardinality(Upto(S, i)) >= k}
<1>0. \A j \in S : j \in Nat /\ 1 <= j /\ j <= n
  OBVIOUS
<1>1. \A i \in Nat : Upto(S, i) \in SUBSET S /\ Cardinality(Upto(S, i)) \in Nat
                       /\ IsFiniteSet(Upto(S, i))
  BY PositionsFinite DEF Upto
<1>2. T \in SUBSET Nat /\ T # {}
  <2>1. Upto(S, n) = S
    BY <1>0 DEF Upto
  <2>2. n \in T
    BY <2>1
  <2>3. QED
    BY <2>2
<1> HIDE DEF T
<1>3. PICK i \in T : \A j \in T : i <= j
  BY <1>2, LeastNatural
<1>35. i \in Nat /\ Cardinality(Upto(S, i)) >= k
  BY <1>3 DEF T
<1>4. i # 0
  <2>0. \A j \in S : ~ (j <= 0)
    BY <1>0
  <2>1. Upto(S, 0) = {}
    BY <2>0 DEF Upto
  <2>2. Cardinality(Upto(S, 0)) = 0
    BY <2>1, FS_EmptySet
  <2>3. QED
    BY <1>35, <2>2
<1>5. i - 1 \in Nat /\ Cardinality(Upto(S, i - 1)) < k
  <2>1. i - 1 \in Nat /\ i - 1 \notin T
    BY <1>3, <1>35, <1>4
  <2>2. QED
    BY <1>1, <2>1 DEF T
<1>7. i \in S
  <2>1. ASSUME i \notin S PROVE Upto(S, i) = Upto(S, i - 1)
    <3>1. \A j \in S : j <= i <=> j <= i - 1
      BY <1>0, <1>35, <2>1
    <3>2. QED
      BY <3>1 DEF Upto
  <2>2. QED
    BY <1>1, <1>5, <1>35, <2>1
<1>8. Cardinality(Upto(S, i)) = Cardinality(Upto(S, i - 1)) + 1
  <2>0. \A j \in S : (j <= i <=> j <= i - 1 \/ j = i) /\ ~ (i <= i - 1)
    BY <1>0, <1>35
  <2>1. Upto(S, i) = Upto(S, i - 1) \cup {i} /\ i \notin Upto(S, i - 1)
    BY <1>7, <2>0 DEF Upto
  <2>2. QED
    BY <1>1, <1>5, <2>1, FS_AddElement
<1>9. Cardinality(Upto(S, i)) = k
  BY <1>1, <1>5, <1>35, <1>8
<1>10. \E j \in S : Cardinality({m \in S : m <= j}) = k
  BY <1>7, <1>9 DEF Upto
<1>11. QED
  BY <1>10 DEF NthOf, Upto

(* A later position has more positions up to it.                           *)
LEMMA RanksDiffer ==
  ASSUME NEW n \in Nat, NEW S \in SUBSET (1 .. n), NEW i \in S, NEW j \in S, i < j
  PROVE  Cardinality(Upto(S, i)) < Cardinality(Upto(S, j))
<1>0. \A m \in S : m \in Nat
  OBVIOUS
<1>1. /\ IsFiniteSet(Upto(S, j)) /\ Upto(S, i) \in SUBSET Upto(S, j)
      /\ Upto(S, i) # Upto(S, j)
  <2>1. Upto(S, j) \in SUBSET S
    BY DEF Upto
  <2>2. IsFiniteSet(Upto(S, j))
    BY <2>1, PositionsFinite
  <2>3. \A m \in Upto(S, i) : m \in Upto(S, j)
    BY <1>0 DEF Upto
  <2>4. j \in Upto(S, j) /\ j \notin Upto(S, i)
    BY <1>0 DEF Upto
  <2>5. QED
    BY <2>2, <2>3, <2>4
<1>2. Cardinality(Upto(S, i)) \in Nat /\ Cardinality(Upto(S, j)) \in Nat
  BY PositionsFinite DEF Upto
<1>3. QED
  BY <1>1, <1>2, FS_Subset

(* A position is the one whose number it has.                              *)
LEMMA NthUnique ==
  ASSUME NEW n \in Nat, NEW S \in SUBSET (1 .. n), NEW i \in S,
         NEW k, Cardinality(Upto(S, i)) = k
  PROVE  NthOf(S, k) = i /\ k \in 1 .. Cardinality(S)
<1>1. k \in 1 .. Cardinality(S)
  <2>1. Upto(S, i) \in SUBSET S /\ i \in Upto(S, i)
    BY DEF Upto
  <2>2. IsFiniteSet(S) /\ IsFiniteSet(Upto(S, i)) /\ k \in Nat /\ k <= Cardinality(S)
          /\ Cardinality(S) \in Nat
    BY <2>1, PositionsFinite
  <2>3. k # 0
    BY <2>1, <2>2, FS_EmptySet
  <2>4. QED
    BY <2>2, <2>3, PositionsFinite
<1>2. NthOf(S, k) \in S /\ Cardinality(Upto(S, NthOf(S, k))) = k
  BY <1>1, NthExists
<1> DEFINE j == NthOf(S, k)
<1>25. j \in S /\ Cardinality(Upto(S, j)) = k
  BY <1>2
<1> HIDE DEF j
<1>3. ~ (j < i) /\ ~ (i < j)
  <2>1. \A a, b \in S : a < b => Cardinality(Upto(S, a)) < Cardinality(Upto(S, b))
    BY RanksDiffer
  <2>2. k \in Nat
    BY <1>1, PositionsFinite
  <2>3. QED
    BY <1>25, <2>1, <2>2
<1>4. j \in 1 .. n /\ i \in 1 .. n
  BY <1>25
<1>5. QED
  BY <1>1, <1>3, <1>4 DEF j

(* What At gives is told by the rank of each position.                     *)
LEMMA AtIs ==
  ASSUME NEW n \in Nat, NEW S \in SUBSET (1 .. n), NEW s, NEW X, NEW t \in Seq(X),
         Len(t) = Cardinality(S), \A i \in S : s[i] = t[Cardinality(Upto(S, i))]
  PROVE  At(s, S) = t
<1>1. \A k \in 1 .. Cardinality(S) : s[NthOf(S, k)] = t[k]
  BY NthExists
<1>2. t = [k \in 1 .. Cardinality(S) |-> t[k]]
  BY LenProperties
<1>3. QED
  BY <1>1, <1>2 DEF At

(* Each position is found in what At gives, under its number.              *)
LEMMA AtSays ==
  ASSUME NEW n \in Nat, NEW S \in SUBSET (1 .. n), NEW s, NEW i \in S
  PROVE  /\ Cardinality(Upto(S, i)) \in 1 .. Cardinality(S)
         /\ At(s, S)[Cardinality(Upto(S, i))] = s[i]
<1>1. /\ NthOf(S, Cardinality(Upto(S, i))) = i
      /\ Cardinality(Upto(S, i)) \in 1 .. Cardinality(S)
  BY NthUnique
<1>2. QED
  BY <1>1 DEF At

(* All positions of s give s.                                              *)
LEMMA AtAll ==
  ASSUME NEW X, NEW s \in Seq(X)
  PROVE  At(s, 1 .. Len(s)) = s
<1> DEFINE n == Len(s)
           S == 1 .. n
<1>1. n \in Nat /\ Cardinality(S) = n /\ S \in SUBSET (1 .. n)
  BY LenProperties, FS_Interval
<1>2. ASSUME NEW i \in S PROVE Cardinality(Upto(S, i)) = i
  <2>1. Upto(S, i) = 1 .. i
    BY <1>1 DEF Upto
  <2>2. QED
    BY <1>1, <2>1, FS_Interval
<1>3. \A i \in S : s[i] = s[Cardinality(Upto(S, i))]
  BY <1>2
<1> HIDE DEF n, S
<1>4. At(s, S) = s
  BY <1>1, <1>3, AtIs DEF n
<1>5. QED
  BY <1>4 DEF S, n

(***************************************************************************)
(* The records of a log.                                                   *)
(***************************************************************************)
Oldest(s) == IF Len(s) < MaxRecords THEN 0 ELSE 1

(* _records_with: the new id is added at the end, and the oldest is        *)
(* dropped when there are as many as are kept.                             *)
LEMMA RecordsWithIs ==
  ASSUME NEW s, Brief(s), NEW e \in Events, \A i \in 1 .. Len(s) : s[i] # e
  PROVE  LET t == RecordsWith(s, e)
             d == Oldest(s)
         IN  /\ Brief(t) /\ Len(t) = Len(s) + 1 - d
             /\ \A k \in 1 .. Len(s) + 1 - d :
                  t[k] = IF k + d = Len(s) + 1 THEN e ELSE s[k + d]
<1> DEFINE d == Oldest(s)
           longer == Append(s, e)
           low == Max({1, Len(longer) - MaxRecords + 1})
           t == SubSeq(longer, low, Len(longer))
<1>1. /\ s \in Seq(Events) /\ Len(s) \in 0 .. MaxRecords /\ DOMAIN s = 1 .. Len(s)
      /\ MaxRecords \in Nat \ {0}
  BY LenProperties, JournalBounds DEF Brief
<1>2. {i \in DOMAIN s : s[i] # e} = 1 .. Len(s)
  BY <1>1
<1>3. RecordsWith(s, e) = t
  BY <1>1, <1>2, AtAll DEF RecordsWith
<1>4. /\ longer \in Seq(Events) /\ Len(longer) = Len(s) + 1
      /\ \A k \in 1 .. Len(s) + 1 : longer[k] = IF k = Len(s) + 1 THEN e ELSE s[k]
  BY <1>1, AppendProperties
<1>5. low = 1 + d
  <2>1. Len(longer) - MaxRecords + 1 = IF d = 0 THEN Len(s) + 2 - MaxRecords ELSE 2
    BY <1>1, <1>4 DEF Oldest
  <2>2. \A a \in Int : Max({1, a}) = IF a <= 1 THEN 1 ELSE a
    BY DEF Max
  <2>3. Len(longer) - MaxRecords + 1 \in Int
    BY <1>1, <1>4
  <2>4. QED
    BY <1>1, <2>1, <2>2, <2>3 DEF Oldest
<1>7. d \in {0, 1} /\ d <= Len(s) /\ (d = 0 => Len(s) < MaxRecords)
  BY <1>1 DEF Oldest
<1> HIDE DEF longer, low, d
<1>6. /\ t \in Seq(Events) /\ Len(t) = Len(s) + 1 - d
      /\ \A k \in 1 .. Len(s) + 1 - d : t[k] = longer[k + d]
  <2>1. /\ Len(longer) \in Int /\ low \in Int
        /\ \A i \in low .. Len(longer) : longer[i] \in Events
    BY <1>1, <1>4, <1>5, <1>7, ElementOfSeq
  <2>2. /\ t \in Seq(Events)
        /\ Len(t) = IF low <= Len(longer) THEN Len(longer) - low + 1 ELSE 0
        /\ \A i \in 1 .. Len(longer) - low + 1 : t[i] = longer[low + i - 1]
    BY <2>1, SubSeqProperties
  <2> HIDE DEF t
  <2>3. QED
    <3>1. low <= Len(longer) /\ Len(longer) - low + 1 = Len(s) + 1 - d
      BY <1>1, <1>4, <1>5, <1>7
    <3>2. \A k \in 1 .. Len(s) + 1 - d : low + k - 1 = k + d
      BY <1>1, <1>5, <1>7
    <3>3. QED
      BY <2>2, <3>1, <3>2
<1> HIDE DEF t
<1>8. \A k \in 1 .. Len(s) + 1 - d :
        t[k] = IF k + d = Len(s) + 1 THEN e ELSE s[k + d]
  BY <1>1, <1>4, <1>6, <1>7
<1>9. Distinct(t)
  <2> SUFFICES ASSUME NEW i \in 1 .. Len(t), NEW j \in 1 .. Len(t), t[i] = t[j]
               PROVE  i = j
    BY DEF Distinct
  <2>1. Distinct(s)
    BY DEF Brief
  <2> DEFINE a == i + d
             b == j + d
             m == Len(s)
  <2>2. /\ m \in Nat /\ a \in 1 .. m + 1 /\ b \in 1 .. m + 1
        /\ t[i] = IF a = m + 1 THEN e ELSE s[a]
        /\ t[j] = IF b = m + 1 THEN e ELSE s[b]
    BY <1>1, <1>6, <1>7, <1>8
  <2>3. /\ \A k \in 1 .. m : s[k] # e
        /\ \A k, l \in 1 .. m : s[k] = s[l] => k = l
    BY <2>1 DEF Distinct
  <2>4. a = b => i = j
    BY <1>1, <1>6, <1>7
  <2> HIDE DEF a, b, m
  <2>5. \A k \in 1 .. m + 1 : k # m + 1 => k \in 1 .. m
    BY <2>2
  <2>6. QED
    BY <2>2, <2>3, <2>4, <2>5
<1>10. Brief(t)
  BY <1>1, <1>6, <1>7, <1>9 DEF Brief
<1>11. QED
  BY <1>3, <1>6, <1>8, <1>10 DEF d

(* A log of few, distinct records says just these.                         *)
LEMMA SetOfBrief ==
  ASSUME NEW s, Brief(s)
  PROVE  SetRecords(s) = s
<1>1. /\ s \in Seq(Events) /\ Len(s) \in 0 .. MaxRecords /\ DOMAIN s = 1 .. Len(s)
      /\ MaxRecords \in Nat
  BY LenProperties, JournalBounds DEF Brief
<1>2. Lasts(s) = 1 .. Len(s)
  <2>1. \A i, j \in 1 .. Len(s) : j > i => s[j] # s[i]
    BY <1>1 DEF Brief, Distinct
  <2>2. QED
    BY <1>1, <2>1 DEF Lasts
<1>3. Newest(s) = 1 .. Len(s)
  <2>1. \A S \in SUBSET (1 .. Len(s)) : Cardinality(S) <= Len(s)
    BY <1>1, PositionsFinite
  <2>2. \A i \in 1 .. Len(s) : Cardinality({j \in 1 .. Len(s) : j >= i}) <= MaxRecords
    <3> TAKE i \in 1 .. Len(s)
    <3> DEFINE S == {j \in 1 .. Len(s) : j >= i}
    <3>1. S \in SUBSET (1 .. Len(s))
      OBVIOUS
    <3>2. Cardinality(S) \in Nat /\ Cardinality(S) <= Len(s)
      BY <1>1, <3>1, PositionsFinite
    <3>3. QED
      BY <1>1, <3>2
  <2>3. QED
    BY <1>2, <2>2 DEF Newest
<1>4. QED
  BY <1>1, <1>3, AtAll DEF SetRecords

(* The newest records are the upper end of the last ones.                  *)
LEMMA NewestFacts ==
  ASSUME NEW s \in Seq(Events)
  PROVE  LET S == Newest(s)
             L == Lasts(s)
         IN  /\ Len(s) \in Nat /\ DOMAIN s = 1 .. Len(s)
             /\ L \in SUBSET (1 .. Len(s)) /\ S \in SUBSET L
             /\ \A i \in L : i \in S <=> Cardinality(From(L, i)) <= MaxRecords
             /\ \A i \in S : From(L, i) = From(S, i)
<1> DEFINE S == Newest(s)
           L == Lasts(s)
<1>1. /\ Len(s) \in Nat /\ DOMAIN s = 1 .. Len(s) /\ MaxRecords \in Nat
      /\ L \in SUBSET (1 .. Len(s)) /\ S \in SUBSET L
  BY LenProperties, JournalBounds DEF Lasts, Newest
<1>2. \A i \in L : i \in S <=> Cardinality(From(L, i)) <= MaxRecords
  BY DEF Newest, From
<1> HIDE DEF S, L
<1>3. ASSUME NEW i \in S PROVE From(L, i) = From(S, i)
  <2>1. ASSUME NEW j \in From(L, i) PROVE j \in S
    <3>1. \A k \in L : k >= j => k >= i
      BY <1>1, <2>1 DEF From
    <3>2. From(L, j) \in SUBSET From(L, i) /\ From(L, i) \in SUBSET L /\ j \in L
      BY <2>1, <3>1 DEF From
    <3>3. IsFiniteSet(From(L, i)) /\ Cardinality(From(L, i)) \in Nat
          /\ Cardinality(From(L, j)) \in Nat
      BY <1>1, <3>2, PositionsFinite
    <3>4. Cardinality(From(L, j)) <= Cardinality(From(L, i))
      BY <3>2, <3>3, FS_Subset
    <3>5. QED
      BY <1>1, <1>2, <3>2, <3>3, <3>4
  <2>2. QED
    BY <1>1, <2>1 DEF From
<1>4. QED
  BY <1>1, <1>2, <1>3 DEF S, L

(* Ranks from below and from above.                                        *)
LEMMA RankFromAbove ==
  ASSUME NEW n \in Nat, NEW S \in SUBSET (1 .. n), NEW i \in S
  PROVE  Cardinality(From(S, i)) = Cardinality(S) + 1 - Cardinality(Upto(S, i))
<1>0. \A j \in S : j \in Nat
  OBVIOUS
<1>1. /\ From(S, i) \in SUBSET S /\ Upto(S, i) \in SUBSET S
      /\ IsFiniteSet(From(S, i)) /\ IsFiniteSet(Upto(S, i))
      /\ Cardinality(From(S, i)) \in Nat /\ Cardinality(Upto(S, i)) \in Nat
      /\ Cardinality(S) \in Nat
  <2>1. From(S, i) \in SUBSET S /\ Upto(S, i) \in SUBSET S
    BY DEF From, Upto
  <2>2. Cardinality(S) \in Nat
    BY PositionsFinite
  <2>3. \A T \in SUBSET S : IsFiniteSet(T) /\ Cardinality(T) \in Nat
    BY PositionsFinite
  <2>4. QED
    BY <2>1, <2>2, <2>3
<1>2. From(S, i) \cup Upto(S, i) = S
  <2>1. \A j \in S : j <= i \/ j >= i
    BY <1>0
  <2>2. QED
    BY <2>1 DEF From, Upto
<1>3. From(S, i) \cap Upto(S, i) = {i}
  <2>1. \A j \in S : j <= i /\ j >= i <=> j = i
    BY <1>0
  <2>2. QED
    BY <2>1 DEF From, Upto
<1>4. Cardinality({i}) = 1
  BY FS_Singleton
<1>5. QED
  <2>1. Cardinality(From(S, i) \cup Upto(S, i)) =
          Cardinality(From(S, i)) + Cardinality(Upto(S, i))
            - Cardinality(From(S, i) \cap Upto(S, i))
    BY <1>1, FS_Union
  <2>2. Cardinality(S) = Cardinality(From(S, i)) + Cardinality(Upto(S, i)) - 1
    BY <1>2, <1>3, <1>4, <2>1
  <2>3. QED
    BY <1>1, <2>2

(* The last line of each id, when one line is added.                       *)
LEMMA LastsOfAppend ==
  ASSUME NEW s \in Seq(Events), NEW e \in Events
  PROVE  Lasts(Append(s, e)) = {i \in Lasts(s) : s[i] # e} \cup {Len(s) + 1}
<1> DEFINE u == Append(s, e)
           n == Len(s)
<1>1. /\ n \in Nat /\ DOMAIN s = 1 .. n /\ DOMAIN u = 1 .. n + 1 /\ u[n + 1] = e
      /\ \A i \in 1 .. n : u[i] = s[i]
  BY LenProperties, AppendProperties
<1> HIDE DEF u, n
<1>2. 1 .. n + 1 = (1 .. n) \cup {n + 1} /\ \A i \in 1 .. n : n + 1 > i /\ ~ (i > n + 1)
  BY <1>1
<1>3. \A i \in 1 .. n + 1 : i \in Lasts(u) <=>
        \A j \in 1 .. n + 1 : j > i => u[j] # u[i]
  BY <1>1 DEF Lasts
<1>4. n + 1 \in Lasts(u)
  BY <1>1, <1>2, <1>3
<1>5. \A i \in 1 .. n : i \in Lasts(u) <=> i \in Lasts(s) /\ s[i] # e
  BY <1>1, <1>2, <1>3 DEF Lasts
<1>6. Lasts(u) \subseteq 1 .. n + 1 /\ Lasts(s) \subseteq 1 .. n
  BY <1>1 DEF Lasts
<1>7. QED
  BY <1>2, <1>4, <1>5, <1>6 DEF u, n

(* _set_records of a log with one more new record is _records_with: what a *)
(* start reads is what the memory became.                                  *)
LEMMA SetOfAppend ==
  ASSUME NEW s \in Seq(Events), NEW e \in Events, Brief(SetRecords(s)),
         \A k \in 1 .. Len(SetRecords(s)) : SetRecords(s)[k] # e
  PROVE  SetRecords(Append(s, e)) = RecordsWith(SetRecords(s), e)
<1> DEFINE n == Len(s)
           u == Append(s, e)
           L == Lasts(s)
           S == Newest(s)
           r == SetRecords(s)
           t == RecordsWith(r, e)
           m == Cardinality(S)
           d == Oldest(r)
           rank(i) == Cardinality(Upto(S, i))
           L2 == Lasts(u)
           S2 == Newest(u)
<1>1. /\ n \in Nat /\ L \in SUBSET (1 .. n) /\ S \in SUBSET (1 .. n) /\ S \in SUBSET L
      /\ \A i \in L : i \in S <=> Cardinality(From(L, i)) <= MaxRecords
      /\ \A i \in S : From(L, i) = From(S, i)
  BY NewestFacts
<1>2. u \in Seq(Events) /\ Len(u) = n + 1 /\ u[n + 1] = e /\ \A i \in 1 .. n : u[i] = s[i]
  BY <1>1, AppendProperties
<1>3. L2 = {i \in L : s[i] # e} \cup {n + 1}
  BY LastsOfAppend
<1>4. \A i \in L2 : i \in S2 <=> Cardinality(From(L2, i)) <= MaxRecords
  BY <1>2, NewestFacts
<1>5. MaxRecords \in Nat \ {0} /\ m \in Nat /\ IsFiniteSet(L) /\ IsFiniteSet(S)
  BY <1>1, JournalBounds, PositionsFinite
<1>6. Len(r) = m
  BY <1>5 DEF SetRecords, At
<1>7. \A i \in S : rank(i) \in 1 .. m /\ r[rank(i)] = s[i]
  BY <1>1, AtSays DEF SetRecords
<1>8. \A i \in S : s[i] # e
  BY <1>6, <1>7
<1>9. m <= MaxRecords /\ d \in {0, 1} /\ d = (IF m < MaxRecords THEN 0 ELSE 1)
  BY <1>6 DEF Brief, Oldest
<1> HIDE DEF n, u, r, t, m, d, L2, S2, rank
<1> HIDE DEF L, S
(* The newest are still among the newest, but for the first when full.     *)
<1>10. ASSUME NEW i \in S
       PROVE  i \in S2 <=> rank(i) > d
  <2>0. \A j \in S : j \in Nat /\ j <= n /\ n + 1 >= j
    BY <1>1
  <2>1. \A j \in L : j >= i => j \in S
    BY <1>1 DEF From
  <2>2. \A j \in L : j >= i => s[j] # e
    BY <1>8, <2>1
  <2>3. From(L2, i) = From(S, i) \cup {n + 1}
    BY <1>1, <1>3, <2>0, <2>1, <2>2 DEF From
  <2>4. From(S, i) \in SUBSET S /\ n + 1 \notin From(S, i)
    <3>1. n + 1 \notin S
      BY <1>1, <2>0
    <3>2. QED
      BY <3>1 DEF From
  <2>5. IsFiniteSet(From(S, i)) /\ Cardinality(From(S, i)) \in Nat
    BY <1>1, <2>4, PositionsFinite
  <2>6. Cardinality(From(L2, i)) = Cardinality(From(S, i)) + 1
    BY <2>3, <2>4, <2>5, FS_AddElement
  <2>7. Cardinality(From(S, i)) = m + 1 - rank(i)
    BY <1>1, RankFromAbove DEF m, rank
  <2>8. i \in L2
    BY <1>1, <1>3, <1>8
  <2>9. i \in S2 <=> Cardinality(From(S, i)) + 1 <= MaxRecords
    BY <1>4, <2>6, <2>8
  <2>10. rank(i) \in 1 .. m
    BY <1>7
  <2>11. QED
    BY <1>5, <1>9, <2>7, <2>9, <2>10
<1>11. n + 1 \in S2
  <2>0. \A j \in L : j <= n /\ j \in Nat
    BY <1>1
  <2>1. (\A j \in L : ~ (j >= n + 1)) /\ n + 1 >= n + 1
    BY <1>1, <2>0
  <2>2. n + 1 \in L2 /\ \A j \in L2 : j >= n + 1 <=> j = n + 1
    BY <1>3, <2>1
  <2>3. From(L2, n + 1) = {n + 1}
    BY <2>2 DEF From
  <2>4. Cardinality(From(L2, n + 1)) = 1
    BY <2>3, FS_Singleton
  <2>5. Cardinality(From(L2, n + 1)) <= MaxRecords
    BY <1>5, <2>4
  <2>6. QED
    BY <1>4, <2>2, <2>5
<1>12. ASSUME NEW i \in L, i \notin S
       PROVE  i \notin S2
  <2>0. SUFFICES ASSUME i \in L2 PROVE ~ (Cardinality(From(L2, i)) <= MaxRecords)
    <3>1. S2 \subseteq L2
      BY <1>2, NewestFacts DEF S2, L2
    <3>2. QED
      BY <1>4, <2>0, <3>1
  <2> DEFINE F == From(L, i)
             G == {j \in F : s[j] # e}
  <2>1. \A j \in L : j \in Nat /\ j <= n /\ i <= n + 1
    BY <1>1
  <2>2. From(L2, i) = G \cup {n + 1}
    BY <1>1, <1>3, <2>1 DEF From
  <2>3. F \in SUBSET L /\ G \in SUBSET F /\ n + 1 \notin G
    <3>1. n + 1 \notin L
      BY <1>1, <2>1
    <3>2. QED
      BY <3>1 DEF From
  <2>4. /\ IsFiniteSet(F) /\ Cardinality(F) \in Nat
        /\ IsFiniteSet(G) /\ Cardinality(G) \in Nat
    <3>1. F \in SUBSET L /\ G \in SUBSET L
      BY <2>3
    <3>2. QED
      BY <1>1, <3>1, PositionsFinite
  <2>5. ~ (Cardinality(F) <= MaxRecords)
    BY <1>1, <1>12
  <2>6. \A j, k \in L : s[j] = s[k] => j = k
    <3>1. \A j, k \in L : ~ (j < k /\ s[j] = s[k])
      BY <1>1, <2>1 DEF L, Lasts
    <3>2. QED
      BY <2>1, <3>1
  <2> HIDE DEF F
  <2>7. Cardinality(G) >= Cardinality(F) - 1
    <3>1. CASE \E q \in F : s[q] = e
      <4>1. PICK q \in F : s[q] = e
        BY <3>1
      <4>2. G = F \ {q}
        BY <2>3, <2>6, <4>1
      <4>3. Cardinality(G) = Cardinality(F) - 1
        BY <2>4, <4>1, <4>2, FS_RemoveElement
      <4> HIDE DEF G
      <4>4. QED
        BY <2>4, <4>3
    <3>2. CASE ~ \E q \in F : s[q] = e
      <4>1. G = F
        BY <3>2
      <4> HIDE DEF G
      <4>2. QED
        BY <2>4, <4>1
    <3>3. QED
      BY <3>1, <3>2
  <2> HIDE DEF G
  <2>8. Cardinality(From(L2, i)) = Cardinality(G) + 1
    BY <2>2, <2>3, <2>4, FS_AddElement
  <2>9. QED
    BY <1>5, <2>4, <2>5, <2>7, <2>8
<1>13. S2 \subseteq S \cup {n + 1}
  <2>1. S2 \subseteq L2
    BY <1>2, NewestFacts DEF S2, L2
  <2>2. QED
    BY <1>3, <1>12, <2>1
<1>14. S2 = {i \in S : rank(i) > d} \cup {n + 1}
  BY <1>10, <1>11, <1>13
<1>15. ASSUME NEW T \in SUBSET S, d = 1 => \E i \in T : rank(i) = 1
       PROVE  Cardinality({i \in T : rank(i) > d}) = Cardinality(T) - d
  <2>1. IsFiniteSet(T) /\ Cardinality(T) \in Nat
    BY <1>1, PositionsFinite
  <2>2. CASE d = 0
    <3>1. {i \in T : rank(i) > d} = T
      BY <1>7, <2>2
    <3>2. Cardinality({i \in T : rank(i) > d}) = Cardinality(T)
      BY <3>1
    <3>3. Cardinality(T) - d = Cardinality(T)
      BY <2>1, <2>2
    <3>4. QED
      BY <3>2, <3>3
  <2>3. CASE d = 1
    <3>1. PICK q \in T : rank(q) = 1
      BY <1>15, <2>3
    <3>2. \A i \in T : rank(i) > d <=> i # q
      <4>1. \A i \in T : rank(i) > 1 <=> rank(i) # 1
        BY <1>5, <1>7
      <4>2. \A i \in S : rank(i) = 1 => NthOf(S, 1) = i
        BY <1>1, NthUnique DEF rank
      <4>3. QED
        BY <2>3, <3>1, <4>1, <4>2
    <3>3. {i \in T : rank(i) > d} = T \ {q}
      BY <3>2
    <3>4. QED
      BY <2>1, <2>3, <3>1, <3>3, FS_RemoveElement
  <2>4. QED
    BY <1>9, <2>2, <2>3
<1>16. d = 1 => NthOf(S, 1) \in S /\ rank(NthOf(S, 1)) = 1
  <2>1. d = 1 => 1 \in 1 .. m
    BY <1>5, <1>9
  <2>2. QED
    BY <1>1, <2>1, NthExists DEF m, rank
<1>17. Cardinality(S2) = m + 1 - d
  <2> DEFINE T == {i \in S : rank(i) > d}
  <2>1. Cardinality(T) = m - d
    BY <1>15, <1>16 DEF m
  <2>2. T \in SUBSET S /\ n + 1 \notin T
    BY <1>1
  <2>3. IsFiniteSet(T)
    BY <1>1, <2>2, PositionsFinite
  <2> HIDE DEF T
  <2>4. Cardinality(T \cup {n + 1}) = Cardinality(T) + 1
    BY <2>2, <2>3, FS_AddElement
  <2>5. S2 = T \cup {n + 1}
    BY <1>14 DEF T
  <2>6. QED
    BY <1>5, <1>9, <2>1, <2>4, <2>5
<1>18. ASSUME NEW i \in S, rank(i) > d
       PROVE  Cardinality(Upto(S2, i)) = rank(i) - d
  <2>0. \A j \in S : j \in Nat /\ j <= n
    BY <1>1
  <2>1. ~ (n + 1 <= i)
    BY <1>1, <2>0
  <2>2. Upto(S2, i) = {j \in Upto(S, i) : rank(j) > d}
    BY <1>14, <2>1 DEF Upto
  <2>3. d = 1 => NthOf(S, 1) \in Upto(S, i)
    <3>1. ASSUME d = 1, ~ (NthOf(S, 1) <= i) PROVE FALSE
      <4>1. NthOf(S, 1) \in S /\ i < NthOf(S, 1) /\ rank(NthOf(S, 1)) = 1
        BY <1>16, <2>0, <3>1
      <4>2. rank(i) < 1
        BY <1>1, <4>1, RanksDiffer DEF rank
      <4>3. QED
        BY <1>5, <1>7, <4>2
    <3>2. QED
      BY <1>16, <3>1 DEF Upto
  <2>4. Upto(S, i) \in SUBSET S
    BY DEF Upto
  <2>5. QED
    BY <1>15, <1>16, <2>2, <2>3, <2>4 DEF rank
<1>19. Upto(S2, n + 1) = S2
  <2>1. \A j \in S2 : j <= n + 1
    BY <1>1, <1>13
  <2>2. QED
    BY <2>1 DEF Upto
<1>20. /\ t \in Seq(Events) /\ Len(t) = m + 1 - d
       /\ \A k \in 1 .. m + 1 - d : t[k] = IF k + d = m + 1 THEN e ELSE r[k + d]
  <2>1. Brief(r) /\ \A k \in 1 .. Len(r) : r[k] # e
    BY DEF r
  <2>2. QED
    BY <1>6, <2>1, RecordsWithIs DEF t, d, Brief
<1>21. \A i \in S2 : u[i] = t[Cardinality(Upto(S2, i))]
  <2>1. u[n + 1] = t[Cardinality(Upto(S2, n + 1))]
    <3>1. Cardinality(Upto(S2, n + 1)) = m + 1 - d
      BY <1>17, <1>19
    <3>2. m + 1 - d \in 1 .. m + 1 - d /\ (m + 1 - d) + d = m + 1
      BY <1>5, <1>9
    <3>3. QED
      BY <1>2, <1>20, <3>1, <3>2
  <2>2. ASSUME NEW i \in S, rank(i) > d PROVE u[i] = t[Cardinality(Upto(S2, i))]
    <3>1. rank(i) - d \in 1 .. m + 1 - d /\ (rank(i) - d) + d = rank(i) /\ rank(i) # m + 1
      BY <1>5, <1>7, <1>9, <2>2
    <3>2. t[rank(i) - d] = r[rank(i)]
      BY <1>20, <3>1
    <3>3. u[i] = s[i]
      BY <1>1, <1>2
    <3>4. QED
      BY <1>7, <1>18, <2>2, <3>2, <3>3
  <2>3. QED
    BY <1>14, <2>1, <2>2
<1>22. S2 \in SUBSET (1 .. n + 1) /\ n + 1 \in Nat
  BY <1>1, <1>13
<1>23. At(u, S2) = t
  <2>1. t \in Seq(Events) /\ Len(t) = Cardinality(S2)
    BY <1>17, <1>20
  <2>2. QED
    BY <1>21, <1>22, <2>1, AtIs
<1>24. QED
  BY <1>23 DEF SetRecords, S2, u, t, r

(***************************************************************************)
(* What may be found in a file.                                            *)
(***************************************************************************)
LEMMA AbsentIsSound == Sound(Absent) /\ Parsed(Absent) = <<>> /\ Says(Absent) = <<>>
<1>1. Absent \in FileType /\ Absent.lines = <<>> /\ Len(Absent.lines) = 0
  BY DEF Absent, FileType
<1>2. MaxRecords \in Nat
  BY JournalBounds
<1>3. Parsed(Absent) = <<>>
  BY <1>1 DEF Parsed, TruncatedTail
<1>4. Brief(<<>>)
  BY <1>2 DEF Brief, Distinct
<1>5. QED
  BY <1>1, <1>2, <1>3, <1>4, SetOfBrief DEF Sound, Says

(* The records that are read are ids, and are the whole file when its last *)
(* line is complete.                                                       *)
LEMMA ParsedIs ==
  ASSUME NEW f, Sound(f)
  PROVE  /\ Parsed(f) \in Seq(Events) /\ Len(Parsed(f)) \in 0 .. 2 * MaxRecords
         /\ f.ended => Parsed(f) = f.lines
         /\ f.ended <=> ~ TruncatedTail(f)
         /\ ~ f.present => f = Absent
         /\ f.present => Readable(f)
<1> DEFINE s == f.lines
<1>1. /\ s \in Seq(Events \cup {Broken}) /\ Len(s) \in Nat /\ Len(s) <= 2 * MaxRecords
      /\ MaxRecords \in Nat /\ \A i \in 1 .. Len(s) : s[i] \in Events \cup {Broken}
      /\ DOMAIN s = 1 .. Len(s) /\ s = [i \in 1 .. Len(s) |-> s[i]]
  BY JournalBounds, LenProperties, ElementOfSeq DEF Sound, FileType
<1>2. /\ Absent.lines = <<>> /\ ~ Absent.present /\ Absent.ended
  BY DEF Absent
<1>3. /\ ~ f.present => f = Absent
      /\ f.present => Readable(f)
  BY <1>2 DEF Sound, Readable
<1>4. f.ended <=> ~ TruncatedTail(f)
  BY <1>2 DEF Sound, TruncatedTail
<1>5. CASE f.ended
  <2>1. \A i \in 1 .. Len(s) : s[i] # Broken
    <3>1. CASE f = Absent
      BY <1>2, <3>1
    <3>2. CASE Readable(f)
      BY <1>1, <1>5, <3>2 DEF Readable
    <3>3. QED
      BY <3>1, <3>2 DEF Sound
  <2>2. s \in Seq(Events)
    BY <1>1, <2>1, SeqDef
  <2>3. Parsed(f) = s
    BY <1>4, <1>5 DEF Parsed
  <2>4. QED
    BY <1>1, <1>3, <1>4, <2>2, <2>3
<1>6. CASE ~ f.ended
  <2>1. s # <<>> /\ TruncatedTail(f)
    BY <1>4, <1>6 DEF TruncatedTail
  <2>2. Readable(f)
    BY <1>2, <1>6 DEF Sound
  <2>3. Len(s) # 0
    BY <1>1, <2>1
  <2>4. \A i \in 1 .. Len(s) - 1 : s[i] \in Events
    BY <1>1, <2>2 DEF Readable
  <2>5. Parsed(f) = SubSeq(s, 1, Len(s) - 1)
    BY <2>1 DEF Parsed, Front
  <2>6. SubSeq(s, 1, Len(s) - 1) \in Seq(Events) /\ Len(SubSeq(s, 1, Len(s) - 1)) = Len(s) - 1
    <3>1. Len(s) - 1 \in Int /\ 1 \in Int /\ (Len(s) - 1) - 1 + 1 = Len(s) - 1
      BY <1>1
    <3>2. Len(SubSeq(s, 1, Len(s) - 1)) = IF 1 <= Len(s) - 1 THEN Len(s) - 1 - 1 + 1 ELSE 0
      BY <2>4, <3>1, SubSeqProperties
    <3>3. SubSeq(s, 1, Len(s) - 1) \in Seq(Events)
      BY <2>4, <3>1, SubSeqProperties
    <3>4. QED
      BY <1>1, <2>3, <3>2, <3>3
  <2>7. QED
    BY <1>1, <1>3, <1>4, <1>6, <2>3, <2>5, <2>6
<1>7. QED
  BY <1>5, <1>6

(* Whatever a file holds, the records made of it are distinct and few.     *)
LEMMA SaysIsBrief ==
  ASSUME NEW f, Sound(f)
  PROVE  Brief(Says(f))
<1> DEFINE s == Parsed(f)
           S == Newest(s)
           L == Lasts(s)
           n == Len(s)
           c == Cardinality(S)
           t == At(s, S)
<1>1. s \in Seq(Events) /\ MaxRecords \in Nat \ {0}
  BY ParsedIs, JournalBounds
<1>2. /\ n \in Nat /\ DOMAIN s = 1 .. n
      /\ L \in SUBSET (1 .. n) /\ S \in SUBSET L
      /\ \A i \in L : i \in S <=> Cardinality(From(L, i)) <= MaxRecords
      /\ \A i \in S : From(L, i) = From(S, i)
  BY <1>1, NewestFacts
<1>3. \A i, j \in L : j > i => s[j] # s[i]
  BY DEF Lasts
<1>4. \A i \in 1 .. n : s[i] \in Events
  BY <1>1, <1>2, ElementOfSeq
<1> HIDE DEF s, S, L, n
<1>5. S \in SUBSET (1 .. n) /\ c \in Nat
  BY <1>2, PositionsFinite
<1>6. \A k \in 1 .. c : /\ NthOf(S, k) \in S
                        /\ Cardinality(Upto(S, NthOf(S, k))) = k
  BY <1>2, <1>5, NthExists
<1>7. t = [k \in 1 .. c |-> s[NthOf(S, k)]]
  BY DEF At
<1>8. t \in Seq(Events) /\ Len(t) = c
  <2>1. \A k \in 1 .. c : s[NthOf(S, k)] \in Events
    BY <1>4, <1>5, <1>6
  <2>2. t \in [1 .. c -> Events]
    BY <1>7, <2>1
  <2>3. QED
    BY <1>5, <2>2, SeqDef, LenProperties
<1>9. Distinct(t)
  <2> SUFFICES ASSUME NEW k \in 1 .. c, NEW m \in 1 .. c, t[k] = t[m] PROVE k = m
    BY <1>8 DEF Distinct
  <2> DEFINE i == NthOf(S, k)
             j == NthOf(S, m)
  <2>1. i \in S /\ j \in S /\ s[i] = s[j]
    BY <1>6, <1>7
  <2> HIDE DEF i, j
  <2>2. i \in Nat /\ j \in Nat /\ i \in L /\ j \in L
    <3>1. i \in 1 .. n /\ j \in 1 .. n
      BY <1>5, <2>1
    <3>2. QED
      BY <1>2, <2>1, <3>1
  <2>3. ~ (i > j) /\ ~ (j > i)
    BY <1>3, <2>1, <2>2
  <2>4. Cardinality(Upto(S, i)) = k /\ Cardinality(Upto(S, j)) = m
    BY <1>6 DEF i, j
  <2>5. i = j
    BY <2>2, <2>3
  <2>6. QED
    BY <2>4, <2>5
<1>10. c <= MaxRecords
  <2>1. CASE c = 0
    BY <1>1, <2>1
  <2>2. CASE c # 0
    <3> DEFINE i == NthOf(S, 1)
    <3>1. 1 \in 1 .. c
      BY <1>5, <2>2
    <3>2. i \in S /\ Cardinality(Upto(S, i)) = 1
      BY <1>6, <3>1
    <3> HIDE DEF i
    <3>3. Cardinality(From(S, i)) = c + 1 - Cardinality(Upto(S, i))
      BY <1>2, <1>5, <3>2, RankFromAbove
    <3>4. Cardinality(From(S, i)) = c
      BY <1>5, <3>2, <3>3
    <3>5. i \in L /\ Cardinality(From(L, i)) <= MaxRecords
      BY <1>2, <3>2
    <3>6. QED
      BY <1>2, <3>2, <3>4, <3>5
  <2>3. QED
    BY <2>1, <2>2
<1>11. Brief(t)
  BY <1>8, <1>9, <1>10 DEF Brief
<1>12. QED
  BY <1>11 DEF Says, SetRecords, S, s

(* A file of records.                                                      *)
LEMMA LinesAreSound ==
  ASSUME NEW s \in Seq(Events), Len(s) <= 2 * MaxRecords
  PROVE  /\ Sound(Lines(s)) /\ Parsed(Lines(s)) = s /\ Says(Lines(s)) = SetRecords(s)
         /\ Lines(s).present /\ Lines(s).ended /\ Lines(s).lines = s
<1>1. /\ Len(s) \in Nat /\ DOMAIN s = 1 .. Len(s)
      /\ \A i \in 1 .. Len(s) : s[i] \in Events /\ s[i] # Broken
      /\ s \in Seq(Events \cup {Broken})
  BY LenProperties, ElementOfSeq, BrokenAssumption
<1>2. Lines(s).present /\ Lines(s).ended /\ Lines(s).lines = s /\ Lines(s) \in FileType
  BY <1>1 DEF Lines, FileType
<1>3. Readable(Lines(s))
  BY <1>1, <1>2 DEF Readable
<1>4. ~ TruncatedTail(Lines(s))
  <2>1. s # <<>> => Len(s) \in 1 .. Len(s)
    BY <1>1
  <2>2. QED
    BY <1>1, <1>2, <2>1 DEF TruncatedTail, Last
<1>5. QED
  BY <1>2, <1>3, <1>4 DEF Sound, Parsed, Says

(* One more record, whole.                                                 *)
LEMMA RecordAdded ==
  ASSUME NEW f, Sound(f), f.ended, Len(f.lines) + 1 <= 2 * MaxRecords, NEW e \in Events
  PROVE  LET g == AddLine(f, e, TRUE)
         IN  /\ Sound(g) /\ g.present /\ g.ended
             /\ Parsed(g) = Append(Parsed(f), e) /\ g.lines = Append(f.lines, e)
             /\ Len(g.lines) = Len(f.lines) + 1
<1> DEFINE s == Append(f.lines, e)
<1>1. f.lines \in Seq(Events) /\ Parsed(f) = f.lines
  BY ParsedIs
<1>2. s \in Seq(Events) /\ Len(s) = Len(f.lines) + 1
  BY <1>1, AppendProperties
<1>3. AddLine(f, e, TRUE) = Lines(s)
  BY DEF AddLine, Lines
<1>4. QED
  BY <1>1, <1>2, <1>3, LinesAreSound

(* What is left of an append that was cut off is read as nothing.          *)
LEMMA TornIsSound ==
  ASSUME ~ TornAnywhere, NEW f, Sound(f), f.ended, Len(f.lines) + 1 <= 2 * MaxRecords,
         NEW e \in Events, NEW g \in Torn(f, e)
  PROVE  Sound(g) /\ g.present /\ Parsed(g) = Parsed(f)
<1>1. f.lines \in Seq(Events) /\ Parsed(f) = f.lines
  BY ParsedIs
<1> DEFINE s == f.lines
           n == Len(s)
           u == Append(s, Broken)
<1>2. /\ n \in Nat /\ DOMAIN s = 1 .. n /\ \A i \in 1 .. n : s[i] \in Events /\ s[i] # Broken
      /\ s \in Seq(Events \cup {Broken}) /\ s = [i \in 1 .. n |-> s[i]]
  BY <1>1, LenProperties, ElementOfSeq, BrokenAssumption
<1>3. /\ u \in Seq(Events \cup {Broken}) /\ Len(u) = n + 1 /\ u # <<>>
      /\ u[n + 1] = Broken /\ (\A i \in 1 .. n : u[i] = s[i]) /\ DOMAIN u = 1 .. n + 1
  <2>1. Broken \in Events \cup {Broken}
    OBVIOUS
  <2>2. QED
    BY <1>2, <2>1, AppendProperties, LenProperties
<1>4. g = [f EXCEPT !.present = TRUE] \/ g = AddLine(f, Broken, FALSE)
  BY DEF Torn
<1>5. CASE g = [f EXCEPT !.present = TRUE]
  <2>1. g = Lines(s)
    BY <1>5 DEF Lines, Sound, FileType
  <2>2. n <= 2 * MaxRecords
    BY DEF Sound
  <2>3. QED
    BY <1>1, <2>1, <2>2, LinesAreSound
<1>6. CASE g = AddLine(f, Broken, FALSE)
  <2>1. g = [present |-> TRUE, lines |-> u, ended |-> FALSE]
    BY <1>6 DEF AddLine
  <2> HIDE DEF u, n
  <2>2. g \in FileType /\ g.present /\ g.lines = u /\ ~ g.ended
    BY <1>3, <2>1 DEF FileType
  <2>3. TruncatedTail(g)
    BY <1>3, <2>2 DEF TruncatedTail, Last
  <2>4. Readable(g)
    BY <1>2, <1>3, <2>2 DEF Readable
  <2>5. Len(g.lines) <= 2 * MaxRecords
    BY <1>3, <2>2 DEF n
  <2>6. Parsed(g) = SubSeq(u, 1, n)
    BY <1>2, <1>3, <2>2, <2>3 DEF Parsed, Front
  <2>7. SubSeq(u, 1, n) = s
    <3>1. \A i \in 1 .. n : u[i] \in Events
      BY <1>2, <1>3
    <3>2. /\ SubSeq(u, 1, n) \in Seq(Events)
          /\ Len(SubSeq(u, 1, n)) = IF 1 <= n THEN n - 1 + 1 ELSE 0
          /\ \A i \in 1 .. n - 1 + 1 : SubSeq(u, 1, n)[i] = u[1 + i - 1]
      BY <1>2, <3>1, SubSeqProperties
    <3>3. Len(SubSeq(u, 1, n)) = n /\ \A i \in 1 .. n : SubSeq(u, 1, n)[i] = s[i]
      BY <1>2, <1>3, <3>2
    <3>4. QED
      BY <1>1, <3>2, <3>3, SeqEqual DEF n
  <2>8. QED
    BY <1>1, <2>2, <2>3, <2>4, <2>5, <2>6, <2>7 DEF Sound
<1>7. QED
  BY <1>4, <1>5, <1>6

(* What is left of a copy that was cut off can be read; of a copy of one   *)
(* record, nothing is.                                                     *)
LEMMA TornCopyIsSound ==
  ASSUME ~ TornAnywhere, NEW s, Brief(s), NEW g \in TornCopy(s)
  PROVE  Sound(g) /\ g.present /\ (Len(s) = 1 => Parsed(g) = <<>>)
<1>1. /\ s \in Seq(Events) /\ Len(s) \in 0 .. MaxRecords /\ DOMAIN s = 1 .. Len(s)
      /\ MaxRecords \in Nat \ {0} /\ \A i \in 1 .. Len(s) : s[i] \in Events
  BY LenProperties, ElementOfSeq, JournalBounds DEF Brief
<1>2. CASE g = Lines(<<>>)
  <2> DEFINE b == <<>>
  <2>1. b \in Seq(Events) /\ Len(b) = 0
    OBVIOUS
  <2>2. Len(b) <= 2 * MaxRecords
    BY <1>1, <2>1
  <2>3. g = Lines(b) /\ b = <<>>
    BY <1>2
  <2> HIDE DEF b
  <2>4. QED
    BY <2>1, <2>2, <2>3, LinesAreSound
<1>3. CASE \E n \in DOMAIN s : g \in Torn(Lines(SubSeq(s, 1, n - 1)), s[n])
  <2>1. PICK n \in 1 .. Len(s) : g \in Torn(Lines(SubSeq(s, 1, n - 1)), s[n])
    BY <1>1, <1>3
  <2> DEFINE b == SubSeq(s, 1, n - 1)
  <2>2. b \in Seq(Events) /\ Len(b) = n - 1
    <3>1. /\ n - 1 \in Int /\ \A i \in 1 .. n - 1 : s[i] \in Events
          /\ n - 1 = IF 1 <= n - 1 THEN n - 1 - 1 + 1 ELSE 0
      BY <1>1, <2>1
    <3>2. b \in Seq(Events) /\ Len(b) = IF 1 <= n - 1 THEN n - 1 - 1 + 1 ELSE 0
      BY <3>1, SubSeqProperties
    <3>3. QED
      BY <3>1, <3>2
  <2>3. Len(b) <= 2 * MaxRecords /\ Len(b) + 1 <= 2 * MaxRecords /\ s[n] \in Events
    BY <1>1, <2>1, <2>2
  <2>4. Len(s) = 1 => b = <<>>
    BY <1>1, <2>1, <2>2, EmptySeq
  <2> HIDE DEF b
  <2>5. /\ Sound(Lines(b)) /\ Parsed(Lines(b)) = b /\ Lines(b).ended
        /\ Lines(b).lines = b
    BY <2>2, <2>3, LinesAreSound
  <2>6. g \in Torn(Lines(b), s[n])
    BY <2>1 DEF b
  <2>7. Len(Lines(b).lines) + 1 <= 2 * MaxRecords
    BY <2>3, <2>5
  <2>8. QED
    BY <2>3, <2>4, <2>5, <2>6, <2>7, TornIsSound
<1>4. QED
  <2>1. g = Lines(<<>>) \/ \E n \in DOMAIN s : g \in Torn(Lines(SubSeq(s, 1, n - 1)), s[n])
    BY DEF TornCopy
  <2>2. QED
    BY <1>2, <1>3, <2>1

(***************************************************************************)
(* The medium under the steps of a call.                                   *)
(***************************************************************************)
LEMMA FindableIsBrief ==
  ASSUME Typed, Memory, NEW r \in Findable
  PROVE  Brief(r)
<1>1. CASE r = acked
  BY <1>1 DEF Memory
<1>2. CASE \E e \in tried : r = RecordsWith(acked, e)
  BY <1>2, RecordsWithIs DEF Memory, Typed
<1>3. QED
  BY <1>1, <1>2 DEF Findable

(* While the journal is up, the medium keeps what may be found.            *)
LEMMA Known ==
  ASSUME IInv, power = "up" \/ stage # "idle"
  PROVE  ~ misread /\ skipped = {} /\ Keeps(file, Findable)
BY DEF IInv, Memory, Medium

(* The records there will be when the running call has succeeded.          *)
LEMMA RecordingIs ==
  ASSUME Typed, Memory, stage # "idle"
  PROVE  LET t == RecordsWith(acked, recording)
         IN  /\ power = "up" /\ records = acked /\ recording \in Events
             /\ \A i \in 1 .. Len(acked) : acked[i] # recording
             /\ Brief(t) /\ t \in Findable /\ SetRecords(t) = t
             /\ Sound(Lines(t)) /\ Says(Lines(t)) = t /\ Lines(t).present
             /\ Lines(t).ended /\ Lines(t).lines = t
             /\ Len(t) \in 0 .. 2 * MaxRecords
             /\ acked = <<>> => Len(t) = 1
<1> DEFINE t == RecordsWith(acked, recording)
<1>1. /\ power = "up" /\ records = acked /\ recording \in Events /\ recording \in tried
      /\ Brief(acked) /\ \A i \in 1 .. Len(acked) : acked[i] # recording
  BY DEF Typed, Memory
<1>2. Brief(t) /\ Len(t) = Len(acked) + 1 - Oldest(acked)
  BY <1>1, RecordsWithIs
<1>3. t \in Findable
  BY <1>1 DEF Findable
<1>4. MaxRecords \in Nat \ {0}
  BY JournalBounds
<1> HIDE DEF t
<1>5. SetRecords(t) = t
  BY <1>2, SetOfBrief
<1>6. t \in Seq(Events) /\ Len(t) \in 0 .. 2 * MaxRecords /\ Len(t) <= 2 * MaxRecords
  BY <1>2, <1>4, LenProperties DEF Brief
<1>7. /\ Sound(Lines(t)) /\ Says(Lines(t)) = t /\ Lines(t).present
      /\ Lines(t).ended /\ Lines(t).lines = t
  BY <1>5, <1>6, LinesAreSound
<1>8. acked = <<>> => Len(t) = 1
  <2>1. acked = <<>> => Len(acked) = 0
    OBVIOUS
  <2>2. QED
    BY <1>2, <1>4, <2>1 DEF Oldest
<1>9. QED
  BY <1>1, <1>2, <1>3, <1>5, <1>6, <1>7, <1>8 DEF t

(* A log that says something to be found may be written.                   *)
LEMMA LogWritten ==
  ASSUME NEW found, Keeps(file, found), NEW f, Sound(f), f.present, Says(f) \in found
  PROVE  LET g == [file EXCEPT !["log"] = f]
         IN  Keeps(g, found) /\ g["log"] = f
<1> DEFINE g == [file EXCEPT !["log"] = f]
<1>1. /\ file = [n \in Names |-> file[n]] /\ \A n \in Names : Sound(file[n])
  BY DEF Keeps
<1>2. /\ g = [n \in Names |-> g[n]] /\ g["log"] = f
      /\ \A n \in Names : g[n] = f \/ g[n] = file[n]
  BY <1>1 DEF Names
<1>3. QED
  BY <1>1, <1>2 DEF Keeps, Leading

(* The copy may be anything that can be read while there is a log.         *)
LEMMA TmpWritten ==
  ASSUME NEW found, Keeps(file, found), NEW f, Sound(f), f.present,
         file["log"].present \/ Says(f) \in found
  PROVE  LET g == [file EXCEPT !["tmp"] = f]
         IN  /\ Keeps(g, found)
             /\ g["tmp"] = f /\ g["log"] = file["log"] /\ g["bak"] = file["bak"]
<1> DEFINE g == [file EXCEPT !["tmp"] = f]
<1>1. /\ file = [n \in Names |-> file[n]] /\ (\A n \in Names : Sound(file[n]))
      /\ Says(Leading(file)) \in found
  BY DEF Keeps
<1>2. /\ g = [n \in Names |-> g[n]] /\ g["tmp"] = f
      /\ \A n \in Names : n # "tmp" => g[n] = file[n]
  BY <1>1 DEF Names
<1>3. \A n \in Names : Sound(g[n])
  BY <1>1, <1>2
<1>4. Leading(g) = IF file["log"].present THEN Leading(file) ELSE f
  BY <1>2 DEF Leading, Names
<1>5. Says(Leading(g)) \in found
  BY <1>1, <1>4
<1>6. QED
  BY <1>2, <1>3, <1>5 DEF Keeps, Names

(* Moved empties one file into another.                                    *)
LEMMA MovedIs ==
  ASSUME file = [n \in Names |-> file[n]], NEW from \in Names, NEW to \in Names, from # to
  PROVE  LET g == Moved(from, to)
         IN  /\ g = [n \in Names |-> g[n]] /\ g[to] = file[from] /\ g[from] = Absent
             /\ \A n \in Names : n # from /\ n # to => g[n] = file[n]
BY DEF Moved, Names

(* A storage error leaves the memory, and asks for a compaction.           *)
LEMMA FailKeeps ==
  ASSUME IInv, stage # "idle", NEW leaves, \A g \in leaves : Keeps(g, Findable) /\ Blank(g),
         Fail(leaves)
  PROVE  IInv'
<1>1. Typed /\ Memory /\ MaxErrors \in Nat /\ ~ misread
  BY JournalBounds, Known DEF IInv
<1>2. /\ file' \in leaves /\ compact' = TRUE /\ stage' = "idle" /\ recording' = None
      /\ errors < MaxErrors /\ errors' = errors + 1
      /\ UNCHANGED <<power, skipped, misread, records, physical, cuts, acked, tried>>
  BY DEF Fail, boot
<1>3. Typed'
  BY <1>1, <1>2 DEF Typed, Stages
<1>4. Memory'
  BY <1>1, <1>2 DEF Memory, Brief, Distinct
<1>5. Findable' = Findable
  BY <1>2 DEF Findable
<1>6. Keeps(file', Findable') /\ Blank(file)'
  <2>1. Keeps(file', Findable) /\ Blank(file')
    BY <1>2
  <2>2. QED
    BY <1>2, <1>5, <2>1 DEF Blank
<1>7. Compacting' /\ Appending'
  BY <1>2 DEF Compacting, Appending
<1>8. QED
  BY <1>1, <1>2, <1>3, <1>4, <1>6, <1>7 DEF IInv, Medium

(* A power cut leaves only the medium.                                     *)
LEMMA CutKeeps ==
  ASSUME IInv, NEW leaves, \A g \in leaves : Medium(g), Cut(leaves)
  PROVE  IInv'
<1>1. Typed /\ Memory /\ MaxRecords \in Nat /\ MaxCuts \in Nat
  BY JournalBounds DEF IInv
<1>2. /\ file' \in leaves /\ power' = "down" /\ stage' = "idle" /\ recording' = None
      /\ cuts < MaxCuts /\ cuts' = cuts + 1
      /\ records' = <<>> /\ physical' = 0 /\ compact' = FALSE /\ skipped' = {}
      /\ UNCHANGED <<errors, acked, tried, misread>>
  BY DEF Cut
<1>3. Typed'
  <2>1. <<>> \in Seq(Events) /\ 0 \in 0 .. 2 * MaxRecords /\ cuts' \in 0 .. MaxCuts
    BY <1>1, <1>2 DEF Typed
  <2>2. QED
    BY <1>1, <1>2, <2>1 DEF Typed, Stages
<1>4. Memory'
  BY <1>1, <1>2 DEF Memory, Brief, Distinct
<1>5. Findable' = Findable
  BY <1>2 DEF Findable
<1>6. Medium(file)'
  <2>1. Medium(file')
    BY <1>2
  <2>2. QED
    BY <1>2, <1>5, <2>1 DEF Medium
<1>7. Compacting' /\ Appending'
  BY <1>2 DEF Compacting, Appending
<1>8. QED
  BY <1>2, <1>3, <1>4, <1>6, <1>7 DEF IInv

(***************************************************************************)
(* What a start reads.                                                     *)
(***************************************************************************)
LEMMA BootReads ==
  ASSUME IInv, power = "down"
  PROVE  /\ file = [n \in Names |-> file[n]] /\ \A n \in Names : Sound(file[n])
         /\ \A n \in Names : ~ file[n].present => file[n] = Absent
         /\ Candidate \in {"log", "tmp", "bak", None}
         /\ Candidate # None => file[Candidate].present
         /\ Candidate = None /\ (\E n \in Names : file[n].present) => skipped # {}
         /\ ~ misread =>
              /\ Keeps(file, Findable)
              /\ Candidate \in {"log", "tmp", None}
              /\ Candidate = "log" <=> file["log"].present
              /\ Candidate = "tmp" => ~ file["log"].present
              /\ Candidate = None => \A n \in Names : ~ file[n].present
<1>1. /\ file = [n \in Names |-> file[n]] /\ \A n \in Names : Sound(file[n])
      /\ ~ misread => Keeps(file, Findable)
  BY DEF IInv, Medium, Holds, Keeps
<1>2. \A n \in Names : /\ file[n].present => Readable(file[n])
                       /\ ~ file[n].present => file[n] = Absent
                       /\ Readable(file[n]) => file[n].present
  BY <1>1, ParsedIs DEF Readable
<1>3. \A n \in Names : Found(n) <=> file[n].present /\ n \notin skipped
  BY <1>2 DEF Found
<1>4. /\ Candidate = IF Found("log") THEN "log" ELSE IF Found("tmp") THEN "tmp"
                     ELSE IF Found("bak") THEN "bak" ELSE None
      /\ None \notin Names
  BY DEF Candidate, None, Names
<1>5. /\ Candidate \in {"log", "tmp", "bak", None}
      /\ Candidate # None => file[Candidate].present
      /\ Candidate = None => \A n \in Names : ~ Found(n)
  BY <1>3, <1>4 DEF Names
<1>6. Candidate = None /\ (\E n \in Names : file[n].present) => skipped # {}
  BY <1>3, <1>5
<1>7. ASSUME ~ misread
      PROVE  /\ Candidate \in {"log", "tmp", None}
             /\ Candidate = "log" <=> file["log"].present
             /\ Candidate = "tmp" => ~ file["log"].present
             /\ Candidate = None => \A n \in Names : ~ file[n].present
  <2>1. skipped = {}
    BY <1>7 DEF IInv, Memory
  <2>2. file["bak"].present => file["log"].present \/ file["tmp"].present
    BY <1>1, <1>7 DEF Keeps
  <2>3. QED
    BY <1>3, <1>4, <2>1, <2>2 DEF Names
<1>8. QED
  BY <1>1, <1>2, <1>5, <1>6, <1>7

(* What was read becomes what is known; and unless a start has met an      *)
(* error it is what may be found.                                          *)
LEMMA LoadKeeps ==
  ASSUME IInv, power = "down", NEW f, ~ misread => f = Leading(file),
         Loaded(f), file'["log"] = f,
         file' = [n \in Names |-> file'[n]], \A n \in Names : Sound(file'[n]),
         file'["bak"].present => f.present,
         ~ f.present => f = Absent /\ file'["tmp"] = f
  PROVE  IInv' /\ power' = "up" /\ (~ misread => records' \in Findable)
<1> DEFINE r == Says(f)
<1>1. Typed /\ Memory /\ Medium(file) /\ stage = "idle" /\ recording = None
  BY DEF IInv, Memory
<1>2. /\ power' = "up" /\ records' = r /\ acked' = r /\ tried' = {}
      /\ skipped' = {} /\ misread' = FALSE
      /\ physical' = Len(Parsed(f))
      /\ compact' = (TruncatedTail(f) \/ Len(Parsed(f)) # Len(r))
      /\ UNCHANGED <<stage, recording, cuts, errors>>
  BY DEF Loaded, call, Says
<1>3. ~ misread => r \in Findable
  BY <1>1 DEF Medium, Keeps
<1>5. Sound(f)
  BY DEF Names
<1>4. Brief(r)
  BY <1>5, SaysIsBrief
<1>6. /\ Len(Parsed(f)) \in 0 .. 2 * MaxRecords
      /\ f.ended <=> ~ TruncatedTail(f)
      /\ f.ended => Parsed(f) = f.lines
  BY <1>5, ParsedIs
<1>7. ~ f.present => r = <<>>
  BY AbsentIsSound
<1> HIDE DEF r
<1>8. Typed'
  <2>1. compact' \in BOOLEAN
    BY <1>2
  <2>2. r \in Seq(Events)
    BY <1>4 DEF Brief
  <2>3. QED
    BY <1>1, <1>2, <1>6, <2>1, <2>2 DEF Typed
<1>9. Memory'
  <2>1. Brief(acked)'
    BY <1>2, <1>4 DEF Brief, Distinct
  <2>2. QED
    BY <1>1, <1>2, <2>1 DEF Memory
<1>10. Findable' = {r}
  BY <1>2 DEF Findable
<1>11. Keeps(file', Findable')
  <2>1. Leading(file') = f
    BY DEF Leading
  <2>2. Says(Leading(file')) \in Findable'
    BY <1>10, <2>1 DEF r
  <2>3. QED
    BY <2>2 DEF Keeps
<1>12. Blank(file)'
  BY <1>2, <1>7 DEF Blank
<1>13. Compacting' /\ Appending'
  <2>1. Compacting'
    BY <1>1, <1>2 DEF Compacting
  <2>2. ASSUME ~ compact' PROVE f.ended /\ r = acked' /\ Len(f.lines) = physical'
    BY <1>2, <1>6, <2>1, <2>2
  <2>3. QED
    BY <1>1, <1>2, <2>1, <2>2 DEF Appending, r
<1>14. QED
  BY <1>2, <1>3, <1>8, <1>9, <1>11, <1>12, <1>13 DEF IInv, Medium

(* A start that met errors on all there is leaves it to the next one.      *)
LEMMA RefusedKeeps ==
  ASSUME IInv, power = "down", skipped # {}, Refused
  PROVE  IInv' /\ power' = "down"
<1>1. /\ Typed /\ Memory /\ Medium(file) /\ Compacting /\ Appending
      /\ misread /\ stage = "idle"
  BY DEF IInv, Memory
<1>2. /\ power' = "down" /\ skipped' = {}
      /\ UNCHANGED <<file, misread, records, physical, compact, stage, recording, cuts,
                    errors, acked, tried>>
  BY DEF Refused, ram, call
<1>3. Typed'
  BY <1>1, <1>2 DEF Typed
<1>4. Memory'
  BY <1>1, <1>2 DEF Memory, Brief, Distinct
<1>5. Medium(file)'
  BY <1>1, <1>2 DEF Medium, Holds
<1>6. Compacting' /\ Appending'
  BY <1>1, <1>2 DEF Compacting, Appending
<1>7. QED
  BY <1>2, <1>3, <1>4, <1>5, <1>6 DEF IInv

(* A start finds what may be found, and knows it.                          *)
LEMMA BootStep ==
  ASSUME IInv, Boot
  PROVE  IInv' /\ (power' = "up" /\ ~ misread => records' \in Findable)
<1>1. power = "down"
  BY DEF Boot
<1>2. /\ file = [n \in Names |-> file[n]] /\ \A n \in Names : Sound(file[n])
      /\ \A n \in Names : ~ file[n].present => file[n] = Absent
      /\ Candidate \in {"log", "tmp", "bak", None}
      /\ Candidate # None => file[Candidate].present
      /\ Candidate = None /\ (\E n \in Names : file[n].present) => skipped # {}
      /\ ~ misread =>
           /\ Keeps(file, Findable)
           /\ Candidate \in {"log", "tmp", None}
           /\ Candidate = "log" <=> file["log"].present
           /\ Candidate = "tmp" => ~ file["log"].present
           /\ Candidate = None => \A n \in Names : ~ file[n].present
  BY <1>1, BootReads
<1>3. CASE Candidate \in {"tmp", "bak"}
  <2> DEFINE f == file[Candidate]
  <2>1. Loaded(f) /\ file' = Moved(Candidate, "log")
    BY <1>2, <1>3 DEF Boot, None, Names
  <2>2. /\ file' = [n \in Names |-> file'[n]] /\ file'["log"] = f
        /\ \A n \in Names : n # "log" => file'[n] \in {file[n], Absent}
    BY <1>2, <1>3, <2>1, MovedIs DEF Names
  <2>3. \A n \in Names : Sound(file'[n])
    BY <1>2, <1>3, <2>2, AbsentIsSound DEF Names
  <2>4. f.present
    BY <1>2, <1>3 DEF None
  <2>5. ~ misread => f = Leading(file)
    BY <1>2, <1>3 DEF Leading, None
  <2> HIDE DEF f
  <2>6. QED
    BY <1>1, <2>1, <2>2, <2>3, <2>4, <2>5, LoadKeeps
<1>4. CASE Candidate = None /\ \E n \in Names : file[n].present
  <2>1. Refused
    BY <1>4 DEF Boot, None, Names
  <2>2. QED
    BY <1>1, <1>2, <1>4, <2>1, RefusedKeeps
<1>5. CASE Candidate = "log" \/ (Candidate = None /\ ~ \E n \in Names : file[n].present)
  <2> DEFINE f == file["log"]
  <2>1. Loaded(f) /\ UNCHANGED file
    BY <1>5 DEF Boot, None, Names
  <2>2. /\ f.present \/ (\A n \in Names : file[n] = Absent /\ ~ file[n].present)
        /\ file["bak"].present => f.present
        /\ ~ f.present => f = Absent /\ file["tmp"] = f
    BY <1>2, <1>5 DEF Names, None
  <2>3. ~ misread => f = Leading(file)
    BY <2>2 DEF Leading, Names
  <2>4. /\ file' = file /\ file'["log"] = f
        /\ file' = [n \in Names |-> file'[n]] /\ \A n \in Names : Sound(file'[n])
        /\ file'["bak"].present => f.present
        /\ ~ f.present => f = Absent /\ file'["tmp"] = f
    BY <1>2, <2>1, <2>2
  <2> HIDE DEF f
  <2>5. QED
    BY <1>1, <2>1, <2>3, <2>4, LoadKeeps
<1>6. QED
  BY <1>2, <1>3, <1>4, <1>5

(* What a start that did not finish leaves can still be read, and without  *)
(* an error before it is what there was.                                   *)
LEMMA HalfMovedKeeps ==
  ASSUME IInv, power = "down", Candidate # None, NEW g \in HalfMoved
  PROVE  Medium(g) /\ Holds(g)
<1>1. /\ file = [n \in Names |-> file[n]] /\ \A n \in Names : Sound(file[n])
      /\ \A n \in Names : ~ file[n].present => file[n] = Absent
      /\ Candidate \in Names /\ file[Candidate].present
      /\ ~ misread =>
           /\ Keeps(file, Findable)
           /\ Candidate \in {"log", "tmp"}
           /\ Candidate = "tmp" => ~ file["log"].present
  BY BootReads DEF Names
<1>2. CASE g = file
  <2>1. Holds(g)
    BY <1>1, <1>2 DEF Holds
  <2>2. QED
    BY <1>1, <1>2, <2>1 DEF Medium
<1>3. CASE Candidate # "log" /\ g = Moved(Candidate, "log")
  <2>1. /\ g = [n \in Names |-> g[n]] /\ g["log"] = file[Candidate]
        /\ g[Candidate] = Absent
        /\ \A n \in Names : n # Candidate /\ n # "log" => g[n] = file[n]
    BY <1>1, <1>3, MovedIs DEF Names
  <2>2. \A n \in Names : Sound(g[n])
    BY <1>1, <2>1, AbsentIsSound DEF Names
  <2>3. Holds(g)
    BY <1>1, <2>1, <2>2 DEF Holds, Names
  <2>4. ASSUME ~ misread PROVE Keeps(g, Findable)
    <3>1. Candidate = "tmp" /\ ~ file["log"].present
      BY <1>1, <1>3, <2>4
    <3>2. Leading(g) = Leading(file)
      BY <1>1, <2>1, <3>1 DEF Leading
    <3>3. Says(Leading(g)) \in Findable
      BY <1>1, <2>4, <3>2 DEF Keeps
    <3>4. QED
      BY <1>1, <2>1, <2>2, <3>3 DEF Keeps
  <2>5. QED
    BY <2>3, <2>4 DEF Medium
<1>4. CASE Candidate # "log" /\ g = [file EXCEPT !["log"] = Absent]
  <2>1. /\ g = [n \in Names |-> g[n]] /\ g["log"] = Absent
        /\ \A n \in Names : n # "log" => g[n] = file[n]
    BY <1>1, <1>4 DEF Names
  <2>2. \A n \in Names : Sound(g[n])
    BY <1>1, <2>1, AbsentIsSound
  <2>3. Holds(g)
    BY <1>1, <1>4, <2>1, <2>2 DEF Holds
  <2>4. ASSUME ~ misread PROVE g = file
    BY <1>1, <1>4, <2>1, <2>4 DEF Names
  <2>5. QED
    BY <1>1, <2>3, <2>4 DEF Medium
<1>5. QED
  BY <1>2, <1>3, <1>4 DEF HalfMoved

(* A start that meets an error may leave nothing but something to read.    *)
LEMMA MisreadStep ==
  ASSUME IInv, Misread
  PROVE  IInv' /\ power' = "down"
<1>1. /\ Typed /\ Memory /\ Compacting /\ Appending
      /\ power = "down" /\ Candidate # None /\ stage = "idle"
      /\ MaxErrors \in Nat
  BY JournalBounds DEF IInv, Memory, Misread
<1>2. /\ file' \in HalfMoved /\ skipped' = UpTo(Candidate) /\ misread' = TRUE
      /\ errors < MaxErrors /\ errors' = errors + 1
      /\ UNCHANGED <<power, records, physical, compact, stage, recording, cuts, acked, tried>>
  BY DEF Misread, ram, call
<1>3. Typed'
  <2>1. Candidate \in Names
    BY <1>1, BootReads DEF Names
  <2>2. UpTo(Candidate) \subseteq Names
    BY <2>1 DEF UpTo, Names
  <2>3. QED
    BY <1>1, <1>2, <2>2 DEF Typed
<1>4. Memory'
  BY <1>1, <1>2 DEF Memory, Brief, Distinct
<1>5. Medium(file)'
  <2>1. Holds(file')
    BY <1>1, <1>2, HalfMovedKeeps
  <2>2. QED
    BY <1>2, <2>1 DEF Medium
<1>6. Compacting' /\ Appending'
  BY <1>1, <1>2 DEF Compacting, Appending
<1>7. QED
  BY <1>1, <1>2, <1>3, <1>4, <1>5, <1>6 DEF IInv

(* A cut while the copy is moved to the log loses nothing.                 *)
LEMMA CutInBootStep ==
  ASSUME IInv, CutInBoot
  PROVE  IInv'
<1>1. power = "down" /\ Candidate # None /\ Cut(HalfMoved)
  BY DEF CutInBoot, None
<1>2. \A g \in HalfMoved : Medium(g)
  BY <1>1, HalfMovedKeeps
<1>3. QED
  BY <1>1, <1>2, CutKeeps

(***************************************************************************)
(* The steps of a call.                                                    *)
(***************************************************************************)
LEMMA RecordStep ==
  ASSUME IInv, NEW e \in Events, Record(e)
  PROVE  IInv'
<1>1. /\ Typed /\ Memory /\ Keeps(file, Findable) /\ Blank(file) /\ Compacting /\ Appending
      /\ power = "up" /\ stage = "idle" /\ records = acked /\ ~ misread
  BY Known DEF IInv, Record, Memory
<1>2. /\ recording' = e /\ stage' = (IF ShouldCompact THEN "copy" ELSE "append")
      /\ tried' = tried \cup {e}
      /\ UNCHANGED <<file, power, skipped, misread, records, physical, compact, cuts, errors, acked>>
  BY DEF Record, ram, boot
<1>3. \A i \in 1 .. Len(acked) : acked[i] # e
  <2>1. DOMAIN acked = 1 .. Len(acked)
    BY <1>1, LenProperties DEF Typed
  <2>2. QED
    BY <1>1, <2>1 DEF Record, Range
<1>4. stage' \in {"copy", "append"} /\ (stage' = "append" => ~ ShouldCompact) /\ e # None
  <2>1. None \notin Events
    BY NoneIsNoEvent
  <2>2. QED
    BY <1>2, <2>1
<1>5. Typed'
  BY <1>1, <1>2, <1>4 DEF Typed, Stages
<1>6. Memory'
  <2>1. Brief(acked)'
    BY <1>1, <1>2 DEF Memory, Brief, Distinct
  <2>2. QED
    BY <1>1, <1>2, <1>3, <1>4, <2>1 DEF Memory
<1>7. Keeps(file', Findable')
  <2>1. Findable \subseteq Findable'
    BY <1>2 DEF Findable
  <2>2. Keeps(file, Findable')
    BY <1>1, <2>1 DEF Keeps
  <2>3. QED
    BY <1>2, <2>2
<1>8. Blank(file)' /\ Compacting' /\ Appending'
  <2>1. Blank(file)'
    BY <1>1, <1>2 DEF Blank
  <2>2. Compacting'
    BY <1>4 DEF Compacting
  <2>3. physical + 1 <= 2 * MaxRecords \/ ShouldCompact
    <3>1. physical \in Nat /\ MaxRecords \in Nat
      BY <1>1, JournalBounds DEF Typed
    <3>2. QED
      BY <3>1 DEF ShouldCompact
  <2>4. ~ compact \/ ShouldCompact
    BY DEF ShouldCompact
  <2>5. Appending'
    BY <1>1, <1>2, <1>4, <2>3, <2>4 DEF Appending
  <2>6. QED
    BY <2>1, <2>2, <2>5
<1>9. QED
  BY <1>1, <1>2, <1>5, <1>6, <1>7, <1>8 DEF IInv, Medium

(* What is acknowledged is what the log will say.                          *)
LEMMA AcknowledgeKeeps ==
  ASSUME IInv, stage # "idle", NEW count \in 0 .. 2 * MaxRecords, Acknowledge(count),
         compact' \in BOOLEAN,
         file' = [n \in Names |-> file'[n]], \A n \in Names : Sound(file'[n]),
         file'["log"].present, file'["log"].ended, Len(file'["log"].lines) = count,
         Says(file'["log"]) = RecordsWith(acked, recording)
  PROVE  IInv'
<1> DEFINE r == RecordsWith(acked, recording)
<1>1. Typed /\ Memory /\ ~ misread
  BY Known DEF IInv
<1>2. Brief(r) /\ SetRecords(r) = r /\ records = acked /\ power = "up"
  BY <1>1, RecordingIs
<1>3. /\ records' = r /\ acked' = r /\ tried' = {} /\ physical' = count
      /\ stage' = "idle" /\ recording' = None
      /\ UNCHANGED <<power, skipped, misread, cuts, errors>>
  BY <1>2 DEF Acknowledge, boot
<1>4. Says(file'["log"]) = r
  OBVIOUS
<1> HIDE DEF r
<1>5. Typed'
  <2>1. r \in Seq(Events)
    BY <1>2 DEF Brief
  <2>2. QED
    BY <1>1, <1>3, <2>1 DEF Typed, Stages
<1>6. Memory'
  <2>1. Brief(acked)'
    BY <1>2, <1>3 DEF Brief, Distinct
  <2>2. QED
    BY <1>1, <1>2, <1>3, <2>1 DEF Memory
<1>7. Keeps(file', Findable')
  <2>1. Says(Leading(file')) \in Findable'
    BY <1>3, <1>4 DEF Findable, Leading
  <2>2. QED
    BY <2>1 DEF Keeps
<1>8. Blank(file)' /\ Compacting'
  BY <1>3 DEF Blank, Compacting
<1>9. Appending'
  BY <1>3, <1>4 DEF Appending
<1>10. QED
  BY <1>1, <1>3, <1>5, <1>6, <1>7, <1>8, <1>9 DEF IInv, Medium

(* The log, when a call appends to it.                                     *)
LEMMA AppendsTo ==
  ASSUME IInv, stage = "append"
  PROVE  LET f == file["log"]
             g == AddLine(f, recording, TRUE)
         IN  /\ Sound(f) /\ f.ended /\ Says(f) = acked
             /\ Len(f.lines) = physical /\ physical + 1 <= 2 * MaxRecords
             /\ physical + 1 \in 0 .. 2 * MaxRecords
             /\ Sound(g) /\ g.present /\ g.ended /\ Len(g.lines) = physical + 1
             /\ Says(g) = RecordsWith(acked, recording)
<1> DEFINE f == file["log"]
           g == AddLine(f, recording, TRUE)
<1>1. Typed /\ Memory /\ Keeps(file, Findable) /\ Appending /\ stage # "idle"
  BY Known DEF IInv
<1>2. /\ power = "up" /\ recording \in Events /\ Brief(acked)
      /\ \A i \in 1 .. Len(acked) : acked[i] # recording
  BY <1>1, RecordingIs DEF Memory
<1>3. /\ Sound(f) /\ f.ended /\ Says(f) = acked
      /\ Len(f.lines) = physical /\ physical + 1 <= 2 * MaxRecords
  BY <1>1, <1>2 DEF Appending, Keeps, Names
<1>4. physical + 1 \in 0 .. 2 * MaxRecords
  BY <1>1, <1>3, JournalBounds DEF Typed
<1>5. /\ Sound(g) /\ g.present /\ g.ended /\ Len(g.lines) = physical + 1
      /\ Parsed(g) = Append(Parsed(f), recording)
  BY <1>2, <1>3, RecordAdded
<1>6. Parsed(f) \in Seq(Events) /\ SetRecords(Parsed(f)) = acked
  BY <1>3, ParsedIs DEF Says
<1>7. SetRecords(Append(Parsed(f), recording)) = RecordsWith(acked, recording)
  BY <1>2, <1>6, SetOfAppend
<1> HIDE DEF f, g
<1>8. Says(g) = RecordsWith(acked, recording)
  BY <1>5, <1>7 DEF Says
<1>9. QED
  BY <1>3, <1>4, <1>5, <1>8 DEF f, g

(* An append makes the log say what the memory becomes.                    *)
LEMMA AppendDoneStep ==
  ASSUME IInv, AppendDone
  PROVE  IInv'
<1> DEFINE f == file["log"]
           g == AddLine(f, recording, TRUE)
<1>1. /\ stage = "append" /\ file' = [file EXCEPT !["log"] = g]
      /\ Acknowledge(physical + 1) /\ compact' = compact
  BY DEF AppendDone
<1>2. /\ physical + 1 \in 0 .. 2 * MaxRecords
      /\ Sound(g) /\ g.present /\ g.ended /\ Len(g.lines) = physical + 1
      /\ Says(g) = RecordsWith(acked, recording)
  BY <1>1, AppendsTo
<1>3. /\ file = [n \in Names |-> file[n]] /\ (\A n \in Names : Sound(file[n]))
      /\ compact \in BOOLEAN
  BY <1>1, Known DEF IInv, Keeps, Typed
<1> HIDE DEF g
<1>4. /\ file' = [n \in Names |-> file'[n]] /\ file'["log"] = g
      /\ \A n \in Names : Sound(file'[n])
  BY <1>1, <1>2, <1>3 DEF Names
<1>5. QED
  BY <1>1, <1>2, <1>3, <1>4, AcknowledgeKeeps

(* The copy is whole before the log is touched.                            *)
LEMMA CopyDoneStep ==
  ASSUME IInv, CopyDone
  PROVE  IInv'
<1> DEFINE t == RecordsWith(acked, recording)
           f == Lines(t)
<1>1. /\ Typed /\ Memory /\ Keeps(file, Findable) /\ Blank(file)
      /\ stage = "copy" /\ records = acked /\ ~ misread
  BY RecordingIs, Known DEF IInv, CopyDone
<1>2. /\ file' = [file EXCEPT !["tmp"] = f]
      /\ stage' = (IF file["log"].present THEN "backup" ELSE "install")
      /\ UNCHANGED <<power, skipped, misread, records, physical, compact, recording, cuts,
                    errors, acked, tried>>
  BY <1>1 DEF CopyDone, ram, boot
<1>3. /\ t \in Findable /\ Sound(f) /\ f.present /\ Says(f) = t
      /\ recording \in Events
  BY <1>1, RecordingIs
<1> HIDE DEF t, f
<1>4. /\ Keeps(file', Findable) /\ file'["tmp"] = f
      /\ file'["log"] = file["log"] /\ file'["bak"] = file["bak"]
  BY <1>1, <1>2, <1>3, TmpWritten
<1>5. Typed'
  BY <1>1, <1>2 DEF Typed, Stages
<1>6. Memory'
  BY <1>1, <1>2 DEF Memory, Brief, Distinct
<1>7. Keeps(file', Findable')
  <2>1. Findable' = Findable
    BY <1>2 DEF Findable
  <2>2. QED
    BY <1>4, <2>1
<1>8. stage' # "install" => Blank(file)'
  BY <1>2, <1>4 DEF Blank
<1>9. Compacting'
  <2>1. file'["tmp"] = Lines(RecordsWith(acked', recording'))
    BY <1>2, <1>4 DEF f, t
  <2>2. stage' = "install" => ~ file'["log"].present /\ ~ file'["bak"].present /\ acked' = <<>>
    BY <1>1, <1>2, <1>4 DEF Blank
  <2>3. stage' = "backup" => file'["log"].present
    BY <1>2, <1>4
  <2>4. QED
    BY <2>1, <2>2, <2>3 DEF Compacting
<1>10. Appending'
  BY <1>2 DEF Appending
<1>11. QED
  BY <1>1, <1>2, <1>5, <1>6, <1>7, <1>8, <1>9, <1>10 DEF IInv, Medium

(* While the log is away, the copy speaks for it.                          *)
LEMMA BackupDoneStep ==
  ASSUME IInv, BackupDone
  PROVE  IInv'
<1> DEFINE t == RecordsWith(acked, recording)
<1>1. /\ Typed /\ Memory /\ Keeps(file, Findable) /\ stage = "backup" /\ file["log"].present
      /\ file["tmp"] = Lines(t) /\ file = [n \in Names |-> file[n]]
      /\ \A n \in Names : Sound(file[n])
      /\ Says(file["log"]) \in Findable /\ ~ misread
  BY Known DEF IInv, BackupDone, Compacting, Keeps, Leading
<1>2. /\ file' = Moved("log", "bak") /\ stage' = "install"
      /\ UNCHANGED <<power, skipped, misread, records, physical, compact, recording, cuts,
                    errors, acked, tried>>
  BY DEF BackupDone, ram, boot
<1>3. t \in Findable /\ Says(Lines(t)) = t /\ Lines(t).present
  BY <1>1, RecordingIs
<1> HIDE DEF t
<1>4. /\ file' = [n \in Names |-> file'[n]] /\ file'["bak"] = file["log"]
      /\ file'["log"] = Absent /\ file'["tmp"] = Lines(t)
  BY <1>1, <1>2, MovedIs DEF Names
<1>5. Typed'
  BY <1>1, <1>2 DEF Typed, Stages
<1>6. Memory'
  BY <1>1, <1>2 DEF Memory, Brief, Distinct
<1>7. Findable' = Findable
  BY <1>2 DEF Findable
<1>8. ~ file'["log"].present
  BY <1>4 DEF Absent
<1>9. Keeps(file', Findable')
  <2>1. \A n \in Names : Sound(file'[n])
    BY <1>1, <1>4, AbsentIsSound DEF Names
  <2>2. Leading(file') = Lines(t)
    BY <1>4, <1>8 DEF Leading
  <2>3. Says(Leading(file')) \in Findable'
    BY <1>3, <1>7, <2>2
  <2>4. QED
    BY <1>3, <1>4, <2>1, <2>3 DEF Keeps
<1>10. Compacting'
  <2>1. file'["tmp"] = Lines(RecordsWith(acked', recording'))
    BY <1>2, <1>4 DEF t
  <2>2. file'["bak"].present /\ Says(file'["bak"]) \in Findable'
    BY <1>1, <1>4, <1>7
  <2>3. QED
    BY <1>2, <1>8, <2>1, <2>2 DEF Compacting
<1>11. Appending'
  BY <1>2 DEF Appending
<1>12. QED
  BY <1>1, <1>2, <1>5, <1>6, <1>9, <1>10, <1>11 DEF IInv, Medium

(* The medium, when a compaction is about to be installed.                 *)
LEMMA Installs ==
  ASSUME IInv, stage = "install"
  PROVE  LET t == RecordsWith(acked, recording)
             g == Moved("tmp", "log")
         IN  /\ Keeps(g, Findable) /\ g = [n \in Names |-> g[n]]
             /\ g["log"] = Lines(t) /\ Lines(t).present /\ Lines(t).ended
             /\ Lines(t).lines = t /\ Says(Lines(t)) = t /\ Len(t) \in 0 .. 2 * MaxRecords
<1> DEFINE t == RecordsWith(acked, recording)
           g == Moved("tmp", "log")
<1>1. /\ Typed /\ Memory /\ Keeps(file, Findable) /\ file["tmp"] = Lines(t)
      /\ file = [n \in Names |-> file[n]] /\ \A n \in Names : Sound(file[n])
  BY Known DEF IInv, Compacting, Keeps
<1>2. /\ t \in Findable /\ Says(Lines(t)) = t /\ Lines(t).present /\ Lines(t).ended
      /\ Lines(t).lines = t /\ Len(t) \in 0 .. 2 * MaxRecords
  BY <1>1, RecordingIs
<1> HIDE DEF t
<1>3. /\ g = [n \in Names |-> g[n]] /\ g["log"] = Lines(t)
      /\ g["tmp"] = Absent /\ g["bak"] = file["bak"]
  BY <1>1, MovedIs DEF Names
<1> HIDE DEF g
<1>4. \A n \in Names : Sound(g[n])
  BY <1>1, <1>3, AbsentIsSound DEF Names
<1>5. Keeps(g, Findable)
  BY <1>2, <1>3, <1>4 DEF Keeps, Leading
<1>6. QED
  BY <1>2, <1>3, <1>5 DEF g, t

(* The copy becomes the log.                                               *)
LEMMA InstallDoneStep ==
  ASSUME IInv, InstallDone
  PROVE  IInv'
<1> DEFINE t == RecordsWith(acked, recording)
           g == Moved("tmp", "log")
<1>1. stage = "install" /\ records = acked
  BY RecordingIs DEF InstallDone, IInv
<1>2. file' = g /\ Acknowledge(Len(t)) /\ compact' = FALSE
  BY <1>1 DEF InstallDone
<1>3. /\ Keeps(g, Findable) /\ g = [n \in Names |-> g[n]]
      /\ g["log"] = Lines(t) /\ Lines(t).present /\ Lines(t).ended
      /\ Lines(t).lines = t /\ Says(Lines(t)) = t /\ Len(t) \in 0 .. 2 * MaxRecords
  BY <1>1, Installs
<1>4. \A n \in Names : Sound(g[n])
  BY <1>3 DEF Keeps
<1>5. /\ g["log"].present /\ g["log"].ended /\ Len(g["log"].lines) = Len(t)
      /\ Says(g["log"]) = RecordsWith(acked, recording)
  BY <1>3
<1> HIDE DEF g, t
<1>6. QED
  BY <1>1, <1>2, <1>3, <1>4, <1>5, AcknowledgeKeeps

(***************************************************************************)
(* What an interrupted step leaves.                                        *)
(***************************************************************************)
LEMMA HalfAppendedKeeps ==
  ASSUME ~ TornAnywhere, IInv, stage = "append", NEW g \in HalfAppended
  PROVE  Keeps(g, Findable) /\ Blank(g)
<1> DEFINE f == file["log"]
           h == AddLine(f, recording, TRUE)
<1>1. /\ Typed /\ Memory /\ Keeps(file, Findable) /\ Blank(file)
      /\ file = [n \in Names |-> file[n]]
  BY RecordingIs, Known DEF IInv, Keeps
<1>2. recording \in Events /\ RecordsWith(acked, recording) \in Findable /\ acked \in Findable
  BY <1>1, RecordingIs DEF Findable
<1>3. /\ Sound(f) /\ f.ended /\ Says(f) = acked /\ Len(f.lines) + 1 <= 2 * MaxRecords
      /\ Sound(h) /\ h.present /\ Says(h) = RecordsWith(acked, recording)
  BY AppendsTo
<1>4. PICK l \in {f, h} \cup Torn(f, recording) : g = [file EXCEPT !["log"] = l]
  BY DEF HalfAppended
<1> HIDE DEF h
<1>5. CASE l = f
  <2>1. g = file
    BY <1>1, <1>4, <1>5 DEF Names
  <2>2. QED
    BY <1>1, <2>1
<1>6. CASE l # f
  <2>1. Sound(l) /\ l.present /\ Says(l) \in Findable
    <3>1. CASE l = h
      BY <1>2, <1>3, <3>1
    <3>2. CASE l \in Torn(f, recording)
      <4>1. Sound(l) /\ l.present /\ Parsed(l) = Parsed(f)
        BY <1>2, <1>3, <3>2, TornIsSound
      <4>2. QED
        BY <1>2, <1>3, <4>1 DEF Says
    <3>3. QED
      BY <1>4, <1>6, <3>1, <3>2
  <2>2. Keeps(g, Findable) /\ g["log"] = l
    BY <1>1, <1>4, <2>1, LogWritten
  <2>3. QED
    BY <2>1, <2>2 DEF Blank
<1>7. QED
  BY <1>5, <1>6

(* Half a copy matters only when there is no log; then it is of one        *)
(* record, and is read as none.                                            *)
LEMMA HalfCopiedKeeps ==
  ASSUME ~ TornAnywhere, IInv, stage = "copy", NEW g \in HalfCopied
  PROVE  Keeps(g, Findable) /\ Blank(g)
<1> DEFINE t == RecordsWith(acked, recording)
           f == file["tmp"]
<1>1. /\ Typed /\ Memory /\ Keeps(file, Findable) /\ Blank(file)
      /\ file = [n \in Names |-> file[n]]
  BY RecordingIs, Known DEF IInv, Keeps
<1>2. /\ records = acked /\ t \in Findable /\ Brief(t) /\ (acked = <<>> => Len(t) = 1)
      /\ Sound(Lines(t)) /\ Lines(t).present /\ Says(Lines(t)) = t
  BY <1>1, RecordingIs
<1>3. PICK l \in {f, Lines(t)} \cup TornCopy(t) : g = [file EXCEPT !["tmp"] = l]
  BY <1>2 DEF HalfCopied
<1> HIDE DEF t
<1>4. CASE l = f
  <2>1. g = file
    BY <1>1, <1>3, <1>4 DEF Names
  <2>2. QED
    BY <1>1, <2>1
<1>5. CASE l # f
  <2>1. Sound(l) /\ l.present /\ (file["log"].present \/ Says(l) \in Findable)
    <3>1. CASE l = Lines(t)
      BY <1>2, <3>1
    <3>2. CASE l \in TornCopy(t)
      <4>1. Sound(l) /\ l.present /\ (Len(t) = 1 => Parsed(l) = <<>>)
        BY <1>2, <3>2, TornCopyIsSound
      <4>2. ASSUME ~ file["log"].present PROVE Says(l) \in Findable
        <5>1. acked = <<>>
          BY <1>1, <4>2 DEF Blank
        <5>2. Parsed(l) = <<>>
          BY <1>2, <4>1, <5>1
        <5>3. Says(l) = acked
          BY <5>1, <5>2, AbsentIsSound DEF Says
        <5>4. QED
          BY <5>3 DEF Findable
      <4>3. QED
        BY <4>1, <4>2
    <3>3. QED
      BY <1>3, <1>5, <3>1, <3>2
  <2>2. Keeps(g, Findable) /\ g["log"] = file["log"] /\ g["bak"] = file["bak"]
    BY <1>1, <1>3, <2>1, TmpWritten
  <2>3. QED
    BY <1>1, <2>2 DEF Blank
<1>6. QED
  BY <1>4, <1>5

(* The old backup may go while there is a log.                             *)
LEMMA HalfBackedUpKeeps ==
  ASSUME IInv, stage = "backup", NEW g \in HalfBackedUp
  PROVE  Keeps(g, Findable) /\ Blank(g)
<1>1. /\ Keeps(file, Findable) /\ Blank(file) /\ file["log"].present
      /\ file = [n \in Names |-> file[n]] /\ \A n \in Names : Sound(file[n])
  <2>1. Keeps(file, Findable) /\ file["log"].present /\ power = "up"
    BY RecordingIs, Known DEF IInv, Compacting
  <2>2. QED
    BY <2>1 DEF Keeps, Blank
<1>2. CASE g = file
  BY <1>1, <1>2
<1>3. CASE g = [file EXCEPT !["bak"] = Absent]
  <2>1. /\ g = [n \in Names |-> g[n]] /\ g["bak"] = Absent
        /\ \A n \in Names : n # "bak" => g[n] = file[n]
    BY <1>1, <1>3 DEF Names
  <2>2. /\ \A n \in Names : Sound(g[n])
        /\ g["log"] = file["log"] /\ g["tmp"] = file["tmp"] /\ ~ g["bak"].present
    <3>1. ~ Absent.present
      BY DEF Absent
    <3>2. QED
      BY <1>1, <2>1, <3>1, AbsentIsSound DEF Names
  <2>3. Leading(g) = Leading(file)
    BY <1>1, <2>2 DEF Leading
  <2>4. QED
    BY <1>1, <2>1, <2>2, <2>3 DEF Keeps, Blank
<1>4. QED
  BY <1>2, <1>3 DEF HalfBackedUp

(* Either the copy is the log, or the backup is again, or there was        *)
(* neither.                                                                *)
LEMMA HalfInstalledKeeps ==
  ASSUME IInv, stage = "install", NEW g \in HalfInstalled
  PROVE  Keeps(g, Findable) /\ Blank(g)
<1>1. /\ Keeps(file, Findable) /\ Compacting /\ file = [n \in Names |-> file[n]]
      /\ \A n \in Names : Sound(file[n])
  BY Known DEF IInv, Keeps
<1>2. CASE g = Moved("tmp", "log")
  <2>1. Keeps(g, Findable) /\ g["log"].present
    BY <1>2, Installs
  <2>2. QED
    BY <2>1 DEF Blank
<1>3. CASE file["bak"].present /\ g = Moved("bak", "log")
  <2>1. Says(file["bak"]) \in Findable
    BY <1>1, <1>3 DEF Compacting
  <2>2. /\ g = [n \in Names |-> g[n]] /\ g["log"] = file["bak"]
        /\ g["bak"] = Absent /\ g["tmp"] = file["tmp"]
    BY <1>1, <1>3, MovedIs DEF Names
  <2>3. \A n \in Names : Sound(g[n])
    BY <1>1, <2>2, AbsentIsSound DEF Names
  <2>4. QED
    BY <1>3, <2>1, <2>2, <2>3 DEF Keeps, Leading, Blank
<1>4. CASE ~ file["bak"].present /\ g = file
  BY <1>1, <1>4 DEF Compacting, Blank
<1>5. QED
  BY <1>2, <1>3, <1>4 DEF HalfInstalled

(* No error and no cut breaks the invariant.                               *)
LEMMA InterruptedStep ==
  ASSUME ~ TornAnywhere, IInv, Interrupted
  PROVE  IInv'
<1>0. /\ power = "up" \/ stage # "idle"
      /\ ~ misread /\ Keeps(file, Findable)
  <2>1. power = "up" \/ stage # "idle"
    BY DEF Interrupted
  <2>2. QED
    BY <2>1, Known
<1>1. CASE stage = "append" /\ (Fail(HalfAppended) \/ Cut(HalfAppended))
  <2>1. \A g \in HalfAppended : Keeps(g, Findable) /\ Blank(g) /\ Medium(g)
    BY <1>0, <1>1, HalfAppendedKeeps DEF Medium
  <2>2. QED
    BY <1>1, <2>1, FailKeeps, CutKeeps
<1>2. CASE stage = "copy" /\ (Fail(HalfCopied) \/ Cut(HalfCopied))
  <2>1. \A g \in HalfCopied : Keeps(g, Findable) /\ Blank(g) /\ Medium(g)
    BY <1>0, <1>2, HalfCopiedKeeps DEF Medium
  <2>2. QED
    BY <1>2, <2>1, FailKeeps, CutKeeps
<1>3. CASE stage = "backup" /\ (Fail(HalfBackedUp) \/ Cut(HalfBackedUp))
  <2>1. \A g \in HalfBackedUp : Keeps(g, Findable) /\ Blank(g) /\ Medium(g)
    BY <1>0, <1>3, HalfBackedUpKeeps DEF Medium
  <2>2. QED
    BY <1>3, <2>1, FailKeeps, CutKeeps
<1>4. CASE stage = "install" /\ Fail(HalfInstalled)
  BY <1>4, HalfInstalledKeeps, FailKeeps
<1>5. CASE stage = "install" /\ Cut({file, Moved("tmp", "log")})
  <2>1. Keeps(file, Findable) /\ Keeps(Moved("tmp", "log"), Findable)
    BY <1>0, <1>5, Installs
  <2>2. \A g \in {file, Moved("tmp", "log")} : Medium(g)
    BY <1>0, <2>1 DEF Medium
  <2>3. QED
    BY <1>5, <2>2, CutKeeps
<1>6. CASE stage = "idle" /\ power = "up" /\ Cut({file})
  <2>1. \A g \in {file} : Medium(g)
    BY <1>0 DEF Medium
  <2>2. QED
    BY <1>6, <2>1, CutKeeps
<1>7. QED
  BY <1>1, <1>2, <1>3, <1>4, <1>5, <1>6 DEF Interrupted

(***************************************************************************)
(* The theorems.  Each supposes that an interrupted append leaves a        *)
(* fragment or nothing, but not a record without its newline.              *)
(***************************************************************************)
(* An empty medium.                                                        *)
LEMMA InitHolds == Init => IInv
<1> SUFFICES ASSUME Init PROVE IInv
  OBVIOUS
<1>1. MaxRecords \in Nat \ {0} /\ MaxCuts \in Nat /\ MaxErrors \in Nat
  BY JournalBounds
<1>2. /\ file = [n \in Names |-> Absent] /\ power = "down" /\ records = <<>>
      /\ physical = 0 /\ compact = FALSE /\ stage = "idle" /\ recording = None
      /\ cuts = 0 /\ errors = 0 /\ acked = <<>> /\ tried = {}
  BY DEF Init
<1>25. skipped = {} /\ misread = FALSE
  BY DEF Init
<1>3. Typed
  <2>1. /\ <<>> \in Seq(Events) /\ 0 \in 0 .. 2 * MaxRecords
        /\ 0 \in 0 .. MaxCuts /\ 0 \in 0 .. MaxErrors
    BY <1>1
  <2>2. QED
    BY <1>1, <1>2, <1>25, <2>1 DEF Typed, Stages
<1>4. Memory
  BY <1>1, <1>2, <1>25 DEF Memory, Brief, Distinct
<1>5. Findable = {<<>>}
  BY <1>2 DEF Findable
<1>6. Keeps(file, Findable)
  <2>1. \A n \in Names : file[n] = Absent
    BY <1>2
  <2>2. file = [n \in Names |-> file[n]] /\ ~ file["bak"].present
    BY <1>2 DEF Names, Absent
  <2>3. Leading(file) = Absent
    BY <2>1 DEF Leading, Names
  <2>4. QED
    BY <1>5, <2>1, <2>2, <2>3, AbsentIsSound DEF Keeps
<1>7. Compacting /\ Appending
  BY <1>2 DEF Compacting, Appending
<1>8. QED
  BY <1>2, <1>25, <1>3, <1>4, <1>6, <1>7 DEF IInv, Medium

(* No step breaks the invariant.                                           *)
LEMMA NextKeeps ==
  ASSUME ~ TornAnywhere, IInv, [Next]_vars
  PROVE  IInv'
<1>1. CASE Boot
  BY <1>1, BootStep
<1>2. CASE CutInBoot
  BY <1>2, CutInBootStep
<1>3. CASE \E e \in Events : Record(e)
  BY <1>3, RecordStep
<1>4. CASE AppendDone
  BY <1>4, AppendDoneStep
<1>5. CASE CopyDone
  BY <1>5, CopyDoneStep
<1>6. CASE BackupDone
  BY <1>6, BackupDoneStep
<1>7. CASE InstallDone
  BY <1>7, InstallDoneStep
<1>8. CASE Interrupted
  BY <1>8, InterruptedStep
<1>9. CASE UNCHANGED vars
  <2>1. UNCHANGED <<file, power, skipped, misread, records, physical, compact, stage,
                    recording, cuts, errors, acked, tried>>
    BY <1>9 DEF vars, boot, ram, call
  <2>2. Typed' /\ Memory'
    BY <2>1 DEF IInv, Typed, Memory, Brief, Distinct
  <2>3. Findable' = Findable
    BY <2>1 DEF Findable
  <2>4. Medium(file)'
    BY <2>1, <2>3 DEF IInv, Medium
  <2>5. (power = "up" /\ stage # "install" => Blank(file))'
    BY <2>1 DEF IInv, Blank
  <2>6. Compacting' /\ Appending'
    BY <2>1, <2>3 DEF IInv, Compacting, Appending
  <2>7. QED
    BY <2>2, <2>4, <2>5, <2>6 DEF IInv
<1>10. CASE Misread
  BY <1>10, MisreadStep
<1>11. QED
  BY <1>1, <1>2, <1>3, <1>4, <1>5, <1>6, <1>7, <1>8, <1>9, <1>10 DEF Next

(* What the medium and the memory are at every moment of JsonEventJournal: *)
(* from it follow the three promises below.                                *)
THEOREM JournalInductive ==
  ASSUME ~ TornAnywhere
  PROVE  Spec => []IInv
<1>1. Init => IInv
  BY InitHolds
<1>2. IInv /\ [Next]_vars => IInv'
  BY NextKeeps
<1>3. QED
  BY <1>1, <1>2, PTL DEF Spec

(* Every state of the journal is one of the type: the memory never holds   *)
(* more than max_records ids, nor are they counted over twice as many      *)
(* lines.                                                                  *)
THEOREM TypeCorrect ==
  ASSUME ~ TornAnywhere
  PROVE  Spec => []TypeOK
<1>1. IInv => TypeOK
  <2> SUFFICES ASSUME IInv PROVE TypeOK
    OBVIOUS
  <2>1. Typed /\ Memory /\ Medium(file)
    BY DEF IInv
  <2>2. file \in [Names -> FileType]
    BY <2>1 DEF Medium, Holds, Keeps, Sound
  <2>3. Len(records) <= MaxRecords
    <3>1. power = "up" \/ records = <<>>
      BY <2>1 DEF Memory, Typed
    <3>2. <<>> \in Seq(Events) /\ Len(<<>>) <= MaxRecords
      BY JournalBounds
    <3>3. QED
      BY <2>1, <3>1, <3>2 DEF Memory, Brief
  <2>4. QED
    BY <2>1, <2>2, <2>3 DEF TypeOK, Typed, Memory
<1>2. QED
  BY <1>1, JournalInductive, PTL

(* _load_log: after any cuts and errors, of an append or of a compaction,  *)
(* one of journal.log, .tmp, .bak can be read, or none was ever written;   *)
(* an error of a start ends no journal, since the next start tries again.  *)
THEOREM AlwaysStarts ==
  ASSUME ~ TornAnywhere
  PROVE  Spec => []AlwaysBoots
<1>1. IInv => AlwaysBoots
  BY DEF IInv, Typed, AlwaysBoots
<1>2. QED
  BY <1>1, JournalInductive, PTL

(* was_executed answers from _records what a start would read from         *)
(* journal.log, as long as no failed call has asked for a compaction; and  *)
(* the log stays within twice max_records lines.                           *)
THEOREM MemoryAgreesWithLog ==
  ASSUME ~ TornAnywhere
  PROVE  Spec => []MemoryIsTheLog
<1>1. IInv => MemoryIsTheLog
  <2> SUFFICES ASSUME IInv PROVE MemoryIsTheLog
    OBVIOUS
  <2>1. Memory /\ Medium(file) /\ Appending
    BY DEF IInv
  <2>2. Len(file["log"].lines) <= 2 * MaxRecords
    BY <2>1 DEF Medium, Holds, Keeps, Sound, Names
  <2>3. power = "up" /\ stage = "idle" /\ ~ compact => SetRecords(Parsed(file["log"])) = records
    BY <2>1 DEF Appending, Memory, Says
  <2>4. QED
    BY <2>2, <2>3 DEF MemoryIsTheLog
<1>2. QED
  BY <1>1, JournalInductive, PTL

(* A start of JsonEventJournal knows what the last acknowledged call knew, *)
(* or that and the event of one call that did not return: _append and      *)
(* _write_compacted lose nothing that record() has acknowledged.  A start  *)
(* that has met an OSError is excused: it may adopt an old copy.           *)
THEOREM AcknowledgedSurvives ==
  ASSUME ~ TornAnywhere
  PROVE  Spec => AckedSurvives
<1>1. IInv /\ [Next]_vars =>
        [power = "down" /\ power' = "up" /\ ~ misread =>
           records' \in {acked} \cup {RecordsWith(acked, e) : e \in tried}]_vars
  <2> SUFFICES ASSUME IInv, Next, power = "down", power' = "up", ~ misread
               PROVE  records' \in {acked} \cup {RecordsWith(acked, e) : e \in tried}
    BY DEF vars
  <2>1. stage = "idle"
    BY DEF IInv, Memory
  <2>2. Boot
    BY <2>1 DEF Next, CutInBoot, Record, AppendDone, CopyDone, BackupDone, InstallDone,
                Interrupted, Cut, Misread
  <2>3. QED
    BY <2>2, BootStep DEF Findable
<1>2. QED
  BY <1>1, JournalInductive, PTL DEF Spec, AckedSurvives
=============================================================================
