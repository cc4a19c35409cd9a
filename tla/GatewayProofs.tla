---------------------------- MODULE GatewayProofs ----------------------------
(***************************************************************************)
(* Theorems about the two protocols of the gateway that keep themselves    *)
(* going: Reporting, for any finite set of devices, any addresses, any     *)
(* window and any times in the order of the real ones, and LinkBreaker,    *)
(* for any set of commands, any threshold and any number of faults.        *)
(***************************************************************************)
EXTENDS Reporting, LinkBreaker, FiniteSetTheorems, TLAPS

USE DEF registry, requests, bounds, Zero

-----------------------------------------------------------------------------
(* What a pump leaves, whatever its caller did to the queue before.        *)
LEMMA PumpLeaves ==
  ASSUME TypeOK, WindowHeld,
         registered' \subseteq Devices, reporting' \subseteq registered',
         NEW STATE q, q \subseteq Devices,
         NEW STATE du, du \in [Devices -> Int],
         NEW STATE at, at \in [Devices -> 0 .. MaxShift + 1],
         NEW STATE inf, inf \subseteq inflight,
         NEW STATE rest,
         Pump(q, du, at, inf, rest)
  PROVE  /\ queue' = q \cap (registered' \ reporting')
         /\ inflight' \subseteq Devices
         /\ due' \in [Devices -> Int]
         /\ attempts' \in [Devices -> 0 .. MaxShift + 1]
         /\ credit' \in [Devices -> 0 .. CreditTime]
         /\ spacing' \in [Devices -> 0 .. RetryBase]
         /\ WindowHeld'
         /\ (\A d \in q : at[d] = 0 \/ spacing[d] = 0 \/ spacing[d] <= du[d])
              => Spaced' /\ Paced
  <1> DEFINE inf1 == Charged(q, inf)
             q1 == q \cap Needs
  <1>1. PICK S \in Turn(q, du, inf1) : Request(S, q1, du, at, inf1, rest)
    BY DEF Pump
  <1>2. queue' = q1 /\ q1 = q \cap (registered' \ reporting') /\ q1 \subseteq Devices
    BY DEF Pump, Needs
  <1>3. inf1 \subseteq inf /\ inf1 \subseteq inflight /\ inf1 \subseteq Devices
    BY DEF Charged, TypeOK
  <1>4. S \subseteq q1 /\ S \cap inf1 = {} /\ \A d \in S : du[d] <= 0
    BY <1>1 DEF Turn
  <1>5. /\ due' = [d \in Devices |-> IF d \in S THEN Delay[Lesser(at[d], MaxShift)] ELSE On(du, q1)[d]]
        /\ attempts' = [d \in Devices |->
                          IF d \in S THEN Lesser(at[d] + 1, MaxShift + 1) ELSE On(at, q1)[d]]
        /\ inflight' = inf1 \cup S
        /\ credit' = [d \in Devices |-> IF d \in S THEN CreditTime ELSE On(credit, inf1)[d]]
        /\ spacing' = [d \in Devices |-> IF d \in S THEN RetryBase ELSE spacing[d]]
    BY <1>1 DEF Request
  <1>6. MaxShift \in Nat /\ CreditTime \in Nat /\ RetryBase \in Nat /\ CreditTime > 0
    BY ReportingAssumption, TimesAssumption
  <1>7. \A d \in Devices : /\ Lesser(at[d], MaxShift) \in 0 .. MaxShift
                           /\ Lesser(at[d] + 1, MaxShift + 1) \in 1 .. MaxShift + 1
                           /\ at[d] = 0 => Lesser(at[d] + 1, MaxShift + 1) = 1
    BY <1>6 DEF Lesser
  <1>8. \A d \in Devices : /\ Delay[Lesser(at[d], MaxShift)] \in Nat
                           /\ Delay[Lesser(at[d], MaxShift)] >= RetryBase
    BY <1>7, TimesAssumption
  <1>9. inflight' \subseteq Devices
    BY <1>2, <1>3, <1>4, <1>5
  <1>10. due' \in [Devices -> Int]
    BY <1>5, <1>8 DEF On
  <1>11. attempts' \in [Devices -> 0 .. MaxShift + 1]
    BY <1>5, <1>6, <1>7 DEF On
  <1>12. credit' \in [Devices -> 0 .. CreditTime]
    BY <1>5, <1>6 DEF On, TypeOK
  <1>13. spacing' \in [Devices -> 0 .. RetryBase]
    BY <1>5, <1>6 DEF TypeOK
  <1>14. WindowHeld'
    <2>1. IsFiniteSet(Devices) /\ Window \in Nat
      BY ReportingAssumption
    <2>2. IsFiniteSet(inf1) /\ IsFiniteSet(S) /\ IsFiniteSet(inflight)
      BY <2>1, <1>2, <1>3, <1>4, FS_Subset DEF TypeOK
    <2>3. Cardinality(inf1) <= Cardinality(inflight)
      BY <2>2, <1>3, FS_Subset
    <2>4. Cardinality(inf1) \in Nat /\ Cardinality(S) \in Nat /\ Cardinality(inflight) \in Nat
      BY <2>2, FS_CardinalityType
    <2>5. Cardinality(S) <= Window - Cardinality(inf1)
      <3> DEFINE ready == {d \in q1 \ inf1 : du[d] <= 0}
      <3>1. Cardinality(S) = Lesser(Cardinality(ready), Window - Cardinality(inf1))
        BY <1>1 DEF Turn
      <3>2. IsFiniteSet(ready) /\ Cardinality(ready) \in Nat
        BY <2>1, <1>2, FS_Subset, FS_CardinalityType
      <3> QED BY <3>1, <3>2, <2>1, <2>4 DEF Lesser
    <2>6. Cardinality(inflight') <= Cardinality(inf1) + Cardinality(S)
      <3>1. /\ Cardinality(inf1 \cup S) = Cardinality(inf1) + Cardinality(S) - Cardinality(inf1 \cap S)
        BY <2>2, FS_Union
      <3>2. Cardinality(inf1 \cap S) = 0
        BY <1>4, FS_EmptySet
      <3> QED BY <3>1, <3>2, <2>4, <1>5
    <2>7. Cardinality(inflight') \in Nat
      BY <2>1, <1>9, FS_Subset, FS_CardinalityType
    <2> QED BY <2>1, <2>4, <2>5, <2>6, <2>7 DEF WindowHeld
  <1>15. ASSUME \A d \in q : at[d] = 0 \/ spacing[d] = 0 \/ spacing[d] <= du[d]
         PROVE  Spaced'
    <2> SUFFICES ASSUME NEW d \in q1
                 PROVE  attempts'[d] = 0 \/ spacing'[d] = 0 \/ spacing'[d] <= due'[d]
      BY <1>2 DEF Spaced
    <2>1. CASE d \in S
      BY <2>1, <1>2, <1>5, <1>6, <1>8
    <2>2. CASE d \notin S
      BY <2>2, <1>2, <1>5, <1>15 DEF On
    <2> QED BY <2>1, <2>2
  <1>16. ASSUME NEW d \in Devices, Asked(d), attempts'[d] > 1
         PROVE  d \in q /\ at[d] >= 1 /\ du[d] <= 0
    <2>1. d \in S
      <3>1. CASE d \in inf1
        BY <3>1, <1>3, <1>5, <1>16 DEF Asked, On
      <3>2. CASE d \notin inf1
        BY <3>2, <1>5, <1>16 DEF Asked
      <3> QED BY <3>1, <3>2
    <2>2. at[d] # 0
      BY <2>1, <1>5, <1>7, <1>16
    <2> QED BY <2>1, <2>2, <1>2, <1>4, <1>6
  <1>17. ASSUME \A d \in q : at[d] = 0 \/ spacing[d] = 0 \/ spacing[d] <= du[d]
         PROVE  Paced
    <2> SUFFICES ASSUME NEW d \in Devices, Asked(d), attempts'[d] > 1
                 PROVE  spacing[d] = 0
      BY DEF Paced
    <2>1. d \in q /\ at[d] >= 1 /\ du[d] <= 0
      BY <1>16
    <2>2. spacing[d] \in 0 .. RetryBase /\ du[d] \in Int
      BY DEF TypeOK
    <2> QED BY <2>1, <2>2, <1>6, <1>17
  <1> QED BY <1>2, <1>9, <1>10, <1>11, <1>12, <1>13, <1>14, <1>15, <1>17

-----------------------------------------------------------------------------
LEMMA InitHolds == Init => IInv
  <1> SUFFICES ASSUME Init PROVE IInv
    OBVIOUS
  <1>1. MaxShift \in Nat /\ CreditTime \in Nat /\ RetryBase \in Nat /\ Window \in Nat
    BY ReportingAssumption, TimesAssumption
  <1>2. WindowHeld
    BY <1>1, FS_EmptySet DEF Init, WindowHeld
  <1> QED BY <1>1, <1>2 DEF Init, IInv, TypeOK, NeverGivesUp, TrueFlag, AddressKnown, Spaced

-----------------------------------------------------------------------------
(* Whoever is still held at the address that a device joins with is misled,*)
(* whether or not the hub hears of the joining.                            *)
LEMMA JoinKnown ==
  ASSUME IInv, NEW d \in Devices, NEW s \in Shorts,
         \A e \in Devices \ {d} : addr[e] # s,
         addr' = [addr EXCEPT ![d] = s],
         misled' = misled \cup {e \in registered \ {d} : short[e] = s},
         \/ registered' = registered /\ short' = short
         \/ registered' = registered \cup {d} /\ short' = [short EXCEPT ![d] = s]
  PROVE  AddressKnown'
  <1>1. TypeOK /\ AddressKnown
    BY DEF IInv
  <1> SUFFICES ASSUME NEW f \in registered' \ misled', NEW e \in Devices \ {f},
                      addr'[e] = short'[f], addr'[e] # Off
               PROVE  FALSE
    BY DEF AddressKnown
  <1>2. f \in Devices /\ f \notin misled /\ (f # d => f \in registered /\ short'[f] = short[f])
    BY <1>1 DEF TypeOK
  <1>3. CASE f = d
    <2>1. addr'[e] = addr[e] /\ addr[e] # s
      BY <1>1, <1>3 DEF TypeOK
    <2>2. f \in registered /\ short'[f] = short[f]
      BY <2>1, <1>1, <1>2, <1>3 DEF TypeOK
    <2> QED BY <2>1, <2>2, <1>1, <1>2 DEF AddressKnown
  <1>4. CASE f # d
    <2>1. short[f] # s
      BY <1>2, <1>4
    <2>2. e # d /\ addr'[e] = addr[e]
      BY <2>1, <1>1, <1>2, <1>4 DEF TypeOK
    <2> QED BY <2>2, <1>1, <1>2, <1>4 DEF AddressKnown
  <1> QED BY <1>3, <1>4

(* What the handlers of the hub share: they change the registry by their   *)
(* own rule and the rest by a pump.                                        *)
LEMMA JoinedKeeps ==
  ASSUME IInv, NEW d \in Devices, NEW s \in Shorts,
         \A e \in Devices \ {d} : addr[e] # s,
         addr' = [addr EXCEPT ![d] = s], proven' = proven,
         misled' = misled \cup {e \in registered \ {d} : short[e] = s},
         OnDeviceJoined(d, s)
  PROVE  IInv' /\ Paced
  <1>0. /\ registered' = registered \cup {d} /\ short' = [short EXCEPT ![d] = s]
        /\ reporting' = reporting /\ orphans' = orphans \ {d}
    BY DEF OnDeviceJoined
  <1>1. /\ TypeOK /\ WindowHeld /\ Off \notin Shorts
    BY ReportingAssumption DEF IInv
  <1> DEFINE q == queue \cup {d}
             du == [due EXCEPT ![d] = 0]
             at == [attempts EXCEPT ![d] = 0]
  <1>2. /\ q \subseteq Devices /\ du \in [Devices -> Int] /\ at \in [Devices -> 0 .. MaxShift + 1]
        /\ registered' \subseteq Devices /\ reporting' \subseteq registered'
        /\ short' \in [Devices -> Shorts \cup {Off}] /\ addr' \in [Devices -> Shorts \cup {Off}]
        /\ proven' \subseteq Devices /\ misled' \subseteq Devices /\ orphans' \subseteq Devices
    BY <1>0, <1>1, ReportingAssumption DEF TypeOK
  <1>3. \A e \in q : at[e] = 0 \/ spacing[e] = 0 \/ spacing[e] <= du[e]
    BY <1>1 DEF TypeOK, IInv, Spaced
  <1>4. /\ queue' = q \cap (registered' \ reporting')
        /\ inflight' \subseteq Devices
        /\ due' \in [Devices -> Int]
        /\ attempts' \in [Devices -> 0 .. MaxShift + 1]
        /\ credit' \in [Devices -> 0 .. CreditTime]
        /\ spacing' \in [Devices -> 0 .. RetryBase]
        /\ WindowHeld' /\ Spaced' /\ Paced
    <2>1. Pump(q, du, at, inflight, chains)
      BY DEF OnDeviceJoined
    <2>2. /\ q \subseteq Devices /\ du \in [Devices -> Int]
          /\ at \in [Devices -> 0 .. MaxShift + 1] /\ inflight \subseteq inflight
          /\ registered' \subseteq Devices /\ reporting' \subseteq registered'
      BY <1>2
    <2> HIDE DEF q, du, at
    <2> QED BY <2>1, <2>2, <1>1, <1>3, PumpLeaves
  <1>5. TypeOK'
    BY <1>0, <1>2, <1>4 DEF TypeOK
  <1>6. NeverGivesUp'
    BY <1>0, <1>1, <1>4 DEF IInv, NeverGivesUp
  <1>7. TrueFlag'
    BY <1>0 DEF IInv, TrueFlag
  <1>8. AddressKnown'
    BY <1>0, <1>1, JoinKnown
  <1> QED BY <1>4, <1>5, <1>6, <1>7, <1>8 DEF IInv

(* An answer that the device of that address gave itself, or a failure.    *)
LEMMA ResultKeeps ==
  ASSUME IInv, NEW s, NEW ok \in BOOLEAN, NEW STATE rest,
         UNCHANGED <<addr, misled>>, proven \subseteq proven', proven' \subseteq Devices,
         ok => \E e \in proven' : addr[e] = s /\ s # Off,
         OnReportingResult(s, ok, rest)
  PROVE  IInv' /\ Paced
  <1>1. TypeOK /\ WindowHeld /\ MaxShift \in Nat /\ RetryBase \in Nat
    BY ReportingAssumption, TimesAssumption DEF IInv
  <1>2. CASE UNCHANGED <<registry, requests, orphans, spacing>>
    BY <1>2 DEF IInv, TypeOK, WindowHeld, NeverGivesUp, TrueFlag, AddressKnown, Spaced,
                     Paced, Asked
  <1>3. ASSUME NEW d \in registered, short[d] = s,
               UNCHANGED <<registered, short>>, orphans' = orphans \ {d},
               IF ok THEN OnSuccess(d, rest) ELSE OnFailure(d, rest)
        PROVE  IInv' /\ Paced
    <2>1. d \in Devices
      BY <1>1 DEF TypeOK
    <2>2. CASE ok
      <3> DEFINE q == queue \ {d}
      <3>1. reporting' = reporting \cup {d} /\ Pump(q, due, attempts, inflight \ {d}, rest)
        BY <1>3, <2>2 DEF OnSuccess
      <3>2. /\ q \subseteq Devices /\ due \in [Devices -> Int] /\ attempts \in [Devices -> 0 .. MaxShift + 1]
            /\ registered' \subseteq Devices /\ reporting' \subseteq registered'
        BY <1>1, <1>3, <3>1 DEF TypeOK
      <3>3. \A e \in q : attempts[e] = 0 \/ spacing[e] = 0 \/ spacing[e] <= due[e]
        BY DEF IInv, Spaced
      <3>4. /\ queue' = q \cap (registered' \ reporting')
            /\ inflight' \subseteq Devices
            /\ due' \in [Devices -> Int]
            /\ attempts' \in [Devices -> 0 .. MaxShift + 1]
            /\ credit' \in [Devices -> 0 .. CreditTime]
            /\ spacing' \in [Devices -> 0 .. RetryBase]
            /\ WindowHeld' /\ Spaced' /\ Paced
        <4> HIDE DEF q
        <4>1. inflight \ {d} \subseteq inflight
          OBVIOUS
        <4> QED BY <4>1, <3>1, <3>2, <3>3, <1>1, PumpLeaves
      <3>5. TypeOK'
        BY <1>1, <1>3, <3>2, <3>4 DEF TypeOK
      <3>6. NeverGivesUp'
        BY <1>3, <3>1, <3>4 DEF IInv, NeverGivesUp
      <3>7. TrueFlag'
        <4> SUFFICES ASSUME d \notin misled PROVE d \in proven'
          BY <3>1 DEF IInv, TrueFlag
        <4>1. PICK e \in proven' : addr[e] = s /\ s # Off
          BY <2>2
        <4>2. e \in Devices
          OBVIOUS
        <4> QED BY <4>1, <4>2, <1>3 DEF IInv, AddressKnown
      <3>8. AddressKnown'
        BY <1>3 DEF IInv, AddressKnown
      <3> QED BY <3>4, <3>5, <3>6, <3>7, <3>8 DEF IInv
    <2>3. CASE ~ ok
      <3> DEFINE q == queue \cup {d}
                 du == [due EXCEPT ![d] = IF d \in queue THEN @ ELSE RetryBase]
                 at == [attempts EXCEPT ![d] = IF d \in queue THEN @ ELSE 1]
      <3>1. reporting' = reporting \ {d} /\ Pump(q, du, at, inflight \ {d}, rest)
        BY <1>3, <2>3 DEF OnFailure
      <3>2. /\ q \subseteq Devices /\ du \in [Devices -> Int] /\ at \in [Devices -> 0 .. MaxShift + 1]
            /\ registered' \subseteq Devices /\ reporting' \subseteq registered'
        BY <1>1, <1>3, <2>1, <3>1 DEF TypeOK
      <3>3. \A e \in q : at[e] = 0 \/ spacing[e] = 0 \/ spacing[e] <= du[e]
        <4> SUFFICES ASSUME NEW e \in q
                     PROVE  at[e] = 0 \/ spacing[e] = 0 \/ spacing[e] <= du[e]
          OBVIOUS
        <4>1. CASE e \in queue
          BY <4>1, <1>1 DEF IInv, TypeOK, Spaced
        <4>2. CASE e \notin queue
          <5>1. e = d /\ du[e] = RetryBase
            BY <4>2, <1>1, <2>1 DEF TypeOK
          <5>2. spacing[e] \in 0 .. RetryBase
            BY <5>1, <1>1, <2>1 DEF TypeOK
          <5> QED BY <5>1, <5>2, <1>1
        <4> QED BY <4>1, <4>2
      <3>4. /\ queue' = q \cap (registered' \ reporting')
            /\ inflight' \subseteq Devices
            /\ due' \in [Devices -> Int]
            /\ attempts' \in [Devices -> 0 .. MaxShift + 1]
            /\ credit' \in [Devices -> 0 .. CreditTime]
            /\ spacing' \in [Devices -> 0 .. RetryBase]
            /\ WindowHeld' /\ Spaced' /\ Paced
        <4> HIDE DEF q, du, at
        <4>1. inflight \ {d} \subseteq inflight
          OBVIOUS
        <4> QED BY <4>1, <3>1, <3>2, <3>3, <1>1, PumpLeaves
      <3>5. TypeOK'
        BY <1>1, <1>3, <3>2, <3>4 DEF TypeOK
      <3>6. NeverGivesUp'
        BY <1>3, <3>1, <3>4 DEF IInv, NeverGivesUp
      <3>7. TrueFlag'
        BY <3>1 DEF IInv, TrueFlag
      <3>8. AddressKnown'
        BY <1>3 DEF IInv, AddressKnown
      <3> QED BY <3>4, <3>5, <3>6, <3>7, <3>8 DEF IInv
    <2> QED BY <2>2, <2>3
  <1> QED BY <1>2, <1>3 DEF OnReportingResult

LEMMA HeartbeatKeeps == IInv /\ Heartbeat => IInv' /\ Paced
  <1> SUFFICES ASSUME IInv, Heartbeat PROVE IInv' /\ Paced
    OBVIOUS
  <1>1. TypeOK /\ WindowHeld
    BY DEF IInv
  <1>2. UNCHANGED <<registered, short, reporting, addr, proven, misled, orphans>>
    BY DEF Heartbeat
  <1>3. /\ queue' = queue \cap (registered' \ reporting')
        /\ inflight' \subseteq Devices
        /\ due' \in [Devices -> Int]
        /\ attempts' \in [Devices -> 0 .. MaxShift + 1]
        /\ credit' \in [Devices -> 0 .. CreditTime]
        /\ spacing' \in [Devices -> 0 .. RetryBase]
        /\ WindowHeld' /\ Spaced' /\ Paced
    <2>1. Pump(queue, due, attempts, inflight, chains) /\ inflight \subseteq inflight
      BY DEF Heartbeat
    <2>2. /\ queue \subseteq Devices /\ due \in [Devices -> Int]
          /\ attempts \in [Devices -> 0 .. MaxShift + 1]
          /\ registered' \subseteq Devices /\ reporting' \subseteq registered'
      BY <1>1, <1>2 DEF TypeOK
    <2>3. \A e \in queue : attempts[e] = 0 \/ spacing[e] = 0 \/ spacing[e] <= due[e]
      BY DEF IInv, Spaced
    <2> QED BY <2>1, <2>2, <2>3, <1>1, PumpLeaves
  <1>4. TypeOK'
    BY <1>1, <1>2, <1>3 DEF TypeOK
  <1>5. NeverGivesUp' /\ TrueFlag' /\ AddressKnown'
    BY <1>2, <1>3 DEF IInv, NeverGivesUp, TrueFlag, AddressKnown
  <1> QED BY <1>3, <1>4, <1>5 DEF IInv

(* A device that is dropped takes all it knows with it.                    *)
LEMMA DroppedKeeps ==
  ASSUME IInv, NEW d \in Devices, Dropped(d),
         addr' \in {addr, [addr EXCEPT ![d] = Off]},
         misled' = misled, proven' = proven \ {d}
  PROVE  /\ registered' \subseteq Devices /\ reporting' \subseteq registered'
         /\ short' \in [Devices -> Shorts \cup {Off}]
         /\ addr' \in [Devices -> Shorts \cup {Off}]
         /\ orphans' \subseteq Devices /\ proven' \subseteq Devices
         /\ registered' \ reporting' = (registered \ reporting) \ {d}
         /\ TrueFlag' /\ AddressKnown'
  <1> USE DEF Dropped
  <1>1. TypeOK
    BY DEF IInv
  <1>2. AddressKnown'
    BY <1>1 DEF IInv, TypeOK, AddressKnown
  <1>3. TrueFlag'
    BY DEF IInv, TrueFlag
  <1> QED BY <1>1, <1>2, <1>3 DEF TypeOK

LEMMA NewsKeeps ==
  ASSUME IInv, NEW d \in Devices,
         \/ Forget(d)
         \/ \E s \in Shorts : Joins(d, s)
         \/ \E rejoin \in BOOLEAN : Leaves(d, rejoin)
  PROVE  IInv' /\ Paced
  <1>1. TypeOK /\ Off \notin Shorts /\ MaxShift \in Nat
    BY ReportingAssumption DEF IInv
  <1>2. ASSUME NEW rejoin \in BOOLEAN, Leaves(d, rejoin) PROVE IInv' /\ Paced
    <2>1. addr' = [addr EXCEPT ![d] = Off]
          /\ proven' = IF rejoin THEN proven ELSE proven \ {d}
      BY <1>2 DEF Leaves
    <2>2. CASE OnDeviceLeft(d, rejoin) /\ d \in registered /\ ~ rejoin
      <3>1. /\ Dropped(d) /\ queue' = queue \ {d} /\ proven' = proven \ {d}
            /\ due' = [due EXCEPT ![d] = 0] /\ attempts' = [attempts EXCEPT ![d] = 0]
            /\ UNCHANGED <<inflight, credit, chains, spacing, misled>>
        BY <2>1, <2>2 DEF OnDeviceLeft
      <3>2. /\ registered' \subseteq Devices /\ reporting' \subseteq registered'
            /\ short' \in [Devices -> Shorts \cup {Off}]
            /\ addr' \in [Devices -> Shorts \cup {Off}]
            /\ orphans' \subseteq Devices /\ proven' \subseteq Devices
            /\ registered' \ reporting' = (registered \ reporting) \ {d}
            /\ TrueFlag' /\ AddressKnown'
        BY <2>1, <3>1, DroppedKeeps
      <3>3. orphans' = orphans \ {d}
        BY <3>1 DEF Dropped
      <3>4. NeverGivesUp' /\ WindowHeld' /\ Spaced' /\ Paced
        BY <1>1, <3>1, <3>2, <3>3 DEF IInv, TypeOK, NeverGivesUp, WindowHeld, Spaced, Paced, Asked
      <3>5. /\ queue' \subseteq Devices /\ due' \in [Devices -> Int]
            /\ attempts' \in [Devices -> 0 .. MaxShift + 1]
        BY <1>1, <3>1 DEF TypeOK
      <3>6. TypeOK'
        BY <1>1, <3>1, <3>2, <3>5 DEF TypeOK
      <3> QED BY <3>2, <3>4, <3>6 DEF IInv
    <2>3. CASE /\ UNCHANGED <<registry, requests, chains, orphans, spacing>>
               /\ misled' = misled \/ misled' = misled \cup {d}
               /\ d \in registered => rejoin \/ d \in misled'
      <3>1. TypeOK'
        BY <1>1, <2>1, <2>3 DEF TypeOK
      <3>2. TrueFlag'
        BY <1>1, <2>1, <2>3 DEF IInv, TrueFlag, TypeOK
      <3>3. AddressKnown'
        BY <1>1, <2>1, <2>3 DEF IInv, TypeOK, AddressKnown
      <3>4. NeverGivesUp' /\ WindowHeld' /\ Spaced' /\ Paced
        BY <2>3 DEF IInv, NeverGivesUp, WindowHeld, Spaced, Paced, Asked
      <3> QED BY <3>1, <3>2, <3>3, <3>4 DEF IInv
    <2> QED BY <1>2, <2>2, <2>3 DEF Leaves, OnDeviceLeft
  <1>3. CASE Forget(d)
    <2> USE <1>3 DEF Forget
    <2>1. /\ registered' \subseteq Devices /\ reporting' \subseteq registered'
          /\ short' \in [Devices -> Shorts \cup {Off}]
          /\ addr' \in [Devices -> Shorts \cup {Off}]
          /\ orphans' \subseteq Devices /\ proven' \subseteq Devices
          /\ registered' \ reporting' = (registered \ reporting) \ {d}
          /\ TrueFlag' /\ AddressKnown'
      BY DroppedKeeps
    <2>2. orphans' = orphans \ {d}
      BY DEF Dropped
    <2>3. NeverGivesUp' /\ WindowHeld' /\ Spaced' /\ Paced
      BY <2>1, <2>2 DEF IInv, NeverGivesUp, WindowHeld, Spaced, Paced, Asked
    <2>4. TypeOK'
      BY <1>1, <2>1 DEF TypeOK
    <2> QED BY <2>1, <2>3, <2>4 DEF IInv
  <1>4. ASSUME NEW s \in Shorts, Joins(d, s) PROVE IInv' /\ Paced
    <2>1. /\ \A e \in Devices \ {d} : addr[e] # s
          /\ addr' = [addr EXCEPT ![d] = s] /\ proven' = proven
          /\ misled' = misled \cup {e \in registered \ {d} : short[e] = s}
      BY <1>4 DEF Joins
    <2>2. CASE OnDeviceJoined(d, s)
      BY <2>1, <2>2, JoinedKeeps
    <2>3. CASE UNCHANGED <<registry, requests, chains, orphans, spacing>>
      <3>1. TypeOK'
        BY <1>1, <2>1, <2>3 DEF TypeOK
      <3>2. TrueFlag'
        BY <2>1, <2>3 DEF IInv, TrueFlag
      <3>3. AddressKnown'
        BY <2>1, <2>3, JoinKnown
      <3>4. NeverGivesUp' /\ WindowHeld' /\ Spaced' /\ Paced
        BY <2>3 DEF IInv, NeverGivesUp, WindowHeld, Spaced, Paced, Asked
      <3> QED BY <3>1, <3>2, <3>3, <3>4 DEF IInv
    <2> QED BY <1>4, <2>2, <2>3 DEF Joins
  <1> QED BY <1>2, <1>3, <1>4

LEMMA RestartKeeps == IInv /\ (HubRestarts \/ CoordinatorRestarts) => IInv' /\ Paced
  <1> SUFFICES ASSUME IInv, HubRestarts \/ CoordinatorRestarts PROVE IInv' /\ Paced
    OBVIOUS
  <1>1. TypeOK /\ MaxShift \in Nat /\ CreditTime \in Nat /\ Window \in Nat
    BY ReportingAssumption, TimesAssumption DEF IInv
  <1>2. CASE HubRestarts
    <2>1. TypeOK' /\ NeverGivesUp' /\ TrueFlag' /\ AddressKnown' /\ Spaced'
      BY <1>1, <1>2 DEF HubRestarts, IInv, TypeOK, NeverGivesUp, TrueFlag, AddressKnown, Spaced
    <2>2. WindowHeld'
      BY <1>1, <1>2, FS_EmptySet DEF HubRestarts, WindowHeld
    <2>3. Paced
      BY <1>2 DEF HubRestarts, Paced, Asked
    <2> QED BY <2>1, <2>2, <2>3 DEF IInv
  <1>3. CASE CoordinatorRestarts
    BY <1>1, <1>3 DEF CoordinatorRestarts, IInv, TypeOK, WindowHeld, NeverGivesUp,
                      TrueFlag, AddressKnown, Spaced, Paced, Asked
  <1> QED BY <1>2, <1>3

LEMMA OutcomeKeeps ==
  ASSUME IInv, NEW s, NEW ok \in BOOLEAN, NEW STATE rest,
         proven \subseteq proven', proven' \subseteq Devices,
         ok => \E e \in proven' : addr[e] = s /\ s # Off,
         Outcome(s, ok, rest)
  PROVE  IInv' /\ Paced
  <1>1. UNCHANGED <<addr, misled>>
    BY DEF Outcome
  <1>2. CASE OnReportingResult(s, ok, rest)
    BY <1>1, <1>2, ResultKeeps
  <1>3. CASE UNCHANGED <<registry, requests, orphans, spacing>>
    BY <1>1, <1>3 DEF IInv, TypeOK, WindowHeld, NeverGivesUp, TrueFlag, AddressKnown, Spaced,
                     Paced, Asked
  <1> QED BY <1>2, <1>3 DEF Outcome

LEMMA ChainKeeps ==
  ASSUME IInv, NEW c, BindOk(c) \/ ConfigureOk(c) \/ Fails(c) \/ Expires(c)
  PROVE  IInv' /\ Paced
  <1>1. TypeOK /\ Off \notin Shorts
    BY ReportingAssumption DEF IInv
  <1>2. CASE UNCHANGED <<registry, requests, addr, bounds, proven, misled, orphans, spacing>>
    BY <1>2 DEF IInv, TypeOK, WindowHeld, NeverGivesUp, TrueFlag, AddressKnown, Spaced,
                     Paced, Asked
  <1>3. CASE ConfigureOk(c)
    <2>1. PICK d \in Devices : addr[d] = c.short /\ proven' = proven \cup {d}
      BY <1>3 DEF ConfigureOk
    <2>2. proven \subseteq proven' /\ proven' \subseteq Devices
      BY <1>1, <2>1 DEF TypeOK
    <2>3. \E e \in proven' : addr[e] = c.short /\ c.short # Off
      BY <1>1, <1>3, <2>1 DEF ConfigureOk
    <2> QED BY <1>3, <2>2, <2>3, OutcomeKeeps DEF ConfigureOk
  <1>4. ASSUME proven' = proven, NEW STATE rest, Outcome(c.short, FALSE, rest)
        PROVE  IInv' /\ Paced
    <2>1. proven \subseteq proven' /\ proven' \subseteq Devices
      BY <1>1, <1>4 DEF TypeOK
    <2> QED BY <1>4, <2>1, OutcomeKeeps
  <1> QED BY <1>2, <1>3, <1>4 DEF BindOk, Fails, Expires

LEMMA TickKeeps == IInv /\ Tick => IInv' /\ Paced
  <1> SUFFICES ASSUME IInv, Tick PROVE IInv' /\ Paced
    OBVIOUS
  <1>1. TypeOK /\ CreditTime \in Nat /\ RetryBase \in Nat
    BY TimesAssumption DEF IInv
  <1>2. \A d \in Devices : /\ Later(d) \in Int
                           /\ d \in queue /\ due[d] > 0 => Later(d) = due[d] - 1
    <2> SUFFICES ASSUME NEW d \in Devices, d \in queue, ~ due[d] > 0
                 PROVE  Later(d) \in Int
      BY <1>1 DEF Later, TypeOK
    <2> DEFINE late == {e \in queue : due[d] <= due[e] /\ due[e] <= 0}
    <2>1. IsFiniteSet(Devices)
      BY ReportingAssumption
    <2>3. IsFiniteSet(late)
      BY <2>1, <1>1, FS_Subset DEF TypeOK
    <2>4. Cardinality(late) \in Nat
      BY <2>3, FS_CardinalityType
    <2> QED BY <2>4 DEF Later
  <1>3. TypeOK'
    BY <1>1, <1>2 DEF Tick, TypeOK
  <1>4. Spaced'
    <2> SUFFICES ASSUME NEW d \in queue
                 PROVE  attempts'[d] = 0 \/ spacing'[d] = 0 \/ spacing'[d] <= due'[d]
      BY DEF Tick, Spaced
    <2>1. d \in Devices /\ spacing[d] \in 0 .. RetryBase /\ due[d] \in Int
      BY <1>1 DEF TypeOK
    <2>2. attempts[d] = 0 \/ spacing[d] = 0 \/ spacing[d] <= due[d]
      BY DEF IInv, Spaced
    <2> QED BY <1>1, <1>2, <2>1, <2>2 DEF Tick
  <1>5. WindowHeld' /\ NeverGivesUp' /\ TrueFlag' /\ AddressKnown'
    BY DEF Tick, IInv, WindowHeld, NeverGivesUp, TrueFlag, AddressKnown
  <1>6. Paced
    <2> SUFFICES ASSUME NEW d \in Devices PROVE ~ Asked(d)
      BY DEF Paced
    <2>1. credit[d] \in 0 .. CreditTime
      BY <1>1 DEF TypeOK
    <2> QED BY <1>1, <2>1, TimesAssumption, ReportingAssumption DEF Tick, Asked
  <1> QED BY <1>3, <1>4, <1>5, <1>6 DEF IInv

-----------------------------------------------------------------------------
(* Every step keeps the inductive invariant and asks no device too soon.   *)
LEMMA StepKeeps == IInv /\ [Next]_vars => IInv' /\ (Paced \/ UNCHANGED vars)
  <1> SUFFICES ASSUME IInv, [Next]_vars PROVE IInv' /\ (Paced \/ UNCHANGED vars)
    OBVIOUS
  <1>1. CASE Heartbeat
    BY <1>1, HeartbeatKeeps
  <1>2. ASSUME NEW d \in Devices,
               \/ Forget(d)
               \/ \E s \in Shorts : Joins(d, s)
               \/ \E rejoin \in BOOLEAN : Leaves(d, rejoin)
        PROVE  IInv' /\ Paced
    BY <1>2, NewsKeeps
  <1>3. CASE HubRestarts \/ CoordinatorRestarts
    BY <1>3, RestartKeeps
  <1>4. ASSUME NEW c \in DOMAIN chains, BindOk(c) \/ ConfigureOk(c) \/ Fails(c) \/ Expires(c)
        PROVE  IInv' /\ Paced
    BY <1>4, ChainKeeps
  <1>5. CASE Tick
    BY <1>5, TickKeeps
  <1>6. CASE UNCHANGED vars
    BY <1>6 DEF vars, IInv, TypeOK, WindowHeld, NeverGivesUp, TrueFlag, AddressKnown, Spaced
  <1> QED BY <1>1, <1>2, <1>3, <1>4, <1>5, <1>6 DEF Next

(* The queue, the credits and the registry under the inductive invariant:  *)
(* nobody else has the address that the hub holds for a device which was   *)
(* not misled, and no retry comes too soon.                                *)
THEOREM Inductive == Spec => []IInv
  <1>1. IInv /\ [Next]_vars => IInv'
    BY StepKeeps
  <1> QED BY <1>1, InitHolds, PTL DEF Spec

(* pump_reporting keeps the credits within _REPORTING_WINDOW, however many *)
(* devices join at once and in whatever order the results come.            *)
THEOREM WindowBound == Spec => []WindowHeld
  <1>1. IInv => WindowHeld
    BY DEF IInv
  <1> QED BY <1>1, Inductive, PTL

(* A device that does not report yet stays in _reporting_retry, but for    *)
(* those that a restart of the hub forgot.                                 *)
THEOREM NeverGivenUp == Spec => []NeverGivesUp
  <1>1. IInv => NeverGivesUp
    BY DEF IInv
  <1> QED BY <1>1, Inductive, PTL

(* The flag "reporting" that _on_reporting_result sets from an answer that *)
(* names a short address is that of the device which answered, also when a *)
(* device leaves to rejoin, until another is given the address it had.     *)
THEOREM FlagsAreTrue == Spec => []TrueFlag
  <1>1. IInv => TrueFlag
    BY DEF IInv
  <1> QED BY <1>1, Inductive, PTL

(* The backoff of _request_reporting: after its first request since a join *)
(* a device is not asked again before RetryBase has passed.                *)
THEOREM NoRequestStorm == Spec => NoStorm
  <1>1. IInv /\ [Next]_vars => [Paced]_vars
    BY StepKeeps
  <1> QED BY <1>1, Inductive, PTL DEF Spec, NoStorm

-----------------------------------------------------------------------------
(* The circuit breaker.                                                    *)

Kept == SetAside /\ OpenForCause /\ ReprobeForCause
BreakerInv == BreakerTypeOK /\ Kept

(* The variables stay in their types.                                      *)
LEMMA BreakerType == BreakerTypeOK /\ [BreakerNext]_breakerVars => BreakerTypeOK'
<1> SUFFICES ASSUME BreakerTypeOK, [BreakerNext]_breakerVars PROVE BreakerTypeOK'
  OBVIOUS
<1> USE TasksAssumption, ThresholdAssumption DEF BreakerTypeOK, Tasks, Pingers, reprobes
<1>1. CASE WatchdogPings
  BY <1>1 DEF WatchdogPings, StartPing, Sent
<1>2. CASE ProbePings
  BY <1>2 DEF ProbePings, StartPing, Sent
<1>3. ASSUME NEW p \in Pingers, PingTimesOut(p) PROVE BreakerTypeOK'
  <2>1. down' \in BOOLEAN /\ probing' \in BOOLEAN /\ link' \in BOOLEAN /\ relatched' \in BOOLEAN
    BY <1>3, Zenon DEF PingTimesOut
  <2>2. timeouts' \in 0 .. Threshold
    BY <1>3 DEF PingTimesOut
  <2>3. QED
    BY <1>3, <2>1, <2>2 DEF PingTimesOut, Ended
<1>4. ASSUME NEW c \in Commands, StartCommand(c) PROVE BreakerTypeOK'
  BY <1>4 DEF StartCommand, Sent
<1>5. ASSUME NEW c \in Commands, CommandTimesOut(c) PROVE BreakerTypeOK'
  <2>1. probing' \in BOOLEAN
    BY <1>5, Zenon DEF CommandTimesOut, ProbeLink
  <2>2. QED
    BY <1>5, <2>1 DEF CommandTimesOut, Ended, breaker
<1>6. ASSUME NEW t \in Tasks, ReplyArrives(t) PROVE BreakerTypeOK'
  <2>1. down' \in BOOLEAN /\ relatched' \in BOOLEAN
    BY <1>6, Zenon DEF ReplyArrives, ValidFrame
  <2>2. QED
    BY <1>6, <2>1 DEF ReplyArrives, ValidFrame
<1>7. ASSUME NEW t \in Tasks, Returns(t) PROVE BreakerTypeOK'
  <2>1. probing' \in BOOLEAN
    BY <1>7, Zenon DEF Returns
  <2>2. QED
    BY <1>7, <2>1 DEF Returns, Ended, breaker
<1>8. ASSUME NEW t \in Tasks, LoseReply(t) PROVE BreakerTypeOK'
  BY <1>8 DEF LoseReply, breaker
<1>9. CASE EventArrives
  <2>1. down' \in BOOLEAN /\ relatched' \in BOOLEAN
    BY <1>9, Zenon DEF EventArrives, ValidFrame
  <2>2. QED
    BY <1>9, <2>1 DEF EventArrives, ValidFrame, tasks
<1>10. CASE LinkChanges
  BY <1>10 DEF LinkChanges, breaker
<1>11. CASE UNCHANGED breakerVars
  BY <1>11 DEF breakerVars, breaker, tasks
<1>12. QED
  BY <1>1, <1>2, <1>3, <1>4, <1>5, <1>6, <1>7, <1>8, <1>9, <1>10, <1>11
     DEF BreakerNext

(* A ping that sets the breaker aside is outstanding until it is answered, *)
(* which resets the count, or times out, which opens the breaker; and one  *)
(* that found it open below the threshold was out when the last frame came.*)
LEMMA BreakerKeeps ==
  BreakerTypeOK /\ Kept /\ [BreakerNext]_breakerVars
    => Kept'
<1> SUFFICES ASSUME BreakerTypeOK, Kept, [BreakerNext]_breakerVars
             PROVE  Kept'
  OBVIOUS
<1> USE TasksAssumption, ThresholdAssumption
        DEF BreakerTypeOK, Kept, SetAside, OpenForCause, ReprobeForCause, Tasks, Pingers, reprobes
<1>1. CASE WatchdogPings
  BY <1>1 DEF WatchdogPings, StartPing, Sent
<1>2. CASE ProbePings
  BY <1>2 DEF ProbePings, StartPing, Sent
<1>3. ASSUME NEW p \in Pingers, PingTimesOut(p)
      PROVE  Kept'
  <2>1. timeouts' >= Threshold => down'
    BY <1>3, Zenon DEF PingTimesOut
  <2>2. ASSUME timeouts' < Threshold
        PROVE  (down => relatched) /\ (p \in wasDown => relatched \/ p \in stale)
    <3>1. timeouts < Threshold
      BY <1>3, <2>2 DEF PingTimesOut
    <3>. QED
      BY <3>1
  <2>3. ASSUME timeouts' < Threshold, down' PROVE relatched'
    <3>1. ~ (timeouts' >= Threshold)
      BY <1>3, <2>3 DEF PingTimesOut
    <3>2. down \/ p \in wasDown
      BY <1>3, <2>3, <3>1, Zenon DEF PingTimesOut
    <3>. QED
      BY <1>3, <2>2, <2>3, <3>2, Zenon DEF PingTimesOut
  <2>4. ASSUME timeouts' < Threshold PROVE relatched' \/ wasDown' \subseteq stale'
    <3>1. timeouts < Threshold
      BY <1>3, <2>4 DEF PingTimesOut
    <3>2. relatched \/ wasDown \subseteq stale
      BY <3>1
    <3>3. wasDown' = wasDown \ {p} /\ stale' = stale \ {p} /\ (relatched => relatched')
      BY <1>3, Zenon DEF PingTimesOut, Ended
    <3>. QED
      BY <3>2, <3>3
  <2>5. timeouts' \in Int
    BY <1>3 DEF PingTimesOut
  <2>. QED
    BY <2>1, <2>3, <2>4, <2>5
<1>4. ASSUME NEW c \in Commands, StartCommand(c)
      PROVE  Kept'
  BY <1>4 DEF StartCommand, Sent
<1>5. ASSUME NEW c \in Commands, CommandTimesOut(c)
      PROVE  Kept'
  BY <1>5 DEF CommandTimesOut, Ended, breaker
<1>6. ASSUME NEW t \in Tasks, ReplyArrives(t)
      PROVE  Kept'
  BY <1>6 DEF ReplyArrives, ValidFrame
<1>7. ASSUME NEW t \in Tasks, Returns(t)
      PROVE  Kept'
  BY <1>7 DEF Returns, Ended, breaker
<1>8. ASSUME NEW t \in Tasks, LoseReply(t)
      PROVE  Kept'
  BY <1>8 DEF LoseReply, breaker
<1>9. CASE EventArrives
  BY <1>9 DEF EventArrives, ValidFrame, tasks
<1>10. CASE LinkChanges
  BY <1>10 DEF LinkChanges, breaker
<1>11. CASE UNCHANGED breakerVars
  BY <1>11 DEF breakerVars, breaker, tasks
<1>12. QED
  BY <1>1, <1>2, <1>3, <1>4, <1>5, <1>6, <1>7, <1>8, <1>9, <1>10, <1>11
     DEF BreakerNext

(* The inductive invariant of the breaker.                                 *)
THEOREM BreakerInductive == BreakerSpec => []BreakerInv
<1>1. BreakerInit => BreakerInv
  <2> SUFFICES ASSUME BreakerInit PROVE BreakerInv
    OBVIOUS
  <2>1. BreakerTypeOK
    <3>1. down \in BOOLEAN /\ probing \in BOOLEAN /\ link \in BOOLEAN
      BY Zenon DEF BreakerInit
    <3>2. timeouts \in 0 .. Threshold /\ faults \in 0 .. MaxFaults
      BY ThresholdAssumption DEF BreakerInit
    <3>3. QED
      BY <3>1, <3>2 DEF BreakerInit, BreakerTypeOK
  <2>2. Kept
    BY ThresholdAssumption DEF BreakerInit, Kept, SetAside, OpenForCause, ReprobeForCause
  <2>3. QED
    BY <2>1, <2>2 DEF BreakerInv
<1>2. BreakerInv /\ [BreakerNext]_breakerVars => BreakerInv'
  BY BreakerType, BreakerKeeps DEF BreakerInv
<1>3. QED
  BY <1>1, <1>2, PTL DEF BreakerSpec

(* Once the threshold of silent pings is reached, ping()'s setting the     *)
(* breaker aside leaves no gap after it.                                   *)
THEOREM NoGap == BreakerSpec => []FailsFastBetweenProbes
<1>1. BreakerInv => FailsFastBetweenProbes
  BY DEF BreakerInv, Kept, SetAside, FailsFastBetweenProbes
<1>2. QED
  BY <1>1, BreakerInductive, PTL

(* process_line's reset and ping()'s was_down: an open breaker means so    *)
(* many silent pings since the last valid frame, or a silent re-probe that *)
(* was sent before it.                                                     *)
THEOREM OpensForCause == BreakerSpec => []OpenForCause
<1>1. BreakerInv => OpenForCause
  BY DEF BreakerInv, Kept
<1>2. QED
  BY <1>1, BreakerInductive, PTL
=============================================================================
