---------------------------- MODULE PlannerProofs ----------------------------
(***************************************************************************)
(* What is proved of the calendars, the zmanim, the clock of the device    *)
(* and the planner, for every year, every sun, every schedule and every    *)
(* place.  PlannerInv carries WindowsPlanned and ShowsWhatIsSet; the       *)
(* arithmetic of the molad carries CalendarSound and FestivalsAlways; the  *)
(* parts before them are facts about the operators.                        *)
(***************************************************************************)
EXTENDS Planner, FiniteSetTheorems, TLAPS

-----------------------------------------------------------------------------
(* Gregorian dates                                                         *)

LEMMA MaxIs ==
  ASSUME NEW S, NEW x \in S, x \in Int, \A z \in S : z \in Int /\ z <= x
  PROVE  Max(S) = x
<1>1. \A z \in S : (\A v \in S : z >= v) => z = x
  BY SMT
<1>2. \A z \in S : x >= z
  BY SMT
<1> QED
  BY <1>1, <1>2 DEF Max

YearDays(y) == IF IsGregorianLeap(y) THEN 366 ELSE 365
NewYearsDay(y) == GregorianDay(y, 1, 1)
LeapDays(p) == p \div 4 - p \div 100 + p \div 400

LEMMA NewYearsDayIs ==
  ASSUME NEW y \in Int
  PROVE  /\ NewYearsDay(y) = 365 * (y - 1) + LeapDays(y - 1) + 1
         /\ NewYearsDay(y) \in Int /\ LeapDays(y - 1) \in Int
<1>1. DaysBefore(y, 1) = 0
  BY DEF DaysBefore
<1> QED
  BY <1>1 DEF NewYearsDay, GregorianDay, LeapDays

LEMMA YearLength ==
  ASSUME NEW y \in Int
  PROVE  NewYearsDay(y + 1) = NewYearsDay(y) + YearDays(y)
<1> DEFINE p == y - 1
<1>1. /\ y \div 4 - p \div 4 = IF y % 4 = 0 THEN 1 ELSE 0
      /\ y \div 100 - p \div 100 = IF y % 100 = 0 THEN 1 ELSE 0
      /\ y \div 400 - p \div 400 = IF y % 400 = 0 THEN 1 ELSE 0
  OBVIOUS
<1>2. (y % 400 = 0 => y % 100 = 0) /\ (y % 100 = 0 => y % 4 = 0)
  OBVIOUS
<1>3. /\ NewYearsDay(y) = 365 * (y - 1) + LeapDays(y - 1) + 1
      /\ NewYearsDay(y + 1) = 365 * y + LeapDays(y) + 1
  <2>1. (y + 1) - 1 = y
    OBVIOUS
  <2> QED
    BY <2>1, NewYearsDayIs
<1>4. LeapDays(y) - LeapDays(p) = IF IsGregorianLeap(y) THEN 1 ELSE 0
  BY <1>1, <1>2 DEF LeapDays, IsGregorianLeap
<1>5. LeapDays(y) \in Int /\ LeapDays(p) \in Int
  BY DEF LeapDays
<1> QED
  BY <1>3, <1>4, <1>5 DEF YearDays

(* The guess of Gregorian is at most two years too high.                   *)
LEMMA YearGuess ==
  ASSUME NEW n, KnownDay(n)
  PROVE  LET guess == (n - 1) \div 365 + 1
         IN  /\ guess \in Int /\ guess >= 1
             /\ NewYearsDay(guess - 2) <= n /\ n < NewYearsDay(guess + 1)
<1> DEFINE guess == (n - 1) \div 365 + 1
<1>1. /\ n \in Int /\ guess \in Int /\ 1 <= guess /\ guess <= 2700
      /\ 365 * (guess - 1) <= n - 1 /\ n - 1 < 365 * guess
  <2>1. n \in Int /\ 1 <= n /\ n <= 985500
    BY DEF KnownDay
  <2> QED
    BY <2>1
<1> HIDE DEF guess
<1>2. NewYearsDay(guess + 1) = 365 * guess + LeapDays(guess) + 1
  <2>1. (guess + 1) - 1 = guess
    BY <1>1
  <2> QED
    BY <1>1, <2>1, NewYearsDayIs
<1>3. LeapDays(guess) >= 0
  BY <1>1 DEF LeapDays
<1>4. NewYearsDay(guess - 2) = 365 * (guess - 3) + LeapDays(guess - 3) + 1
  <2>1. (guess - 2) - 1 = guess - 3
    BY <1>1
  <2> QED
    BY <1>1, <2>1, NewYearsDayIs
<1>5. LeapDays(guess - 3) <= 730
  BY <1>1 DEF LeapDays
<1>6. LeapDays(guess) \in Int /\ LeapDays(guess - 3) \in Int
  BY <1>1 DEF LeapDays
<1> QED
  BY <1>1, <1>2, <1>3, <1>4, <1>5, <1>6 DEF guess

LEMMA YearOfDay ==
  ASSUME NEW n, KnownDay(n)
  PROVE  LET y == Gregorian(n)[1]
         IN  /\ y \in Nat \ {0}
             /\ NewYearsDay(y) <= n /\ n < NewYearsDay(y + 1)
<1> DEFINE guess == (n - 1) \div 365 + 1
<1> DEFINE S == {q \in (guess - 2) .. (guess + 1) : NewYearsDay(q) <= n}
<1>0. n \in Int
  BY DEF KnownDay
<1>1. /\ guess \in Int /\ guess >= 1
      /\ NewYearsDay(guess - 2) <= n /\ n < NewYearsDay(guess + 1)
  BY YearGuess
<1>2. Gregorian(n)[1] = Max(S)
  BY DEF Gregorian, NewYearsDay
<1> HIDE DEF guess
<1>3. PICK y \in S : /\ y \in Int /\ \A z \in S : z \in Int /\ z <= y
                     /\ y \in {guess - 2, guess - 1, guess}
  <2>0. NewYearsDay(guess + 1) \in Int 
    BY <1>1, NewYearsDayIs
  <2>1. guess - 2 \in S /\ guess + 1 \notin S
    BY <1>0, <1>1, <2>0
  <2>2. \A z \in S : z \in {guess - 2, guess - 1, guess}
    BY <1>1, <2>1
  <2> HIDE DEF S
  <2> QED
    BY <1>1, <2>1, <2>2
<1>4. Gregorian(n)[1] = y
  BY <1>2, <1>3, MaxIs
<1>5. NewYearsDay(y) <= n
  OBVIOUS
<1>6. n < NewYearsDay(y + 1)
  <2>1. y + 1 \in (guess - 2) .. (guess + 1) /\ y + 1 \notin S
    BY <1>1, <1>3
  <2>2. NewYearsDay(y + 1) \in Int
    BY <1>3, NewYearsDayIs
  <2> QED
    BY <1>0, <2>1, <2>2
<1>7. y >= 1
  <2>1. SUFFICES ASSUME y < 1 PROVE FALSE
    BY <1>3
  <2>2. y = -1 \/ y = 0
    BY <1>1, <1>3, <2>1
  <2>3. NewYearsDay(y + 1) = 365 * y + LeapDays(y) + 1
    <3>1. (y + 1) - 1 = y /\ y + 1 \in Int
      BY <1>3
    <3> QED
      BY <3>1, NewYearsDayIs
  <2>4. NewYearsDay(y + 1) <= 1
    BY <2>2, <2>3 DEF LeapDays
  <2> QED
    <3>1. NewYearsDay(y + 1) \in Int /\ n >= 1
      BY <2>2, <2>3 DEF LeapDays, KnownDay
    <3> QED
      BY <1>0, <1>6, <2>4, <3>1
<1> QED
  BY <1>3, <1>4, <1>5, <1>6, <1>7

\* The lengths of the months and the days before them, of either kind of year.
MonthDays(leap, m) == <<31, IF leap THEN 29 ELSE 28, 31, 30, 31, 30, 31, 31, 30, 31, 30, 31>>[m]
Preceding(leap, m) ==
  <<0, 31, 59, 90, 120, 151, 181, 212, 243, 273, 304, 334>>[m] + (IF m > 2 /\ leap THEN 1 ELSE 0)

LEMMA MonthsAre ==
  ASSUME NEW y, NEW m
  PROVE  /\ GregorianMonth(y, m) = MonthDays(IsGregorianLeap(y), m)
         /\ DaysBefore(y, m) = Preceding(IsGregorianLeap(y), m)
BY DEF GregorianMonth, DaysBefore, MonthDays, Preceding

LEMMA LeapBoolean == ASSUME NEW y PROVE IsGregorianLeap(y) \in BOOLEAN
BY DEF IsGregorianLeap

LEMMA MonthTable ==
  ASSUME NEW leap \in BOOLEAN, NEW m \in 1 .. 12
  PROVE  /\ MonthDays(leap, m) \in 28 .. 31
         /\ Preceding(leap, m) \in 0 .. 335
         /\ Preceding(leap, 1) = 0
         /\ m < 12 => Preceding(leap, m + 1) = Preceding(leap, m) + MonthDays(leap, m)
         /\ m = 12 => Preceding(leap, m) + MonthDays(leap, m) = IF leap THEN 366 ELSE 365
<1>1. m \in {1, 2, 3, 4, 5, 6, 7, 8, 9, 10, 11, 12}
  OBVIOUS
<1>2. CASE leap
  BY <1>1, <1>2 DEF MonthDays, Preceding
<1>3. CASE ~ leap
  BY <1>1, <1>3 DEF MonthDays, Preceding
<1> QED
  BY <1>2, <1>3

LEMMA MonthOrder ==
  ASSUME NEW leap \in BOOLEAN, NEW m \in 1 .. 12, NEW k \in 1 .. 12, m < k
  PROVE  Preceding(leap, m) + MonthDays(leap, m) <= Preceding(leap, k)
<1>1. m \in {1, 2, 3, 4, 5, 6, 7, 8, 9, 10, 11, 12}
  OBVIOUS
<1>2. k \in {1, 2, 3, 4, 5, 6, 7, 8, 9, 10, 11, 12}
  OBVIOUS
<1>3. CASE leap
  BY <1>1, <1>2, <1>3 DEF MonthDays, Preceding
<1>4. CASE ~ leap
  BY <1>1, <1>2, <1>4 DEF MonthDays, Preceding
<1> QED
  BY <1>3, <1>4

LEMMA DateIn ==
  ASSUME NEW y \in Int, NEW m \in 1 .. 12, NEW d \in 1 .. GregorianMonth(y, m)
  PROVE  /\ GregorianDay(y, m, d) = NewYearsDay(y) + DaysBefore(y, m) + d - 1
         /\ GregorianDay(y, m, d) \in Int
         /\ NewYearsDay(y) <= GregorianDay(y, m, d)
         /\ GregorianDay(y, m, d) < NewYearsDay(y + 1)
         /\ d \in Int /\ DaysBefore(y, m) \in Int /\ GregorianMonth(y, m) \in Int
<1> DEFINE leap == IsGregorianLeap(y)
<1>1. /\ leap \in BOOLEAN
      /\ GregorianMonth(y, m) = MonthDays(leap, m) /\ DaysBefore(y, m) = Preceding(leap, m)
      /\ YearDays(y) = IF leap THEN 366 ELSE 365
  BY MonthsAre, LeapBoolean DEF YearDays
<1> HIDE DEF leap
<1>2. /\ MonthDays(leap, m) \in 28 .. 31 /\ Preceding(leap, m) \in 0 .. 335
      /\ Preceding(leap, m) + MonthDays(leap, m) <= IF leap THEN 366 ELSE 365
  <2>1. CASE m = 12
    BY <1>1, <2>1, MonthTable
  <2>2. CASE m # 12
    <3>1. m < 12 /\ 12 \in 1 .. 12
      BY <2>2
    <3>2. Preceding(leap, m) + MonthDays(leap, m) <= Preceding(leap, 12)
      BY <1>1, <3>1, MonthOrder
    <3>3. Preceding(leap, 12) <= 335 /\ Preceding(leap, 12) \in Int
      BY <1>1, <3>1, MonthTable
    <3>4. MonthDays(leap, m) \in 28 .. 31 /\ Preceding(leap, m) \in 0 .. 335
      BY <1>1, MonthTable
    <3> QED
      BY <3>2, <3>3, <3>4
  <2> QED
    BY <2>1, <2>2
<1>3. /\ NewYearsDay(y) = 365 * (y - 1) + LeapDays(y - 1) + 1
      /\ NewYearsDay(y) \in Int /\ LeapDays(y - 1) \in Int
      /\ NewYearsDay(y + 1) = NewYearsDay(y) + YearDays(y)
  BY NewYearsDayIs, YearLength
<1>4. d \in Int /\ 1 <= d /\ d <= MonthDays(leap, m)
  BY <1>1, <1>2
<1>5. GregorianDay(y, m, d) = 365 * (y - 1) + LeapDays(y - 1) + Preceding(leap, m) + d
  BY <1>1 DEF GregorianDay, LeapDays
<1> QED
  BY <1>1, <1>2, <1>3, <1>4, <1>5

LEMMA YearsGrow ==
  ASSUME NEW y \in Int, NEW z \in Int, y <= z
  PROVE  NewYearsDay(y) <= NewYearsDay(z)
<1>1. /\ NewYearsDay(y) = 365 * (y - 1) + LeapDays(y - 1) + 1
      /\ NewYearsDay(z) = 365 * (z - 1) + LeapDays(z - 1) + 1
  BY NewYearsDayIs
<1>2. LeapDays(y - 1) <= LeapDays(z - 1)
  BY DEF LeapDays
<1>3. LeapDays(y - 1) \in Int /\ LeapDays(z - 1) \in Int
  BY DEF LeapDays
<1> QED
  BY <1>1, <1>2, <1>3

LEMMA DatesDiffer ==
  ASSUME NEW y \in Int, NEW m \in 1 .. 12, NEW d \in 1 .. GregorianMonth(y, m),
         NEW z \in Int, NEW k \in 1 .. 12, NEW e \in 1 .. GregorianMonth(z, k)
  PROVE  GregorianDay(y, m, d) = GregorianDay(z, k, e) => y = z /\ m = k /\ d = e
<1> SUFFICES ASSUME GregorianDay(y, m, d) = GregorianDay(z, k, e)
             PROVE  y = z /\ m = k /\ d = e
  OBVIOUS
<1>1. /\ NewYearsDay(y) \in Int /\ NewYearsDay(y + 1) \in Int
      /\ NewYearsDay(z) \in Int /\ NewYearsDay(z + 1) \in Int
  <2>1. y + 1 \in Int /\ z + 1 \in Int
    OBVIOUS
  <2> QED
    BY <2>1, NewYearsDayIs
<1> DEFINE n == GregorianDay(y, m, d)
<1>9. /\ n \in Int
      /\ NewYearsDay(y) <= n /\ n < NewYearsDay(y + 1)
      /\ NewYearsDay(z) <= n /\ n < NewYearsDay(z + 1)
  <2>1. GregorianDay(z, k, e) \in Int /\ NewYearsDay(z) <= GregorianDay(z, k, e)
        /\ GregorianDay(z, k, e) < NewYearsDay(z + 1)
    BY DateIn
  <2>2. n \in Int /\ NewYearsDay(y) <= n /\ n < NewYearsDay(y + 1)
    BY DateIn
  <2> QED
    BY <2>1, <2>2
<1> HIDE DEF n
<1>2. y = z
  <2>1. ~ y < z
    <3>1. SUFFICES ASSUME y < z PROVE FALSE
      OBVIOUS
    <3>2. NewYearsDay(y + 1) <= NewYearsDay(z)
      BY <3>1, YearsGrow
    <3> QED
      BY <1>1, <1>9, <3>2
  <2>2. ~ z < y
    <3>1. SUFFICES ASSUME z < y PROVE FALSE
      OBVIOUS
    <3>2. NewYearsDay(z + 1) <= NewYearsDay(y)
      BY <3>1, YearsGrow
    <3> QED
      BY <1>1, <1>9, <3>2
  <2> QED
    BY <2>1, <2>2
<1> DEFINE leap == IsGregorianLeap(y)
<1>3. /\ leap \in BOOLEAN
      /\ GregorianMonth(y, m) = MonthDays(leap, m) /\ DaysBefore(y, m) = Preceding(leap, m)
      /\ GregorianMonth(y, k) = MonthDays(leap, k) /\ DaysBefore(y, k) = Preceding(leap, k)
  BY MonthsAre, LeapBoolean
<1> HIDE DEF leap
<1>4. Preceding(leap, m) + d = Preceding(leap, k) + e
  <2>1. /\ GregorianDay(y, m, d) = NewYearsDay(y) + Preceding(leap, m) + d - 1
        /\ GregorianDay(y, k, e) = NewYearsDay(y) + Preceding(leap, k) + e - 1
    BY <1>2, <1>3, DateIn
  <2>2. Preceding(leap, m) \in Int /\ Preceding(leap, k) \in Int /\ d \in Int /\ e \in Int
    BY <1>2, <1>3, MonthTable, DateIn
  <2> QED
    BY <1>1, <1>2, <2>1, <2>2
<1>5. /\ Preceding(leap, m) \in Int /\ MonthDays(leap, m) \in Int
      /\ Preceding(leap, k) \in Int /\ MonthDays(leap, k) \in Int
      /\ d \in Int /\ 1 <= d /\ d <= MonthDays(leap, m)
      /\ e \in Int /\ 1 <= e /\ e <= MonthDays(leap, k)
  <2>1. /\ MonthDays(leap, m) \in 28 .. 31 /\ MonthDays(leap, k) \in 28 .. 31
        /\ Preceding(leap, m) \in 0 .. 335 /\ Preceding(leap, k) \in 0 .. 335
    BY <1>3, MonthTable
  <2> QED
    BY <1>2, <1>3, <2>1
<1>6. ~ m < k
  <2>1. m < k => Preceding(leap, m) + MonthDays(leap, m) <= Preceding(leap, k)
    BY <1>3, MonthOrder
  <2> QED
    BY <1>4, <1>5, <2>1
<1>7. ~ k < m
  <2>1. k < m => Preceding(leap, k) + MonthDays(leap, k) <= Preceding(leap, m)
    BY <1>3, MonthOrder
  <2> QED
    BY <1>4, <1>5, <2>1
<1>8. m = k
  BY <1>6, <1>7
<1> QED
  BY <1>2, <1>4, <1>5, <1>8

(* No two dates are the same day.                                          *)
LEMMA DatesUnique ==
  ASSUME NEW y, NEW m, NEW d, IsGregorianDate(y, m, d),
         NEW z, NEW k, NEW e, IsGregorianDate(z, k, e),
         GregorianDay(y, m, d) = GregorianDay(z, k, e)
  PROVE  y = z /\ m = k /\ d = e
<1>1. y \in Int /\ m \in 1 .. 12 /\ d \in 1 .. GregorianMonth(y, m)
  BY DEF IsGregorianDate
<1>2. z \in Int /\ k \in 1 .. 12 /\ e \in 1 .. GregorianMonth(z, k)
  BY DEF IsGregorianDate
<1> QED
  BY <1>1, <1>2, DatesDiffer, SMTT(60)

LEMMA MonthOfDay ==
  ASSUME NEW leap \in BOOLEAN, NEW doy \in Nat, doy < IF leap THEN 366 ELSE 365
  PROVE  \E m \in 1 .. 12 : /\ Preceding(leap, m) <= doy
                            /\ doy < Preceding(leap, m) + MonthDays(leap, m)
<1> DEFINE In(m) == Preceding(leap, m) <= doy /\ doy < Preceding(leap, m) + MonthDays(leap, m)
<1>1. CASE leap
  <2>1. \/ In(1) \/ In(2) \/ In(3) \/ In(4) \/ In(5) \/ In(6)
        \/ In(7) \/ In(8) \/ In(9) \/ In(10) \/ In(11) \/ In(12)
    BY <1>1 DEF MonthDays, Preceding
  <2> HIDE DEF In
  <2>2. \E m \in 1 .. 12 : In(m)
    BY <2>1
  <2> QED
    BY <2>2 DEF In
<1>2. CASE ~ leap
  <2>1. \/ In(1) \/ In(2) \/ In(3) \/ In(4) \/ In(5) \/ In(6)
        \/ In(7) \/ In(8) \/ In(9) \/ In(10) \/ In(11) \/ In(12)
    BY <1>2 DEF MonthDays, Preceding
  <2> HIDE DEF In
  <2>2. \E m \in 1 .. 12 : In(m)
    BY <2>1
  <2> QED
    BY <2>2 DEF In
<1> QED
  BY <1>1, <1>2

LEMMA DateOfDay ==
  ASSUME NEW n, KnownDay(n)
  PROVE  \E y \in Nat \ {0}, m \in 1 .. 12 : \E d \in 1 .. GregorianMonth(y, m) :
           Gregorian(n) = <<y, m, d>> /\ GregorianDay(y, m, d) = n
<1> DEFINE y == Gregorian(n)[1]
<1> DEFINE leap == IsGregorianLeap(y)
<1> DEFINE doy == n - NewYearsDay(y)
<1> DEFINE S == {k \in 1 .. 12 : DaysBefore(y, k) <= doy}
<1>1. y \in Nat \ {0} /\ NewYearsDay(y) <= n /\ n < NewYearsDay(y + 1) /\ n \in Int
  BY YearOfDay DEF KnownDay
<1>2. Gregorian(n) = <<y, Max(S), doy - DaysBefore(y, Max(S)) + 1>>
  BY DEF Gregorian, NewYearsDay
<1> HIDE DEF y
<1>3. /\ leap \in BOOLEAN
      /\ \A m : /\ GregorianMonth(y, m) = MonthDays(leap, m)
                /\ DaysBefore(y, m) = Preceding(leap, m)
      /\ YearDays(y) = IF leap THEN 366 ELSE 365
  BY MonthsAre, LeapBoolean DEF YearDays
<1>4. NewYearsDay(y) \in Int /\ NewYearsDay(y + 1) = NewYearsDay(y) + YearDays(y)
  BY <1>1, NewYearsDayIs, YearLength
<1> HIDE DEF leap
<1>5. doy \in Nat /\ doy < IF leap THEN 366 ELSE 365
  BY <1>1, <1>3, <1>4
<1> HIDE DEF doy
<1>6. PICK m \in 1 .. 12 : /\ Preceding(leap, m) <= doy
                           /\ doy < Preceding(leap, m) + MonthDays(leap, m)
  BY <1>3, <1>5, MonthOfDay
<1>7. \A k \in 1 .. 12 : /\ Preceding(leap, k) \in 0 .. 335
                         /\ m < k => Preceding(leap, m) + MonthDays(leap, m) <= Preceding(leap, k)
  BY <1>3, MonthTable, MonthOrder
<1>8. MonthDays(leap, m) \in 28 .. 31
  BY <1>3, MonthTable
<1>9. m \in S /\ \A k \in S : k \in Int /\ k <= m
  <2>1. m \in S
    BY <1>3, <1>6
  <2>2. ASSUME NEW k \in 1 .. 12, m < k
        PROVE  k \notin S
    <3>1. Preceding(leap, m) + MonthDays(leap, m) <= Preceding(leap, k)
      BY <1>7, <2>2
    <3>2. Preceding(leap, k) \in Int /\ Preceding(leap, m) \in Int /\ MonthDays(leap, m) \in Int
      BY <1>7, <1>8
    <3>3. ~ Preceding(leap, k) <= doy
      BY <1>5, <1>6, <3>1, <3>2
    <3> QED
      BY <1>3, <3>3
  <2> QED
    BY <2>1, <2>2
<1>10. Max(S) = m
  <2> HIDE DEF S
  <2> QED
    BY <1>9, MaxIs
<1> DEFINE d == doy - Preceding(leap, m) + 1
<1>14. Preceding(leap, m) \in Int /\ MonthDays(leap, m) \in Int
  BY <1>7, <1>8
<1>11. d \in 1 .. GregorianMonth(y, m)
  <2>1. d \in 1 .. MonthDays(leap, m)
    BY <1>5, <1>6, <1>14
  <2> QED
    BY <1>3, <2>1
<1>12. Gregorian(n) = <<y, m, d>>
  BY <1>2, <1>3, <1>10
<1>13. GregorianDay(y, m, d) = n
  <2>1. GregorianDay(y, m, d) = NewYearsDay(y) + Preceding(leap, m) + d - 1
    BY <1>1, <1>3, <1>11, DateIn
  <2>2. doy = n - NewYearsDay(y)
    BY DEF doy
  <2> QED
    BY <1>1, <1>4, <1>5, <1>14, <2>1, <2>2
<1> QED
  BY <1>1, <1>11, <1>12, <1>13

(* The Gregorian formula: a day has a date, and the number of that date is *)
(* the day.  The guess of the year is corrected often enough and the month *)
(* is found by comparison.                                                 *)
THEOREM GregorianIs ==
  ASSUME NEW n, KnownDay(n)
  PROVE  LET g == Gregorian(n)
         IN  /\ g = <<g[1], g[2], g[3]>>
             /\ IsGregorianDate(g[1], g[2], g[3])
             /\ GregorianDay(g[1], g[2], g[3]) = n
<1>1. PICK y \in Nat \ {0}, m \in 1 .. 12 : \E d \in 1 .. GregorianMonth(y, m) :
        Gregorian(n) = <<y, m, d>> /\ GregorianDay(y, m, d) = n
  BY DateOfDay
<1>2. PICK d \in 1 .. GregorianMonth(y, m) :
        Gregorian(n) = <<y, m, d>> /\ GregorianDay(y, m, d) = n
  BY <1>1
<1> QED
  BY <1>2 DEF IsGregorianDate

LEMMA DateOfIs ==
  ASSUME NEW y, NEW m, NEW d, IsGregorianDate(y, m, d), KnownDay(GregorianDay(y, m, d))
  PROVE  Gregorian(GregorianDay(y, m, d)) = <<y, m, d>>
<1> DEFINE g == Gregorian(GregorianDay(y, m, d))
<1>1. /\ g = <<g[1], g[2], g[3]>>
      /\ IsGregorianDate(g[1], g[2], g[3])
      /\ GregorianDay(g[1], g[2], g[3]) = GregorianDay(y, m, d)
  BY GregorianIs
<1> HIDE DEF g
<1>2. g[1] = y /\ g[2] = m /\ g[3] = d
  BY <1>1, DatesUnique
<1> QED
  BY <1>1, <1>2 DEF g

LEMMA NextDay ==
  ASSUME NEW y \in Int, NEW m \in 1 .. 12, NEW d \in 1 .. GregorianMonth(y, m)
  PROVE  LET n == GregorianDay(y, m, d)
         IN  /\ d + 1 \in 1 .. GregorianMonth(y, m) => GregorianDay(y, m, d + 1) = n + 1
             /\ d = GregorianMonth(y, m) /\ m < 12 =>
                  /\ m + 1 \in 1 .. 12 /\ 1 \in 1 .. GregorianMonth(y, m + 1)
                  /\ GregorianDay(y, m + 1, 1) = n + 1
             /\ d = GregorianMonth(y, m) /\ m = 12 =>
                  /\ d = 31 /\ 1 \in 1 .. GregorianMonth(y + 1, 1)
                  /\ GregorianDay(y + 1, 1, 1) = n + 1
<1> DEFINE n == GregorianDay(y, m, d)
<1> DEFINE leap == IsGregorianLeap(y)
<1>1. /\ n = NewYearsDay(y) + DaysBefore(y, m) + d - 1
      /\ n \in Int /\ d \in Int /\ DaysBefore(y, m) \in Int /\ GregorianMonth(y, m) \in Int
      /\ NewYearsDay(y) \in Int
      /\ NewYearsDay(y + 1) = NewYearsDay(y) + YearDays(y)
  <2>1. /\ n = NewYearsDay(y) + DaysBefore(y, m) + d - 1 /\ n \in Int
    BY DateIn
  <2>2. d \in Int /\ DaysBefore(y, m) \in Int /\ GregorianMonth(y, m) \in Int
    BY MonthsAre, LeapBoolean, MonthTable
  <2>3. NewYearsDay(y) \in Int /\ NewYearsDay(y + 1) = NewYearsDay(y) + YearDays(y)
    BY NewYearsDayIs, YearLength
  <2> QED
    BY <2>1, <2>2, <2>3, Zenon
<1>2. /\ leap \in BOOLEAN
      /\ \A k : /\ GregorianMonth(y, k) = MonthDays(leap, k)
                /\ DaysBefore(y, k) = Preceding(leap, k)
      /\ YearDays(y) = IF leap THEN 366 ELSE 365
  BY MonthsAre, LeapBoolean DEF YearDays
<1> HIDE DEF n, leap
<1>3. d + 1 \in 1 .. GregorianMonth(y, m) => GregorianDay(y, m, d + 1) = n + 1
  <2>1. d + 1 \in 1 .. GregorianMonth(y, m) =>
          GregorianDay(y, m, d + 1) = NewYearsDay(y) + DaysBefore(y, m) + (d + 1) - 1
    BY DateIn
  <2> QED
    BY <1>1, <2>1
<1>4. ASSUME d = GregorianMonth(y, m), m < 12
      PROVE  /\ m + 1 \in 1 .. 12 /\ 1 \in 1 .. GregorianMonth(y, m + 1)
             /\ GregorianDay(y, m + 1, 1) = n + 1
  <2>1. m + 1 \in 1 .. 12
    BY <1>4
  <2>2. /\ MonthDays(leap, m + 1) \in 28 .. 31
        /\ Preceding(leap, m + 1) = Preceding(leap, m) + MonthDays(leap, m)
    <3>1. MonthDays(leap, m + 1) \in 28 .. 31
      BY <1>2, <2>1, MonthTable
    <3> QED
      BY <1>2, <1>4, <3>1, MonthTable
  <2>3. 1 \in 1 .. GregorianMonth(y, m + 1)
    BY <1>2, <2>2
  <2>4. GregorianDay(y, m + 1, 1) = NewYearsDay(y) + DaysBefore(y, m + 1) + 1 - 1
    BY <2>1, <2>3, DateIn
  <2> QED
    BY <1>1, <1>2, <1>4, <2>1, <2>2, <2>3, <2>4
<1>5. ASSUME d = GregorianMonth(y, m), m = 12
      PROVE  /\ d = 31 /\ 1 \in 1 .. GregorianMonth(y + 1, 1)
             /\ GregorianDay(y + 1, 1, 1) = n + 1
  <2>1. Preceding(leap, 12) + MonthDays(leap, 12) = IF leap THEN 366 ELSE 365
    <3>1. 12 \in 1 .. 12
      OBVIOUS
    <3> QED
      BY <1>2, <3>1, MonthTable
  <2>2. MonthDays(leap, 12) = 31
    BY DEF MonthDays
  <2>3. GregorianMonth(y + 1, 1) = 31
    BY DEF GregorianMonth
  <2>4. GregorianDay(y + 1, 1, 1) = NewYearsDay(y + 1)
    BY DEF NewYearsDay
  <2>5. 1 \in 1 .. GregorianMonth(y + 1, 1)
    BY <2>3
  <2> QED
    BY <1>1, <1>2, <1>5, <2>1, <2>2, <2>4, <2>5
<1> QED
  BY <1>3, <1>4, <1>5 DEF n

-----------------------------------------------------------------------------
(* The clock of the device                                                 *)

LEMMA DaysOfMonthIs ==
  ASSUME NEW y, NEW m \in 1 .. 12
  PROVE  DaysOfMonth(y, m) = GregorianMonth(y, m)
<1>1. m \in {1, 2, 3, 4, 5, 6, 7, 8, 9, 10, 11, 12}
  OBVIOUS
<1> QED
  BY <1>1 DEF DaysOfMonth, GregorianMonth, IsGregorianLeap

LEMMA DayAfter ==
  ASSUME NEW y, NEW m, NEW d, IsGregorianDate(y, m, d)
  PROVE  LET s == ShiftDay(<<y, m, d>>, 1)
         IN  /\ s = <<s[1], s[2], s[3]>> /\ IsGregorianDate(s[1], s[2], s[3])
             /\ GregorianDay(s[1], s[2], s[3]) = GregorianDay(y, m, d) + 1
<1>1. y \in Nat \ {0} /\ m \in 1 .. 12 /\ d \in 1 .. GregorianMonth(y, m)
  BY DEF IsGregorianDate
<1>2. DaysOfMonth(y, m) = GregorianMonth(y, m)
  BY <1>1, DaysOfMonthIs
<1>3. d \in Int /\ 1 <= d /\ GregorianMonth(y, m) \in Int /\ d <= GregorianMonth(y, m) /\ y \in Int
  BY <1>1, DateIn
<1>4. ShiftDay(<<y, m, d>>, 1) =
        IF d + 1 > GregorianMonth(y, m)
        THEN IF m = 12 THEN <<y + 1, 1, 1>> ELSE <<y, m + 1, 1>>
        ELSE <<y, m, d + 1>>
  BY <1>2, <1>3 DEF ShiftDay
<1>5. CASE d + 1 <= GregorianMonth(y, m)
  <2>1. d + 1 \in 1 .. GregorianMonth(y, m)
    BY <1>3, <1>5
  <2>2. GregorianDay(y, m, d + 1) = GregorianDay(y, m, d) + 1
    BY <1>1, <1>3, <2>1, NextDay
  <2>3. ShiftDay(<<y, m, d>>, 1) = <<y, m, d + 1>>
    BY <1>3, <1>4, <1>5
  <2> QED
    BY <1>1, <2>1, <2>2, <2>3 DEF IsGregorianDate
<1>6. CASE ~ d + 1 <= GregorianMonth(y, m) /\ m = 12
  <2>1. d = GregorianMonth(y, m)
    BY <1>3, <1>6
  <2>2. 1 \in 1 .. GregorianMonth(y + 1, 1) /\ GregorianDay(y + 1, 1, 1) = GregorianDay(y, m, d) + 1
    BY <1>1, <1>3, <1>6, <2>1, NextDay
  <2>3. ShiftDay(<<y, m, d>>, 1) = <<y + 1, 1, 1>>
    BY <1>3, <1>4, <1>6
  <2>4. y + 1 \in Nat \ {0} /\ 1 \in 1 .. 12
    BY <1>1
  <2> QED
    BY <2>2, <2>3, <2>4 DEF IsGregorianDate
<1>7. CASE ~ d + 1 <= GregorianMonth(y, m) /\ m # 12
  <2>1. d = GregorianMonth(y, m) /\ m < 12
    BY <1>1, <1>3, <1>7
  <2>2. /\ m + 1 \in 1 .. 12 /\ 1 \in 1 .. GregorianMonth(y, m + 1)
        /\ GregorianDay(y, m + 1, 1) = GregorianDay(y, m, d) + 1
    BY <1>1, <1>3, <1>7, <2>1, NextDay
  <2>3. ShiftDay(<<y, m, d>>, 1) = <<y, m + 1, 1>>
    BY <1>3, <1>4, <1>7
  <2> QED
    BY <1>1, <2>2, <2>3 DEF IsGregorianDate
<1> QED
  BY <1>5, <1>6, <1>7

LEMMA DayBefore ==
  ASSUME NEW y, NEW m, NEW d, IsGregorianDate(y, m, d), y # 1
  PROVE  LET s == ShiftDay(<<y, m, d>>, -1)
         IN  /\ s = <<s[1], s[2], s[3]>> /\ IsGregorianDate(s[1], s[2], s[3])
             /\ GregorianDay(s[1], s[2], s[3]) = GregorianDay(y, m, d) - 1
<1>1. y \in Nat \ {0} /\ m \in 1 .. 12 /\ d \in 1 .. GregorianMonth(y, m)
  BY DEF IsGregorianDate
<1>3. /\ d \in Int /\ 1 <= d /\ GregorianMonth(y, m) \in Int /\ d <= GregorianMonth(y, m)
      /\ y \in Int /\ GregorianDay(y, m, d) \in Int
  BY <1>1, DateIn
<1>2. DaysOfMonth(y, m) = GregorianMonth(y, m)
  BY <1>1, DaysOfMonthIs
<1>5. CASE d # 1
  <2>1. d - 1 \in 1 .. GregorianMonth(y, m) /\ (d - 1) + 1 = d
    BY <1>3, <1>5
  <2>2. GregorianDay(y, m, (d - 1) + 1) = GregorianDay(y, m, d - 1) + 1
    BY <1>1, <1>3, <2>1, NextDay
  <2>3. ShiftDay(<<y, m, d>>, -1) = <<y, m, d - 1>>
    BY <1>2, <1>3, <1>5 DEF ShiftDay
  <2>4. GregorianDay(y, m, d - 1) \in Int
    BY <1>1, <1>3, <2>1, DateIn
  <2> QED
    BY <1>1, <1>3, <2>1, <2>2, <2>3, <2>4 DEF IsGregorianDate
<1>6. CASE d = 1 /\ m = 1
  <2> DEFINE z == y - 1
  <2>1. z \in Nat \ {0} /\ z + 1 = y /\ z \in Int /\ 12 \in 1 .. 12
    BY <1>1
  <2>2. GregorianMonth(z, 12) = 31
    BY DEF GregorianMonth
  <2>3. ShiftDay(<<y, m, d>>, -1) = <<z, 12, 31>>
    BY <1>6 DEF ShiftDay
  <2>4. 31 \in 1 .. GregorianMonth(z, 12)
    BY <2>2
  <2> HIDE DEF z
  <2>5. GregorianDay(z + 1, 1, 1) = GregorianDay(z, 12, 31) + 1 /\ GregorianDay(z, 12, 31) \in Int
    BY <2>1, <2>2, <2>4, NextDay, DateIn
  <2> QED
    BY <1>6, <2>1, <2>3, <2>4, <2>5 DEF IsGregorianDate
<1>7. CASE d = 1 /\ m # 1
  <2> DEFINE k == m - 1
  <2>1. k \in 1 .. 12 /\ k < 12 /\ k + 1 = m
    BY <1>1, <1>7
  <2>2. ShiftDay(<<y, m, d>>, -1) = <<y, k, GregorianMonth(y, k)>>
    <3>1. DaysOfMonth(y, k) = GregorianMonth(y, k)
      BY <2>1, DaysOfMonthIs
    <3> QED
      BY <1>7, <3>1 DEF ShiftDay
  <2> HIDE DEF k
  <2>3. GregorianMonth(y, k) \in 1 .. GregorianMonth(y, k)
    BY <2>1, MonthsAre, LeapBoolean, MonthTable
  <2>4. /\ GregorianDay(y, k + 1, 1) = GregorianDay(y, k, GregorianMonth(y, k)) + 1
        /\ GregorianDay(y, k, GregorianMonth(y, k)) \in Int
    BY <1>3, <2>1, <2>3, NextDay, DateIn
  <2> QED
    BY <1>1, <1>7, <2>1, <2>2, <2>3, <2>4 DEF IsGregorianDate
<1> QED
  BY <1>5, <1>6, <1>7

InDay(minute) == minute \in 0 .. 1439
AnOffset(offset) == offset \in -840 .. 840

(* A local time becomes the UTC time that many minutes away, on whatever   *)
(* date that is.                                                           *)
LEMMA LocalToUtcIs ==
  ASSUME NEW y, NEW m, NEW d, IsGregorianDate(y, m, d), y # 1,
         NEW minute, InDay(minute), NEW offset, AnOffset(offset)
  PROVE  LET t == LocalToUtc(<<y, m, d>>, minute, offset)
         IN  /\ t.minute \in 0 .. 1439
             /\ IsGregorianDate(t.date[1], t.date[2], t.date[3])
             /\ GregorianDay(t.date[1], t.date[2], t.date[3]) * 1440 + t.minute
                  = GregorianDay(y, m, d) * 1440 + (minute - offset)
<1> DEFINE n == GregorianDay(y, m, d)
<1> DEFINE before == ShiftDay(<<y, m, d>>, -1)
<1> DEFINE after == ShiftDay(<<y, m, d>>, 1)
<1> DEFINE total == minute - offset
<1>1. /\ before = <<before[1], before[2], before[3]>>
      /\ IsGregorianDate(before[1], before[2], before[3])
      /\ GregorianDay(before[1], before[2], before[3]) = n - 1
  BY DayBefore
<1>2. /\ after = <<after[1], after[2], after[3]>>
      /\ IsGregorianDate(after[1], after[2], after[3])
      /\ GregorianDay(after[1], after[2], after[3]) = n + 1
  BY DayAfter
<1>3. n \in Int
  <2>1. y \in Int /\ m \in 1 .. 12 /\ d \in 1 .. GregorianMonth(y, m)
    BY DEF IsGregorianDate
  <2> QED
    BY <2>1, DateIn
<1>4. LocalToUtc(<<y, m, d>>, minute, offset) =
        IF total < 0 THEN [date |-> before, minute |-> total + 1440]
        ELSE IF total >= 1440 THEN [date |-> after, minute |-> total - 1440]
        ELSE [date |-> <<y, m, d>>, minute |-> total]
  BY DEF LocalToUtc
<1>5. total \in Int /\ -1440 < total /\ total < 2880
  BY DEF InDay, AnOffset
<1> DEFINE t == LocalToUtc(<<y, m, d>>, minute, offset)
<1> HIDE DEF before, after, n, total, t
<1>9. /\ t.minute \in 0 .. 1439
      /\ IsGregorianDate(t.date[1], t.date[2], t.date[3])
      /\ GregorianDay(t.date[1], t.date[2], t.date[3]) * 1440 + t.minute = n * 1440 + total
  <2>1. CASE total < 0
    <3>1. t.date = before /\ t.minute = total + 1440
      BY <1>4, <2>1 DEF t
    <3>2. (n - 1) * 1440 + (total + 1440) = n * 1440 + total
      BY <1>3, <1>5
    <3>3. total + 1440 \in 0 .. 1439
      BY <1>5, <2>1
    <3> QED
      BY <1>1, <3>1, <3>2, <3>3
  <2>2. CASE ~ total < 0 /\ total >= 1440
    <3>1. t.date = after /\ t.minute = total - 1440
      BY <1>4, <2>2 DEF t
    <3>2. (n + 1) * 1440 + (total - 1440) = n * 1440 + total
      BY <1>3, <1>5
    <3>3. total - 1440 \in 0 .. 1439
      BY <1>5, <2>2
    <3> QED
      BY <1>2, <3>1, <3>2, <3>3
  <2>3. CASE ~ total < 0 /\ ~ total >= 1440
    <3>1. t.date = <<y, m, d>> /\ t.minute = total
      BY <1>4, <2>3 DEF t
    <3>2. total \in 0 .. 1439
      BY <1>5, <2>3
    <3> QED
      BY <3>1, <3>2 DEF n
  <2> QED
    BY <2>1, <2>2, <2>3
<1>10. n * 1440 + total = n * 1440 + (minute - offset)
  BY DEF total
<1> QED
  BY <1>9, <1>10 DEF n, t

LEMMA BcdIs ==
  ASSUME NEW v \in 0 .. 99
  PROVE  /\ FromBcd(Bcd(v)) = v
         /\ v <= 31 => FromBcd(Bcd(v) % 64) = v
         /\ v <= 12 => FromBcd(Bcd(v) % 32) = v
         /\ v <= 59 => FromBcd(Bcd(v) % 128) = v
<1>1. v \div 10 \in 0 .. 9 /\ v % 10 \in 0 .. 9 /\ v = 10 * (v \div 10) + (v % 10)
  <2>1. v \in Int /\ 0 <= v /\ v <= 99
    OBVIOUS
  <2> QED
    BY <2>1
<1> DEFINE a == v \div 10
<1> DEFINE b == v % 10
<1>2. /\ a \in 0 .. 9 /\ b \in 0 .. 9 /\ v = 10 * a + b
      /\ Bcd(v) = 16 * a + b
  BY <1>1 DEF Bcd
<1> HIDE DEF a, b
<1>3. (16 * a + b) \div 16 = a /\ (16 * a + b) % 16 = b
  BY <1>2
<1>4. /\ v <= 31 => (16 * a + b) % 64 = 16 * a + b
      /\ v <= 12 => (16 * a + b) % 32 = 16 * a + b
      /\ v <= 59 => (16 * a + b) % 128 = 16 * a + b
  BY <1>2
<1>5. FromBcd(16 * a + b) = v
  BY <1>2, <1>3 DEF FromBcd
<1> QED
  BY <1>2, <1>4, <1>5

TimeOf(y, m, d, minute) == [date |-> <<y, m, d>>, minute |-> minute]

LEMMA ChipReads ==
  ASSUME NEW y \in Nat, NEW m, NEW d, IsGregorianDate(y, m, d),
         NEW minute \in Int, 0 <= minute, minute <= 1439, NEW c, c = 2000 + (y % 100)
  PROVE  ReadChip(Registers(TimeOf(y, m, d, minute))) = TimeOf(c, m, d, minute)
<1>1. m \in 1 .. 12 /\ d \in 1 .. 31
  <2>1. m \in 1 .. 12 /\ d \in 1 .. GregorianMonth(y, m)
    BY DEF IsGregorianDate
  <2>2. GregorianMonth(y, m) \in 28 .. 31
    BY <2>1, MonthsAre, LeapBoolean, MonthTable
  <2> QED
    BY <2>1, <2>2
<1>2. /\ minute % 60 \in 0 .. 59 /\ minute \div 60 \in 0 .. 23
      /\ 60 * (minute \div 60) + (minute % 60) = minute
      /\ y % 100 \in 0 .. 99
  <2>1. minute \in Int /\ 0 <= minute /\ minute <= 1439 /\ y \in Int
    OBVIOUS
  <2> QED
    BY <2>1
<1>3. FromBcd(Bcd(minute % 60) % 128) = minute % 60
  BY <1>2, BcdIs
<1>4. FromBcd(Bcd(minute \div 60) % 64) = minute \div 60
  BY <1>2, BcdIs
<1>5. FromBcd(Bcd(d) % 64) = d
  BY <1>1, BcdIs
<1>6. FromBcd(Bcd(m) % 32) = m
  BY <1>1, BcdIs
<1>7. FromBcd(Bcd(y % 100)) = y % 100
  BY <1>2, BcdIs
<1> DEFINE t == TimeOf(y, m, d, minute)
<1> DEFINE r == Registers(t)
<1>8. /\ r.minutes = Bcd(minute % 60) /\ r.hours = Bcd(minute \div 60)
      /\ r.days = Bcd(d) /\ r.months = Bcd(m) /\ r.years = Bcd(y % 100)
  BY DEF Registers, TimeOf
<1> HIDE DEF r
<1>9. ReadChip(r) = [date |-> <<2000 + (y % 100), m, d>>,
                     minute |-> 60 * (minute \div 60) + (minute % 60)]
  BY <1>3, <1>4, <1>5, <1>6, <1>7, <1>8 DEF ReadChip
<1> QED
  BY <1>2, <1>9 DEF r, TimeOf

(* What the registers of the chip hold reads back as the date and minute   *)
(* that were set, in BCD and under the masks of every register: the clock  *)
(* of the device is kept over a power cut.                                 *)
THEOREM ChipKeepsTime ==
  ASSUME NEW y \in 2000 .. 2099, NEW m, NEW d, IsGregorianDate(y, m, d),
         NEW minute \in Int, 0 <= minute, minute <= 1439
  PROVE  ReadChip(Registers(TimeOf(y, m, d, minute))) = TimeOf(y, m, d, minute)
<1>1. y \in Nat
  OBVIOUS
<1>2. 2000 + (y % 100) = y
  <2>1. y \in Int /\ 2000 <= y /\ y <= 2099
    OBVIOUS
  <2> QED
    BY <2>1
<1> QED
  BY <1>1, <1>2, ChipReads

-----------------------------------------------------------------------------
(* The clock of Israel                                                     *)

(* Daylight saving time begins and ends well inside the year.              *)
LEMMA DstInYear ==
  ASSUME NEW y \in Int
  PROVE  /\ DstStart(y) \in Int /\ DstEnd(y) \in Int
         /\ NewYearsDay(y) + 40 <= DstStart(y) /\ DstStart(y) + 100 <= DstEnd(y)
         /\ DstEnd(y) + 40 <= NewYearsDay(y + 1)
<1> DEFINE leap == IsGregorianLeap(y)
<1>1. /\ leap \in BOOLEAN
      /\ \A k : /\ GregorianMonth(y, k) = MonthDays(leap, k)
                /\ DaysBefore(y, k) = Preceding(leap, k)
      /\ YearDays(y) = IF leap THEN 366 ELSE 365
  BY MonthsAre, LeapBoolean DEF YearDays
<1> HIDE DEF leap
<1>2. /\ NewYearsDay(y) \in Int
      /\ NewYearsDay(y + 1) = NewYearsDay(y) + YearDays(y)
  BY NewYearsDayIs, YearLength
<1>3. /\ MonthDays(leap, 3) = 31 /\ MonthDays(leap, 10) = 31
      /\ Preceding(leap, 3) = 59 + (IF leap THEN 1 ELSE 0)
      /\ Preceding(leap, 10) = 273 + (IF leap THEN 1 ELSE 0)
  BY <1>1 DEF MonthDays, Preceding
<1>4. /\ GregorianDay(y, 3, 31) = NewYearsDay(y) + DaysBefore(y, 3) + 31 - 1
      /\ GregorianDay(y, 10, 31) = NewYearsDay(y) + DaysBefore(y, 10) + 31 - 1
  <2>1. 31 \in 1 .. GregorianMonth(y, 3) /\ 31 \in 1 .. GregorianMonth(y, 10)
        /\ 3 \in 1 .. 12 /\ 10 \in 1 .. 12
    BY <1>1, <1>3
  <2> QED
    BY <2>1, DateIn
<1> DEFINE a == GregorianDay(y, 3, 31)
<1> DEFINE b == GregorianDay(y, 10, 31)
<1>5. /\ DstStart(y) = a - (a % 7) - 2
      /\ DstEnd(y) = b - (b % 7)
  <2>1. /\ DstStart(y) = (a - (((a % 7) + 1) - 1)) - 2
        /\ DstEnd(y) = b - (((b % 7) + 1) - 1)
    BY DEF DstStart, DstEnd, LastSunday, DayOfWeek
  <2>2. a \in Int /\ b \in Int
    BY <1>1, <1>2, <1>3, <1>4
  <2> HIDE DEF a, b
  <2> QED
    BY <2>1, <2>2
<1>6. /\ a = NewYearsDay(y) + 89 + (IF leap THEN 1 ELSE 0)
      /\ b = NewYearsDay(y) + 303 + (IF leap THEN 1 ELSE 0)
      /\ a \in Int /\ b \in Int
  BY <1>1, <1>2, <1>3, <1>4
<1> HIDE DEF a, b
<1>7. a % 7 \in Int /\ 0 <= a % 7 /\ a % 7 <= 6 /\ b % 7 \in Int /\ 0 <= b % 7 /\ b % 7 <= 6
  BY <1>6
<1>8. YearDays(y) \in Int /\ 365 <= YearDays(y)
  BY <1>1
<1> DEFINE u == a % 7
<1> DEFINE v == b % 7
<1> DEFINE o == IF leap THEN 1 ELSE 0
<1> DEFINE z == NewYearsDay(y)
<1> DEFINE z2 == NewYearsDay(y + 1)
<1> DEFINE s == DstStart(y)
<1> DEFINE e == DstEnd(y)
<1>9. o \in {0, 1}
  BY <1>1
<1>10. /\ u \in Int /\ 0 <= u /\ u <= 6 /\ v \in Int /\ 0 <= v /\ v <= 6
       /\ s = a - u - 2 /\ e = b - v /\ a = z + 89 + o /\ b = z + 303 + o
       /\ z \in Int /\ z2 = z + YearDays(y)
  BY <1>2, <1>5, <1>6, <1>7
<1> SUFFICES s \in Int /\ e \in Int /\ z + 40 <= s /\ s + 100 <= e /\ e + 40 <= z2
  OBVIOUS
<1> HIDE DEF u, v, o, z, z2, s, e
<1> QED
  BY <1>8, <1>9, <1>10

-----------------------------------------------------------------------------
(* The Hebrew year                                                         *)

(* The rule of the leap years and the count of the months are one.         *)
LEMMA MonthsBeforeIs ==
  ASSUME NEW y \in Int
  PROVE  /\ MonthsBefore(y) \in Int
         /\ MonthsBefore(y) = (235 * (y - 1) + 1) \div 19
         /\ MonthsBefore(y + 1) = MonthsBefore(y) + (IF IsLeap(y) THEN 13 ELSE 12)
<1> DEFINE q == (y - 1) \div 19
<1> DEFINE r == (y - 1) % 19
<1>1. q \in Int /\ r \in Int /\ 0 <= r /\ r <= 18 /\ y = 19 * q + r + 1
  OBVIOUS
<1>2. MonthsBefore(y) = 235 * q + 12 * r + (7 * r + 1) \div 19
  BY DEF MonthsBefore
<1> HIDE DEF q, r
<1>3. MonthsBefore(y) = (235 * (y - 1) + 1) \div 19
  BY <1>1, <1>2
<1>4. MonthsBefore(y + 1) = (235 * y + 1) \div 19
  <2> DEFINE z == y + 1
  <2> DEFINE u == (z - 1) \div 19
  <2> DEFINE v == (z - 1) % 19
  <2>1. z \in Int /\ u \in Int /\ v \in Int /\ 0 <= v /\ v <= 18 /\ y = 19 * u + v
    OBVIOUS
  <2>2. MonthsBefore(z) = 235 * u + 12 * v + (7 * v + 1) \div 19
    BY DEF MonthsBefore
  <2> SUFFICES MonthsBefore(z) = (235 * y + 1) \div 19
    OBVIOUS
  <2> HIDE DEF z, u, v
  <2> QED
    BY <2>1, <2>2
<1>5. (235 * y + 1) \div 19 = ((235 * (y - 1) + 1) \div 19) + (IF (7 * y + 1) % 19 < 7 THEN 13 ELSE 12)
  <2>1. (235 * (r + 1) + 1) \div 19 = ((235 * r + 1) \div 19) + (IF (7 * r + 8) % 19 < 7 THEN 13 ELSE 12)
    <3>1. r \in {0, 1, 2, 3, 4, 5, 6, 7, 8, 9, 10, 11, 12, 13, 14, 15, 16, 17, 18}
      BY <1>1
    <3> QED
      BY <3>1
  <2>2. (7 * y + 1) % 19 = (7 * r + 8) % 19
    BY <1>1
  <2>3. /\ (235 * y + 1) \div 19 = 235 * q + ((235 * (r + 1) + 1) \div 19)
        /\ (235 * (y - 1) + 1) \div 19 = 235 * q + ((235 * r + 1) \div 19)
    BY <1>1
  <2>4. (235 * r + 1) \div 19 \in Int
    BY <1>1
  <2> QED
    BY <1>1, <2>1, <2>2, <2>3, <2>4
<1> QED
  BY <1>3, <1>4, <1>5 DEF IsLeap

LEMMA LeapYearsApart ==
  ASSUME NEW y \in Int
  PROVE  /\ IsLeap(y) \in BOOLEAN
         /\ IsLeap(y) => ~ IsLeap(y - 1) /\ ~ IsLeap(y + 1)
<1>1. /\ (7 * (y - 1) + 1) % 19 = (((7 * y + 1) % 19) + 12) % 19
      /\ (7 * (y + 1) + 1) % 19 = (((7 * y + 1) % 19) + 7) % 19
      /\ (7 * y + 1) % 19 \in 0 .. 18
  OBVIOUS
<1> DEFINE v == (7 * y + 1) % 19
<1>2. v \in Int /\ 0 <= v /\ v <= 18
  BY <1>1
<1> HIDE DEF v
<1>3. v < 7 => ~ (v + 12) % 19 < 7 /\ ~ (v + 7) % 19 < 7
  BY <1>2
<1> QED
  BY <1>1, <1>3 DEF IsLeap, v

LEMMA MoladIs ==
  ASSUME NEW y \in Int
  PROVE  /\ Molad(y).days \in Int /\ Molad(y).remainder \in Int
         /\ 0 <= Molad(y).remainder /\ Molad(y).remainder < 25920
         /\ 25920 * (Molad(y).days - 29 * MonthsBefore(y)) + Molad(y).remainder
              = 31524 + 13753 * MonthsBefore(y)
<1> DEFINE b == MonthsBefore(y)
<1> DEFINE p == 31524 + 13753 * b
<1> DEFINE d == Molad(y).days
<1> DEFINE r == Molad(y).remainder
<1>1. b \in Int
  BY MonthsBeforeIs
<1>2. d = 29 * b + (p \div 25920) /\ r = p % 25920
  BY DEF Molad, ChalakimPerDay
<1>3. p \in Int /\ p = 31524 + 13753 * b
  BY <1>1
<1> SUFFICES /\ d \in Int /\ r \in Int /\ 0 <= r /\ r < 25920
             /\ 25920 * (d - 29 * b) + r = p
  OBVIOUS
<1> HIDE DEF b, p, d, r
<1> QED
  BY <1>1, <1>2, <1>3

\* A common year adds 354 days and 9516 parts, a leap year 383 and 23269.
YearsDays(leap) == IF leap THEN 383 ELSE 354
YearsParts(leap) == IF leap THEN 23269 ELSE 9516

LEMMA NextMolad ==
  ASSUME NEW y \in Int
  PROVE  LET d == Molad(y).days
             r == Molad(y).remainder
             s == r + YearsParts(IsLeap(y))
         IN  /\ s < 25920 => /\ Molad(y + 1).days = d + YearsDays(IsLeap(y))
                             /\ Molad(y + 1).remainder = s
             /\ s >= 25920 => /\ Molad(y + 1).days = d + YearsDays(IsLeap(y)) + 1
                              /\ Molad(y + 1).remainder = s - 25920
<1> DEFINE d == Molad(y).days
<1> DEFINE r == Molad(y).remainder
<1> DEFINE e == Molad(y + 1).days
<1> DEFINE t == Molad(y + 1).remainder
<1> DEFINE b == MonthsBefore(y)
<1> DEFINE c == MonthsBefore(y + 1)
<1> DEFINE leap == IsLeap(y)
<1>1. /\ b \in Int /\ c \in Int /\ c = b + (IF leap THEN 13 ELSE 12)
  <2>1. y + 1 \in Int
    OBVIOUS
  <2> QED
    BY <2>1, MonthsBeforeIs
<1>2. /\ d \in Int /\ r \in Int /\ 0 <= r /\ r < 25920
      /\ 25920 * (d - 29 * b) + r = 31524 + 13753 * b
  BY MoladIs
<1>3. /\ e \in Int /\ t \in Int /\ 0 <= t /\ t < 25920
      /\ 25920 * (e - 29 * c) + t = 31524 + 13753 * c
  <2>1. y + 1 \in Int
    OBVIOUS
  <2> QED
    BY <2>1, MoladIs
<1>4. leap \in BOOLEAN
  BY LeapYearsApart
<1> HIDE DEF d, r, e, t, b, c, leap
<1>5. CASE leap
  <2>1. c = b + 13
    BY <1>1, <1>5
  <2>2. 25920 * (e - d - 377) + t = r + 178789
    BY <1>1, <1>2, <1>3, <2>1, SMT
  <2>3. /\ r + 23269 < 25920 => e = d + 383 /\ t = r + 23269
        /\ r + 23269 >= 25920 => e = d + 384 /\ t = r + 23269 - 25920
    BY <1>2, <1>3, <2>2, SMT
  <2> QED
    BY <1>2, <1>3, <1>5, <2>3 DEF YearsDays, YearsParts, d, r, e, t, leap
<1>6. CASE ~ leap
  <2>1. c = b + 12
    BY <1>1, <1>6
  <2>2. 25920 * (e - d - 348) + t = r + 165036
    BY <1>1, <1>2, <1>3, <2>1, SMT
  <2>3. /\ r + 9516 < 25920 => e = d + 354 /\ t = r + 9516
        /\ r + 9516 >= 25920 => e = d + 355 /\ t = r + 9516 - 25920
    BY <1>2, <1>3, <2>2, SMT
  <2> QED
    BY <1>2, <1>3, <1>6, <2>3 DEF YearsDays, YearsParts, d, r, e, t, leap
<1> QED
  BY <1>4, <1>5, <1>6

\* The new year of any year, in the table or not.
NewYearOf(y) == Molad(y).days + Dechiyos(y, Molad(y)) + HebrewEpoch + 1

\* By how many days the year is put off, by the day of the week and the
\* parts of its molad and by the leap years.
PutOffBy(dow, r, leap, leapBefore) ==
  LET first == IF \/ r >= 19440
                  \/ dow = 3 /\ r >= 9924 /\ ~ leap
                  \/ dow = 2 /\ r >= 16789 /\ leapBefore
               THEN 1 ELSE 0
  IN  first + (IF (dow + first) % 7 \in {1, 4, 6} THEN 1 ELSE 0)

LEMMA DechiyosIs ==
  ASSUME NEW y \in Int
  PROVE  LET dow == (Molad(y).days + 1) % 7
         IN  /\ Dechiyos(y, Molad(y)) = PutOffBy(dow, Molad(y).remainder, IsLeap(y), IsLeap(y - 1))
             /\ Dechiyos(y, Molad(y)) \in 0 .. 2
             /\ NewYearOf(y) \in Int
<1> DEFINE d == Molad(y).days
<1> DEFINE r == Molad(y).remainder
<1> DEFINE dow == (d + 1) % 7
<1> DEFINE first == IF Postponed(y, Molad(y)) THEN 1 ELSE 0
<1> DEFINE second == IF (d + 1 + first) % 7 \in {1, 4, 6} THEN 1 ELSE 0
<1>1. d \in Int
  BY MoladIs
<1>2. Dechiyos(y, Molad(y)) = first + second
  BY DEF Dechiyos
<1>3. Postponed(y, Molad(y)) <=>
        \/ r >= 19440
        \/ dow = 3 /\ r >= 9924 /\ ~ IsLeap(y)
        \/ dow = 2 /\ r >= 16789 /\ IsLeap(y - 1)
  BY DEF Postponed
<1>4. PutOffBy(dow, r, IsLeap(y), IsLeap(y - 1))
        = first + (IF (dow + first) % 7 \in {1, 4, 6} THEN 1 ELSE 0)
  BY <1>3 DEF PutOffBy
<1>5. (d + 1 + first) % 7 = (dow + first) % 7
  <2>1. first \in {0, 1}
    OBVIOUS
  <2> HIDE DEF first, d
  <2> QED
    BY <1>1, <2>1
<1>6. first + second \in 0 .. 2
  OBVIOUS
<1>7. NewYearOf(y) \in Int
  BY <1>1, <1>2, <1>6 DEF NewYearOf, HebrewEpoch
<1> QED
  BY <1>2, <1>4, <1>5, <1>6, <1>7

(* A year has one of six lengths: the rules that put the year off exclude  *)
(* every other.                                                            *)
THEOREM HebrewYearLength ==
  ASSUME NEW y \in Int
  PROVE  NewYearOf(y + 1) - NewYearOf(y)
           \in IF IsLeap(y) THEN {383, 384, 385} ELSE {353, 354, 355}
<1> DEFINE d == Molad(y).days
<1> DEFINE r == Molad(y).remainder
<1> DEFINE e == Molad(y + 1).days
<1> DEFINE t == Molad(y + 1).remainder
<1> DEFINE leap == IsLeap(y)
<1> DEFINE before == IsLeap(y - 1)
<1> DEFINE after == IsLeap(y + 1)
<1> DEFINE u == (d + 1) % 7
<1> DEFINE v == (e + 1) % 7
<1> DEFINE long == NewYearOf(y + 1) - NewYearOf(y)
<1>1. y + 1 \in Int /\ (y + 1) - 1 = y
  OBVIOUS
<1>2. /\ d \in Int /\ r \in Int /\ 0 <= r /\ r < 25920
      /\ e \in Int /\ t \in Int /\ 0 <= t /\ t < 25920
  BY <1>1, MoladIs
<1>3. /\ r + YearsParts(leap) < 25920 => e = d + YearsDays(leap) /\ t = r + YearsParts(leap)
      /\ r + YearsParts(leap) >= 25920 => e = d + YearsDays(leap) + 1 /\ t = (r + YearsParts(leap)) - 25920
  BY NextMolad
<1>4. leap \in BOOLEAN /\ before \in BOOLEAN /\ after \in BOOLEAN
      /\ (leap => ~ before /\ ~ after)
  <2>1. y - 1 \in Int
    OBVIOUS
  <2> QED
    BY <1>1, <2>1, LeapYearsApart
<1>5. long = (e + PutOffBy(v, t, after, leap)) - (d + PutOffBy(u, r, leap, before))
  <2> DEFINE o == Dechiyos(y, Molad(y))
  <2> DEFINE p == Dechiyos(y + 1, Molad(y + 1))
  <2>1. o = PutOffBy(u, r, leap, before) /\ o \in 0 .. 2
    BY DechiyosIs
  <2>2. p = PutOffBy(v, t, after, leap) /\ p \in 0 .. 2
    BY <1>1, DechiyosIs
  <2>3. /\ NewYearOf(y) = d + o + HebrewEpoch + 1
        /\ NewYearOf(y + 1) = e + p + HebrewEpoch + 1
    BY DEF NewYearOf
  <2>4. HebrewEpoch \in Int
    BY DEF HebrewEpoch
  <2>5. long = NewYearOf(y + 1) - NewYearOf(y)
    OBVIOUS
  <2> SUFFICES long = (e + p) - (d + o)
    BY <2>1, <2>2
  <2> HIDE DEF o, p, d, e, long
  <2> QED
    BY <1>2, <2>1, <2>2, <2>3, <2>4, <2>5
<1>6. u \in Int /\ 0 <= u /\ u <= 6
  BY <1>2
<1>7. v = (u + (e - d)) % 7
  <2> HIDE DEF d, e
  <2> QED
    BY <1>2
<1> SUFFICES long \in IF leap THEN {383, 384, 385} ELSE {353, 354, 355}
  OBVIOUS
<1> HIDE DEF d, r, e, t, leap, before, after, u, v, long
<1>8. u \in {0, 1, 2, 3, 4, 5, 6}
  BY <1>6
<1>9. CASE leap
  <2>1. ~ before /\ ~ after
    BY <1>4, <1>9
  <2>2. CASE r + 23269 < 25920
    <3>1. e = d + 383 /\ t = r + 23269
      BY <1>3, <1>9, <2>2 DEF YearsDays, YearsParts
    <3>2. v = (u + 5) % 7
      BY <1>2, <1>6, <1>7, <3>1
    <3> QED
      BY <1>2, <1>5, <1>8, <1>9, <2>1, <2>2, <3>1, <3>2 DEF PutOffBy
  <2>3. CASE r + 23269 >= 25920
    <3>1. e = d + 384 /\ t = r + 23269 - 25920
      BY <1>2, <1>3, <1>9, <2>3 DEF YearsDays, YearsParts
    <3>2. v = (u + 6) % 7
      BY <1>2, <1>6, <1>7, <3>1
    <3> QED
      BY <1>2, <1>5, <1>8, <1>9, <2>1, <2>3, <3>1, <3>2 DEF PutOffBy
  <2> QED
    BY <1>2, <2>2, <2>3
<1>10. CASE ~ leap
  <2>2. CASE r + 9516 < 25920
    <3>1. e = d + 354 /\ t = r + 9516
      BY <1>3, <1>10, <2>2 DEF YearsDays, YearsParts
    <3>2. v = (u + 4) % 7
      BY <1>2, <1>6, <1>7, <3>1
    <3> QED
      BY <1>2, <1>4, <1>5, <1>8, <1>10, <2>2, <3>1, <3>2 DEF PutOffBy
  <2>3. CASE r + 9516 >= 25920
    <3>1. e = d + 355 /\ t = r + 9516 - 25920
      BY <1>2, <1>3, <1>10, <2>3 DEF YearsDays, YearsParts
    <3>2. v = (u + 5) % 7
      BY <1>2, <1>6, <1>7, <3>1
    <3> QED
      BY <1>2, <1>4, <1>5, <1>8, <1>10, <2>3, <3>1, <3>2 DEF PutOffBy
  <2> QED
    BY <1>2, <2>2, <2>3
<1> QED
  BY <1>4, <1>9, <1>10

LEMMA NewYearsGrow ==
  ASSUME NEW y \in Int, NEW z \in Int, y < z
  PROVE  NewYearOf(y) + 300 <= NewYearOf(z)
<1> DEFINE b == MonthsBefore(y)
<1> DEFINE c == MonthsBefore(z)
<1> DEFINE d == Molad(y).days
<1> DEFINE e == Molad(z).days
<1> DEFINE r == Molad(y).remainder
<1> DEFINE t == Molad(z).remainder
<1> DEFINE o == Dechiyos(y, Molad(y))
<1> DEFINE p == Dechiyos(z, Molad(z))
<1>1. b \in Int /\ c \in Int /\ b + 12 <= c
  <2>1. /\ b \in Int /\ c \in Int
        /\ b = (235 * (y - 1) + 1) \div 19 /\ c = (235 * (z - 1) + 1) \div 19
    BY MonthsBeforeIs
  <2> HIDE DEF b, c
  <2> QED
    BY <2>1
<1>2. /\ d \in Int /\ r \in Int /\ 0 <= r /\ r < 25920
      /\ 25920 * (d - 29 * b) + r = 31524 + 13753 * b
      /\ e \in Int /\ t \in Int /\ 0 <= t /\ t < 25920
      /\ 25920 * (e - 29 * c) + t = 31524 + 13753 * c
  BY MoladIs
<1>3. o \in 0 .. 2 /\ p \in 0 .. 2
  BY DechiyosIs
<1>4. NewYearOf(y) = d + o + HebrewEpoch + 1 /\ NewYearOf(z) = e + p + HebrewEpoch + 1
  BY DEF NewYearOf
<1>5. HebrewEpoch \in Int
  BY DEF HebrewEpoch
<1> HIDE DEF b, c, d, e, r, t, o, p
<1>6. d + 302 <= e
  BY <1>1, <1>2, SMT
<1> QED
  BY <1>2, <1>3, <1>4, <1>5, <1>6

LEMMA OneYear ==
  ASSUME NEW y \in Int, NEW z \in Int, NEW n \in Int,
         NewYearOf(y) <= n, n < NewYearOf(y + 1), NewYearOf(z) <= n, n < NewYearOf(z + 1)
  PROVE  y = z
<1>1. /\ NewYearOf(y) \in Int /\ NewYearOf(z) \in Int
      /\ NewYearOf(y + 1) \in Int /\ NewYearOf(z + 1) \in Int
  <2>1. y + 1 \in Int /\ z + 1 \in Int
    OBVIOUS
  <2> QED
    BY <2>1, DechiyosIs
<1>2. CASE y < z
  <2>1. NewYearOf(y + 1) <= NewYearOf(z)
    <3>1. CASE y + 1 = z
      BY <1>1, <3>1
    <3>2. CASE y + 1 # z
      <4>1. y + 1 \in Int /\ y + 1 < z
        BY <1>2, <3>2
      <4>2. NewYearOf(y + 1) + 300 <= NewYearOf(z)
        BY <4>1, NewYearsGrow
      <4> QED
        BY <1>1, <4>2
    <3> QED
      BY <3>1, <3>2
  <2> QED
    BY <1>1, <2>1
<1>3. CASE z < y
  <2>1. NewYearOf(z + 1) <= NewYearOf(y)
    <3>1. CASE z + 1 = y
      BY <1>1, <3>1
    <3>2. CASE z + 1 # y
      <4>1. z + 1 \in Int /\ z + 1 < y
        BY <1>3, <3>2
      <4>2. NewYearOf(z + 1) + 300 <= NewYearOf(y)
        BY <4>1, NewYearsGrow
      <4> QED
        BY <1>1, <4>2
    <3> QED
      BY <3>1, <3>2
  <2> QED
    BY <1>1, <2>1
<1> QED
  BY <1>2, <1>3

(* The guess of the year is never later, nor three years early.            *)
LEMMA HebrewGuess ==
  ASSUME NEW n, KnownDay(n)
  PROVE  LET guess == ((n - HebrewEpoch) * 19) \div 6940
         IN  /\ guess \in Int /\ n \in Int
             /\ NewYearOf(guess) <= n /\ n < NewYearOf(guess + 3)
<1> DEFINE g == ((n - HebrewEpoch) * 19) \div 6940
<1> DEFINE x == n - HebrewEpoch
<1>1. n \in Int /\ x \in Int /\ 0 <= x /\ x <= 2400000 /\ HebrewEpoch \in Int
  BY SMT DEF KnownDay, HebrewEpoch
<1>2. g = (x * 19) \div 6940
  OBVIOUS
<1> DEFINE h == g + 3
<1> DEFINE b == MonthsBefore(g)
<1> DEFINE c == MonthsBefore(h)
<1> DEFINE d == Molad(g).days
<1> DEFINE e == Molad(h).days
<1> DEFINE r == Molad(g).remainder
<1> DEFINE t == Molad(h).remainder
<1> DEFINE o == Dechiyos(g, Molad(g))
<1> DEFINE p == Dechiyos(h, Molad(h))
<1>3. n = x + HebrewEpoch
  BY <1>1
<1> HIDE DEF x
<1>4. g \in Int /\ 6940 * g <= 19 * x /\ 19 * x < 6940 * g + 6940 /\ 0 <= g
  BY <1>1, <1>2, SMT
<1> HIDE DEF g
<1>5. h \in Int /\ h = g + 3
  BY <1>4
<1> SUFFICES g \in Int /\ n \in Int /\ NewYearOf(g) <= n /\ n < NewYearOf(h)
  BY DEF g, x
<1> HIDE DEF h
<1>6. /\ b \in Int /\ c \in Int
      /\ b = (235 * (g - 1) + 1) \div 19 /\ c = (235 * (h - 1) + 1) \div 19
  BY <1>4, <1>5, MonthsBeforeIs
<1>7. /\ d \in Int /\ r \in Int /\ 0 <= r /\ r < 25920
      /\ 25920 * (d - 29 * b) + r = 31524 + 13753 * b
      /\ e \in Int /\ t \in Int /\ 0 <= t /\ t < 25920
      /\ 25920 * (e - 29 * c) + t = 31524 + 13753 * c
  BY <1>4, <1>5, MoladIs
<1>8. o \in 0 .. 2 /\ p \in 0 .. 2
  <2>1. g \in Int /\ h \in Int
    BY <1>4, <1>5
  <2>2. o \in 0 .. 2
    BY <2>1, DechiyosIs
  <2>3. p \in 0 .. 2
    BY <2>1, DechiyosIs
  <2> QED
    BY <2>2, <2>3
<1>9. NewYearOf(g) = d + o + HebrewEpoch + 1 /\ NewYearOf(h) = e + p + HebrewEpoch + 1
  BY DEF NewYearOf
<1> HIDE DEF b, c, d, e, r, t, o, p
<1>10. 19 * b <= 235 * (g - 1) + 1 /\ 235 * (h - 1) + 1 < 19 * c + 19
  BY <1>4, <1>5, <1>6
<1>11. d + 3 <= x
  BY <1>1, <1>4, <1>6, <1>7, <1>10, SMT
<1>12. x < e + 1
  BY <1>1, <1>4, <1>5, <1>6, <1>7, <1>10, SMT
<1> QED
  BY <1>1, <1>3, <1>4, <1>7, <1>8, <1>9, <1>11, <1>12, SMT

(* A day whose year is in the tables; the last year of them only marks the *)
(* end of the one before.                                                  *)
Covers(from, to, n) ==
  /\ from \in Nat /\ to \in Nat /\ HebrewYears = from .. to
  /\ NewYear[from] <= n /\ n < NewYear[to]

LEMMA NewYearIs ==
  ASSUME NEW y \in HebrewYears
  PROVE  NewYear[y] = NewYearOf(y) /\ y \in Int
BY YearsAssumption DEF NewYear, NewYearOf

LEMMA YearOfIs ==
  ASSUME NEW n, KnownDay(n), NEW from, NEW to, from <= to, Covers(from, to, n)
  PROVE  LET y == YearOf(n)
         IN  /\ y \in Int /\ from <= y /\ y + 1 <= to
             /\ y \in HebrewYears /\ y + 1 \in HebrewYears
             /\ NewYear[y] = NewYearOf(y) /\ NewYear[y + 1] = NewYearOf(y + 1)
             /\ NewYearOf(y) <= n /\ n < NewYearOf(y + 1)
<1> DEFINE g == ((n - HebrewEpoch) * 19) \div 6940
<1>1. /\ g \in Int /\ n \in Int /\ NewYearOf(g) <= n /\ n < NewYearOf(g + 3)
  BY HebrewGuess
<1>2. /\ from \in Nat /\ to \in Nat /\ HebrewYears = from .. to
      /\ from \in HebrewYears /\ to \in HebrewYears
      /\ NewYearOf(from) <= n /\ n < NewYearOf(to)
  <2>1. from \in Nat /\ to \in Nat /\ HebrewYears = from .. to
    BY DEF Covers
  <2>2. from \in HebrewYears /\ to \in HebrewYears
    BY <2>1
  <2> QED
    BY <2>1, <2>2, NewYearIs DEF Covers
<1>3. YearOf(n) = CHOOSE y \in g .. (g + 2) :
                    y \in HebrewYears /\ NewYear[y] <= n /\ n < NewYear[y + 1]
  BY DEF YearOf
<1> HIDE DEF g
<1>4. PICK y \in g .. (g + 2) : NewYearOf(y) <= n /\ n < NewYearOf(y + 1)
  <2>1. \A k \in {g, g + 1, g + 2, g + 3} : NewYearOf(k) \in Int
    BY <1>1, DechiyosIs
  <2>2. /\ g \in g .. (g + 2) /\ g + 1 \in g .. (g + 2) /\ g + 2 \in g .. (g + 2)
        /\ (g + 1) + 1 = g + 2 /\ (g + 2) + 1 = g + 3
    BY <1>1
  <2>3. CASE n < NewYearOf(g + 1)
    BY <1>1, <2>2, <2>3
  <2>4. CASE NewYearOf(g + 1) <= n /\ n < NewYearOf(g + 2)
    BY <2>2, <2>4
  <2>5. CASE NewYearOf(g + 2) <= n
    BY <1>1, <2>2, <2>5
  <2> QED
    BY <1>1, <2>1, <2>3, <2>4, <2>5
<1>5. y \in Int /\ NewYearOf(y) \in Int /\ NewYearOf(y + 1) \in Int
      /\ NewYearOf(from) \in Int /\ NewYearOf(to) \in Int
  <2>1. y \in Int
    BY <1>1
  <2>2. y + 1 \in Int /\ from \in Int /\ to \in Int
    BY <1>2, <2>1
  <2> QED
    BY <2>1, <2>2, DechiyosIs
<1>6. from <= y
  <2> SUFFICES ASSUME y < from
               PROVE  FALSE
    BY <1>2, <1>5
  <2>1. CASE y + 1 = from
    BY <1>1, <1>2, <1>4, <1>5, <2>1
  <2>2. CASE y + 1 < from
    <3>1. y + 1 \in Int /\ from \in Int
      BY <1>2, <1>5
    <3>2. NewYearOf(y + 1) + 300 <= NewYearOf(from)
      BY <2>2, <3>1, NewYearsGrow
    <3> QED
      BY <1>1, <1>2, <1>4, <1>5, <3>2
  <2> QED
    BY <1>2, <1>5, <2>1, <2>2
<1>7. y + 1 <= to
  <2> SUFFICES ASSUME to <= y
               PROVE  FALSE
    BY <1>2, <1>5
  <2>1. CASE y = to
    BY <1>1, <1>2, <1>4, <1>5, <2>1
  <2>2. CASE to < y
    <3>1. to \in Int
      BY <1>2
    <3>2. NewYearOf(to) + 300 <= NewYearOf(y)
      BY <1>5, <2>2, <3>1, NewYearsGrow
    <3> QED
      BY <1>1, <1>2, <1>4, <1>5, <3>2
  <2> QED
    BY <1>2, <1>5, <2>1, <2>2
<1>8. y \in HebrewYears /\ y + 1 \in HebrewYears
  BY <1>2, <1>5, <1>6, <1>7
<1>9. ASSUME NEW z \in g .. (g + 2), z \in HebrewYears, NewYear[z] <= n, n < NewYear[z + 1]
      PROVE  z = y
  <2>1. z \in Int /\ NewYear[z] = NewYearOf(z)
    BY <1>9, NewYearIs
  <2>2. z # to
    BY <1>1, <1>2, <1>5, <1>9, <2>1
  <2>3. z + 1 \in HebrewYears
    BY <1>2, <1>9, <2>1, <2>2
  <2>4. NewYear[z + 1] = NewYearOf(z + 1)
    BY <2>3, NewYearIs
  <2> QED
    BY <1>1, <1>4, <1>5, <1>9, <2>1, <2>4, OneYear
<1>10. NewYear[y] = NewYearOf(y) /\ NewYear[y + 1] = NewYearOf(y + 1)
  BY <1>8, NewYearIs
<1>11. YearOf(n) = y
  BY <1>3, <1>4, <1>8, <1>9, <1>10
<1> QED
  BY <1>4, <1>5, <1>6, <1>7, <1>8, <1>10, <1>11

-----------------------------------------------------------------------------
(* The months of a Hebrew year, by whether it is a leap year and by the    *)
(* last digit of its length: 3 is short, 4 regular and 5 full.             *)
AMonth(leap, m) == m \in Int /\ 1 <= m /\ m <= IF leap THEN 13 ELSE 12
AYear(leap, u) == leap \in BOOLEAN /\ u \in {3, 4, 5}

\* The days of the second and of the third month.
Cheshvan(u) == IF u = 5 THEN 30 ELSE 29
Kislev(u) == IF u = 3 THEN 29 ELSE 30

HebrewLength(leap, u, m) ==
  IF m \in {2, 4, 6, 10, 13} \/ (m = 12 /\ ~leap) THEN 29
  ELSE IF m = 8 THEN Cheshvan(u) ELSE IF m = 9 THEN Kislev(u) ELSE 30

\* From 1 Tishrei to the first of Nisan, and to the first of a month.
ToNisan(leap, u) == (IF leap THEN 148 ELSE 118) + Cheshvan(u) + Kislev(u)
ToMonth(leap, u, m) ==
  CASE m = 7 -> 0
    [] m = 8 -> 30
    [] m = 9 -> 30 + Cheshvan(u)
    [] m = 10 -> 30 + Cheshvan(u) + Kislev(u)
    [] m = 11 -> 59 + Cheshvan(u) + Kislev(u)
    [] m = 12 -> 89 + Cheshvan(u) + Kislev(u)
    [] m = 13 -> 119 + Cheshvan(u) + Kislev(u)
    [] m = 1 -> ToNisan(leap, u)
    [] m = 2 -> ToNisan(leap, u) + 30
    [] m = 3 -> ToNisan(leap, u) + 59
    [] m = 4 -> ToNisan(leap, u) + 89
    [] m = 5 -> ToNisan(leap, u) + 118
    [] m = 6 -> ToNisan(leap, u) + 148

YearTotal(leap, u) == ToNisan(leap, u) + 177

NextMonth(leap, m) == IF m = (IF leap THEN 13 ELSE 12) THEN 1 ELSE m + 1

LEMMA AMonthIs ==
  ASSUME NEW leap, NEW u, AYear(leap, u), NEW m, AMonth(leap, m)
  PROVE  /\ m \in {1, 2, 3, 4, 5, 6, 7, 8, 9, 10, 11, 12, 13}
         /\ m = 13 => leap
BY DEF AMonth, AYear

LEMMA MonthsBegin ==
  ASSUME NEW leap, NEW u, AYear(leap, u), NEW m, AMonth(leap, m)
  PROVE  LET c == Cheshvan(u)
             s == Kislev(u)
             nisan == IF leap THEN 148 ELSE 118
             a == ToMonth(leap, u, m)
             l == HebrewLength(leap, u, m)
         IN  /\ c \in {29, 30} /\ s \in {29, 30} /\ leap \in BOOLEAN
             /\ m = 7 => a = 0 /\ l = 30
             /\ m = 8 => a = 30 /\ l = c
             /\ m = 9 => a = 30 + c /\ l = s
             /\ m = 10 => a = 30 + c + s /\ l = 29
             /\ m = 11 => a = 59 + c + s /\ l = 30
             /\ m = 12 => a = 89 + c + s /\ l = IF leap THEN 30 ELSE 29
             /\ m = 13 => a = 119 + c + s /\ l = 29 /\ leap
             /\ m = 1 => a = nisan + c + s /\ l = 30
             /\ m = 2 => a = nisan + c + s + 30 /\ l = 29
             /\ m = 3 => a = nisan + c + s + 59 /\ l = 30
             /\ m = 4 => a = nisan + c + s + 89 /\ l = 29
             /\ m = 5 => a = nisan + c + s + 118 /\ l = 30
             /\ m = 6 => a = nisan + c + s + 148 /\ l = 29
             /\ YearTotal(leap, u) = nisan + c + s + 177
<1>1. Cheshvan(u) \in {29, 30} /\ Kislev(u) \in {29, 30} /\ leap \in BOOLEAN
  BY DEF Cheshvan, Kislev, AYear
<1>2. m = 13 => leap
  BY AMonthIs
<1> QED
  BY <1>1, <1>2 DEF ToMonth, HebrewLength, ToNisan, YearTotal

LEMMA MonthsInOrder ==
  ASSUME NEW leap, NEW u, AYear(leap, u), NEW m, AMonth(leap, m)
  PROVE  LET a == ToMonth(leap, u, m)
             l == HebrewLength(leap, u, m)
         IN  /\ a \in Int /\ l \in {29, 30} /\ 0 <= a /\ a + l <= YearTotal(leap, u)
             /\ m = 6 => a + l = YearTotal(leap, u)
<1> DEFINE a == ToMonth(leap, u, m)
<1> DEFINE l == HebrewLength(leap, u, m)
<1> DEFINE c == Cheshvan(u)
<1> DEFINE s == Kislev(u)
<1> DEFINE nisan == IF leap THEN 148 ELSE 118
<1> DEFINE total == YearTotal(leap, u)
<1>1. /\ c \in {29, 30} /\ s \in {29, 30} /\ leap \in BOOLEAN
      /\ m = 7 => a = 0 /\ l = 30
      /\ m = 8 => a = 30 /\ l = c
      /\ m = 9 => a = 30 + c /\ l = s
      /\ m = 10 => a = 30 + c + s /\ l = 29
      /\ m = 11 => a = 59 + c + s /\ l = 30
      /\ m = 12 => a = 89 + c + s /\ l = IF leap THEN 30 ELSE 29
      /\ m = 13 => a = 119 + c + s /\ l = 29 /\ leap
      /\ m = 1 => a = nisan + c + s /\ l = 30
      /\ m = 2 => a = nisan + c + s + 30 /\ l = 29
      /\ m = 3 => a = nisan + c + s + 59 /\ l = 30
      /\ m = 4 => a = nisan + c + s + 89 /\ l = 29
      /\ m = 5 => a = nisan + c + s + 118 /\ l = 30
      /\ m = 6 => a = nisan + c + s + 148 /\ l = 29
      /\ total = nisan + c + s + 177
  BY MonthsBegin
<1>2. m \in {1, 2, 3, 4, 5, 6, 7, 8, 9, 10, 11, 12, 13}
  BY AMonthIs
<1>3. nisan \in Int /\ 118 <= nisan
  OBVIOUS
<1> SUFFICES /\ a \in Int /\ l \in {29, 30} /\ 0 <= a /\ a + l <= total
             /\ m = 6 => a + l = total
  OBVIOUS
<1> HIDE DEF a, l, c, s, nisan, total
<1> QED
  BY <1>1, <1>2, <1>3

LEMMA NextMonthBegins ==
  ASSUME NEW leap, NEW u, AYear(leap, u), NEW m, AMonth(leap, m), m # 6
  PROVE  /\ AMonth(leap, NextMonth(leap, m))
         /\ ToMonth(leap, u, NextMonth(leap, m)) = ToMonth(leap, u, m) + HebrewLength(leap, u, m)
<1>1. leap \in BOOLEAN
  BY DEF AYear
<1>2. m \in {1, 2, 3, 4, 5, 7, 8, 9, 10, 11, 12, 13} /\ (m = 13 => leap)
  BY AMonthIs
<1>3. AMonth(leap, NextMonth(leap, m))
  BY <1>1, <1>2 DEF AMonth, NextMonth
<1> DEFINE c == Cheshvan(u)
<1> DEFINE s == Kislev(u)
<1>4. c \in {29, 30} /\ s \in {29, 30}
  BY DEF Cheshvan, Kislev
<1>5. CASE m \in {1, 2, 3, 4, 5}
  <2>1. NextMonth(leap, m) = m + 1
    BY <1>1, <1>5 DEF NextMonth
  <2> DEFINE n == ToNisan(leap, u)
  <2>2. n \in Int
    BY <1>1, <1>4 DEF ToNisan
  <2>3. ToMonth(leap, u, m + 1) = ToMonth(leap, u, m) + HebrewLength(leap, u, m)
    <3> HIDE DEF n
    <3>1. /\ ToMonth(leap, u, 1) = n /\ HebrewLength(leap, u, 1) = 30
          /\ ToMonth(leap, u, 2) = n + 30 /\ HebrewLength(leap, u, 2) = 29
          /\ ToMonth(leap, u, 3) = n + 59 /\ HebrewLength(leap, u, 3) = 30
          /\ ToMonth(leap, u, 4) = n + 89 /\ HebrewLength(leap, u, 4) = 29
          /\ ToMonth(leap, u, 5) = n + 118 /\ HebrewLength(leap, u, 5) = 30
          /\ ToMonth(leap, u, 6) = n + 148
      BY DEF ToMonth, HebrewLength, n
    <3> QED
      BY <1>5, <2>2, <3>1
  <2> QED
    BY <1>3, <2>1, <2>3
<1>6. CASE m \in {7, 8, 9, 10, 11}
  <2>1. NextMonth(leap, m) = m + 1
    BY <1>1, <1>6 DEF NextMonth
  <2>2. ToMonth(leap, u, m + 1) = ToMonth(leap, u, m) + HebrewLength(leap, u, m)
    <3>1. /\ ToMonth(leap, u, 7) = 0 /\ HebrewLength(leap, u, 7) = 30
          /\ ToMonth(leap, u, 8) = 30 /\ HebrewLength(leap, u, 8) = c
          /\ ToMonth(leap, u, 9) = 30 + c /\ HebrewLength(leap, u, 9) = s
          /\ ToMonth(leap, u, 10) = 30 + c + s /\ HebrewLength(leap, u, 10) = 29
          /\ ToMonth(leap, u, 11) = 59 + c + s /\ HebrewLength(leap, u, 11) = 30
          /\ ToMonth(leap, u, 12) = 89 + c + s
      BY DEF ToMonth, HebrewLength
    <3> HIDE DEF c, s
    <3> QED
      BY <1>4, <1>6, <3>1
  <2> QED
    BY <1>3, <2>1, <2>2
<1>7. CASE m \in {12, 13} /\ leap
  <2>1. /\ NextMonth(leap, 12) = 13 /\ NextMonth(leap, 13) = 1
        /\ ToMonth(leap, u, 12) = 89 + c + s /\ HebrewLength(leap, u, 12) = 30
        /\ ToMonth(leap, u, 13) = 119 + c + s /\ HebrewLength(leap, u, 13) = 29
        /\ ToMonth(leap, u, 1) = 148 + c + s
    BY <1>7 DEF ToMonth, HebrewLength, NextMonth, ToNisan
  <2>2. c \in Int /\ s \in Int
    BY <1>4
  <2> HIDE DEF c, s
  <2>3. CASE m = 12
    BY <1>3, <2>1, <2>2, <2>3
  <2>4. CASE m = 13
    BY <1>3, <2>1, <2>2, <2>4
  <2> QED
    BY <1>7, <2>3, <2>4
<1>8. CASE m = 12 /\ ~leap
  <2>1. /\ NextMonth(leap, 12) = 1
        /\ ToMonth(leap, u, 12) = 89 + c + s /\ HebrewLength(leap, u, 12) = 29
        /\ ToMonth(leap, u, 1) = 118 + c + s
    BY <1>8 DEF ToMonth, HebrewLength, NextMonth, ToNisan
  <2> HIDE DEF c, s
  <2> QED
    BY <1>3, <1>4, <1>8, <2>1
<1> QED
  BY <1>1, <1>2, <1>5, <1>6, <1>7, <1>8

\* Where a month comes in the year, Tishrei first.
Place(leap, m) == IF m >= 7 THEN m - 6 ELSE IF leap THEN m + 7 ELSE m + 6

\* Of two months the one that comes first ends before the other begins.
LEMMA MonthsApart ==
  ASSUME NEW leap, NEW u, AYear(leap, u), NEW m, AMonth(leap, m), NEW k, AMonth(leap, k),
         Place(leap, m) < Place(leap, k)
  PROVE  ToMonth(leap, u, m) + HebrewLength(leap, u, m) <= ToMonth(leap, u, k)
<1>1. /\ m \in {1, 2, 3, 4, 5, 6, 7, 8, 9, 10, 11, 12, 13} /\ (m = 13 => leap)
      /\ k \in {1, 2, 3, 4, 5, 6, 7, 8, 9, 10, 11, 12, 13} /\ (k = 13 => leap)
  BY AMonthIs
<1> DEFINE c == Cheshvan(u)
<1> DEFINE s == Kislev(u)
<1>2. c \in {29, 30} /\ s \in {29, 30}
  BY DEF Cheshvan, Kislev
<1>3. leap \in BOOLEAN
  BY DEF AYear
<1> DEFINE a == ToMonth(leap, u, m)
<1> DEFINE b == ToMonth(leap, u, k)
<1> DEFINE l == HebrewLength(leap, u, m)
<1> DEFINE nisan == IF leap THEN 148 ELSE 118
<1>4. /\ m = 7 => a = 0 /\ l = 30
      /\ m = 8 => a = 30 /\ l = c
      /\ m = 9 => a = 30 + c /\ l = s
      /\ m = 10 => a = 30 + c + s /\ l = 29
      /\ m = 11 => a = 59 + c + s /\ l = 30
      /\ m = 12 => a = 89 + c + s /\ l = IF leap THEN 30 ELSE 29
      /\ m = 13 => a = 119 + c + s /\ l = 29
      /\ m = 1 => a = nisan + c + s /\ l = 30
      /\ m = 2 => a = nisan + c + s + 30 /\ l = 29
      /\ m = 3 => a = nisan + c + s + 59 /\ l = 30
      /\ m = 4 => a = nisan + c + s + 89 /\ l = 29
      /\ m = 5 => a = nisan + c + s + 118 /\ l = 30
      /\ m = 6 => a = nisan + c + s + 148 /\ l = 29
  BY MonthsBegin
<1>5. /\ k = 7 => b = 0
      /\ k = 8 => b = 30
      /\ k = 9 => b = 30 + c
      /\ k = 10 => b = 30 + c + s
      /\ k = 11 => b = 59 + c + s
      /\ k = 12 => b = 89 + c + s
      /\ k = 13 => b = 119 + c + s
      /\ k = 1 => b = nisan + c + s
      /\ k = 2 => b = nisan + c + s + 30
      /\ k = 3 => b = nisan + c + s + 59
      /\ k = 4 => b = nisan + c + s + 89
      /\ k = 5 => b = nisan + c + s + 118
      /\ k = 6 => b = nisan + c + s + 148
  BY MonthsBegin
<1>6. nisan \in Int /\ (leap => nisan = 148) /\ (~leap => nisan = 118)
  OBVIOUS
<1> SUFFICES a + l <= b
  OBVIOUS
<1>8. Place(leap, m) < Place(leap, k)
  OBVIOUS
<1> HIDE DEF a, b, c, s, l, nisan
<1>9. CASE m \in {1, 2, 3, 4, 5, 6} /\ k \in {1, 2, 3, 4, 5, 6}
  <2>1. m < k
    BY <1>3, <1>8, <1>9 DEF Place
  <2> QED
    BY <1>2, <1>4, <1>5, <1>6, <1>9, <2>1
<1>10. CASE m \in {7, 8, 9, 10, 11, 12, 13} /\ k \in {1, 2, 3, 4, 5, 6}
  BY <1>1, <1>2, <1>3, <1>4, <1>5, <1>6, <1>10
<1>11. CASE m \in {7, 8, 9, 10, 11, 12, 13} /\ k \in {7, 8, 9, 10, 11, 12, 13}
  <2>1. m < k
    BY <1>3, <1>8, <1>11 DEF Place
  <2> QED
    BY <1>1, <1>2, <1>3, <1>4, <1>5, <1>11, <2>1
<1>12. CASE m \in {1, 2, 3, 4, 5, 6} /\ k \in {7, 8, 9, 10, 11, 12, 13}
  BY <1>1, <1>3, <1>8, <1>12 DEF Place
<1> QED
  BY <1>1, <1>9, <1>10, <1>11, <1>12

\* A day of the year, counted from 0, is a day of a month.
LEMMA MonthOfTheYear ==
  ASSUME NEW leap, NEW u, AYear(leap, u), NEW k \in Int, 0 <= k, k < YearTotal(leap, u)
  PROVE  \E m : /\ AMonth(leap, m) /\ ToMonth(leap, u, m) <= k
                /\ k < ToMonth(leap, u, m) + HebrewLength(leap, u, m)
<1> DEFINE In(m) == /\ ToMonth(leap, u, m) <= k
                    /\ k < ToMonth(leap, u, m) + HebrewLength(leap, u, m)
<1> DEFINE c == Cheshvan(u)
<1> DEFINE s == Kislev(u)
<1>1. c \in {29, 30} /\ s \in {29, 30} /\ leap \in BOOLEAN
  BY DEF Cheshvan, Kislev, AYear
<1>2. k < (IF leap THEN 325 ELSE 295) + c + s
  BY <1>1 DEF YearTotal, ToNisan
<1>3. CASE k < 89 + c + s
  <2>1. \/ In(7) \/ In(8) \/ In(9) \/ In(10) \/ In(11)
    <3>1. /\ ToMonth(leap, u, 7) = 0 /\ HebrewLength(leap, u, 7) = 30
          /\ ToMonth(leap, u, 8) = 30 /\ HebrewLength(leap, u, 8) = c
          /\ ToMonth(leap, u, 9) = 30 + c /\ HebrewLength(leap, u, 9) = s
          /\ ToMonth(leap, u, 10) = 30 + c + s /\ HebrewLength(leap, u, 10) = 29
          /\ ToMonth(leap, u, 11) = 59 + c + s /\ HebrewLength(leap, u, 11) = 30
      BY DEF ToMonth, HebrewLength
    <3> HIDE DEF c, s
    <3> QED
      BY <1>1, <1>3, <3>1
  <2>2. AMonth(leap, 7) /\ AMonth(leap, 8) /\ AMonth(leap, 9) /\ AMonth(leap, 10) /\ AMonth(leap, 11)
    BY DEF AMonth
  <2> QED
    BY <2>1, <2>2
<1>4. CASE 89 + c + s <= k /\ k < (IF leap THEN 148 ELSE 118) + c + s
  <2>1. CASE leap
    <3>1. /\ ToMonth(leap, u, 12) = 89 + c + s /\ HebrewLength(leap, u, 12) = 30
          /\ ToMonth(leap, u, 13) = 119 + c + s /\ HebrewLength(leap, u, 13) = 29
      BY <2>1 DEF ToMonth, HebrewLength
    <3>2. AMonth(leap, 12) /\ AMonth(leap, 13)
      BY <2>1 DEF AMonth
    <3>3. In(12) \/ In(13)
      <4>1. 89 + c + s <= k /\ k < 148 + c + s
        BY <1>4, <2>1
      <4>2. c \in Int /\ s \in Int
        BY <1>1
      <4> HIDE DEF c, s
      <4> QED
        BY <3>1, <4>1, <4>2
    <3> QED
      BY <3>2, <3>3
  <2>2. CASE ~leap
    <3>1. ToMonth(leap, u, 12) = 89 + c + s /\ HebrewLength(leap, u, 12) = 29
      BY <2>2 DEF ToMonth, HebrewLength
    <3>2. AMonth(leap, 12)
      BY DEF AMonth
    <3>3. In(12)
      <4> HIDE DEF c, s
      <4> QED
        BY <1>1, <1>4, <2>2, <3>1
    <3> QED
      BY <3>2, <3>3
  <2> QED
    BY <1>1, <2>1, <2>2
<1>5. CASE (IF leap THEN 148 ELSE 118) + c + s <= k
  <2> DEFINE n == ToNisan(leap, u)
  <2>1. n = (IF leap THEN 148 ELSE 118) + c + s /\ n \in Int
    BY <1>1 DEF ToNisan
  <2>2. /\ ToMonth(leap, u, 1) = n /\ HebrewLength(leap, u, 1) = 30
        /\ ToMonth(leap, u, 2) = n + 30 /\ HebrewLength(leap, u, 2) = 29
        /\ ToMonth(leap, u, 3) = n + 59 /\ HebrewLength(leap, u, 3) = 30
        /\ ToMonth(leap, u, 4) = n + 89 /\ HebrewLength(leap, u, 4) = 29
        /\ ToMonth(leap, u, 5) = n + 118 /\ HebrewLength(leap, u, 5) = 30
        /\ ToMonth(leap, u, 6) = n + 148 /\ HebrewLength(leap, u, 6) = 29
    BY DEF ToMonth, HebrewLength
  <2>3. n <= k /\ k < n + 177
    BY <1>5, <2>1 DEF YearTotal
  <2>4. In(1) \/ In(2) \/ In(3) \/ In(4) \/ In(5) \/ In(6)
    <3> HIDE DEF n
    <3> QED
      BY <2>1, <2>2, <2>3
  <2>5. /\ AMonth(leap, 1) /\ AMonth(leap, 2) /\ AMonth(leap, 3)
        /\ AMonth(leap, 4) /\ AMonth(leap, 5) /\ AMonth(leap, 6)
    BY DEF AMonth
  <2> QED
    BY <2>4, <2>5
<1> QED
  BY <1>1, <1>3, <1>4, <1>5

-----------------------------------------------------------------------------
(* The first days of the months                                            *)

LEMMA PartsJoined ==
  ASSUME NEW a \in Seq(Int), NEW b \in Seq(Int)
  PROVE  /\ a \o b \in Seq(Int) /\ Len(a \o b) = Len(a) + Len(b)
         /\ \A i \in Int : 1 <= i /\ i <= Len(a) => (a \o b)[i] = a[i]
         /\ \A i \in Int : Len(a) < i /\ i <= Len(a) + Len(b) => (a \o b)[i] = b[i - Len(a)]
OBVIOUS

LEMMA MonthsOfYear ==
  ASSUME NEW y
  PROVE  /\ IsLeap(y) => /\ Len(Months(y)) = 13
                         /\ \A i \in 1 .. 13 : Months(y)[i] = IF i <= 7 THEN i + 6 ELSE i - 7
         /\ ~IsLeap(y) => /\ Len(Months(y)) = 12
                          /\ \A i \in 1 .. 12 : Months(y)[i] = IF i <= 6 THEN i + 6 ELSE i - 6
<1> DEFINE a == <<7, 8, 9, 10, 11, 12>>
<1> DEFINE b == <<1, 2, 3, 4, 5, 6>>
<1>1. /\ a \in Seq(Int) /\ Len(a) = 6 /\ \A i \in 1 .. 6 : a[i] = i + 6
      /\ b \in Seq(Int) /\ Len(b) = 6 /\ \A i \in 1 .. 6 : b[i] = i
  <2>1. \A i \in 1 .. 6 : i \in {1, 2, 3, 4, 5, 6}
    OBVIOUS
  <2> QED
    BY <2>1
<1>2. CASE IsLeap(y)
  <2> DEFINE c == <<13>>
  <2>1. c \in Seq(Int) /\ Len(c) = 1 /\ c[1] = 13
    OBVIOUS
  <2>2. Months(y) = (a \o c) \o b
    BY <1>2 DEF Months
  <2> HIDE DEF a, b, c
  <2>3. /\ a \o c \in Seq(Int) /\ Len(a \o c) = 7
        /\ \A i \in 1 .. 7 : (a \o c)[i] = i + 6
    <3>1. /\ a \o c \in Seq(Int) /\ Len(a \o c) = Len(a) + Len(c)
          /\ \A i \in Int : 1 <= i /\ i <= Len(a) => (a \o c)[i] = a[i]
          /\ \A i \in Int : Len(a) < i /\ i <= Len(a) + Len(c) => (a \o c)[i] = c[i - Len(a)]
      BY <1>1, <2>1, PartsJoined
    <3>2. Len(a \o c) = 7
      BY <1>1, <2>1, <3>1
    <3>3. ASSUME NEW i \in 1 .. 6
          PROVE  (a \o c)[i] = i + 6
      BY <1>1, <3>1
    <3>4. (a \o c)[7] = 7 + 6
      BY <1>1, <2>1, <3>1
    <3>5. \A i \in 1 .. 7 : i \in 1 .. 6 \/ i = 7
      OBVIOUS
    <3>6. \A i \in 1 .. 7 : (a \o c)[i] = i + 6
      BY <3>3, <3>4, <3>5
    <3> QED
      BY <3>1, <3>2, <3>6
  <2> DEFINE d == a \o c
  <2> HIDE DEF d
  <2>4. Len(d \o b) = 13 /\ \A i \in 1 .. 13 : (d \o b)[i] = IF i <= 7 THEN i + 6 ELSE i - 7
    <3>1. d \in Seq(Int) /\ Len(d) = 7 /\ \A i \in 1 .. 7 : d[i] = i + 6
      BY <2>3 DEF d
    <3>2. /\ Len(d \o b) = Len(d) + Len(b)
          /\ \A i \in Int : 1 <= i /\ i <= Len(d) => (d \o b)[i] = d[i]
          /\ \A i \in Int : Len(d) < i /\ i <= Len(d) + Len(b) => (d \o b)[i] = b[i - Len(d)]
      BY <1>1, <3>1, PartsJoined
    <3>3. Len(d \o b) = 13
      BY <1>1, <3>1, <3>2
    <3>4. ASSUME NEW i \in 1 .. 7
          PROVE  (d \o b)[i] = i + 6
      BY <3>1, <3>2
    <3>5. ASSUME NEW i \in 1 .. 13, ~ i <= 7
          PROVE  (d \o b)[i] = i - 7
      <4>1. i - 7 \in 1 .. 6 /\ 7 < i /\ i <= 7 + 6 /\ i \in Int
        BY <3>5
      <4>2. (d \o b)[i] = b[i - 7]
        BY <1>1, <3>1, <3>2, <4>1
      <4> QED
        BY <1>1, <4>1, <4>2
    <3>6. \A i \in 1 .. 13 : i <= 7 => i \in 1 .. 7
      OBVIOUS
    <3> QED
      BY <3>3, <3>4, <3>5, <3>6
  <2> QED
    BY <1>2, <2>2, <2>4 DEF d
<1>3. CASE ~IsLeap(y)
  <2>1. Months(y) = (a \o <<>>) \o b
    BY <1>3 DEF Months
  <2> HIDE DEF a, b
  <2>2. a \o <<>> = a
    BY <1>1
  <2>3. Len(a \o b) = 12 /\ \A i \in 1 .. 12 : (a \o b)[i] = IF i <= 6 THEN i + 6 ELSE i - 6
    <3>1. /\ Len(a \o b) = Len(a) + Len(b)
          /\ \A i \in Int : 1 <= i /\ i <= Len(a) => (a \o b)[i] = a[i]
          /\ \A i \in Int : Len(a) < i /\ i <= Len(a) + Len(b) => (a \o b)[i] = b[i - Len(a)]
      BY <1>1, PartsJoined
    <3>2. \A i \in 1 .. 12 : i \in 1 .. 6 \/ (i - 6 \in 1 .. 6 /\ ~ i <= 6)
      OBVIOUS
    <3> QED
      BY <1>1, <3>1, <3>2
  <2> QED
    BY <1>3, <2>1, <2>2, <2>3
<1> QED
  BY <1>2, <1>3

\* What the table has of a year.
InTable(from, to, y) ==
  /\ from \in Nat /\ to \in Nat /\ HebrewYears = from .. to
  /\ y \in from .. (to - 1)

Kind(y) == DaysInYear(y) % 10

LEMMA YearsOfTable ==
  ASSUME NEW from, NEW to, NEW y, InTable(from, to, y)
  PROVE  /\ y \in Min(HebrewYears) .. (Max(HebrewYears) - 1)
         /\ y \in HebrewYears /\ y + 1 \in HebrewYears /\ y \in Int
<1>1. /\ from \in Int /\ to \in Int /\ y \in Int /\ from <= y /\ y + 1 <= to
      /\ HebrewYears = from .. to
  BY DEF InTable
<1>2. y \in HebrewYears /\ y + 1 \in HebrewYears
  BY <1>1
<1>3. to \in HebrewYears /\ \A z \in HebrewYears : z \in Int /\ z <= to /\ from <= z
  BY <1>1
<1>4. from \in HebrewYears
  BY <1>1
<1>5. Max(HebrewYears) = to
  BY <1>1, <1>3, MaxIs
<1>6. Min(HebrewYears) = from
  BY <1>1, <1>3, <1>4 DEF Min
<1> QED
  BY <1>1, <1>2, <1>5, <1>6

LEMMA YearIs ==
  ASSUME NEW from, NEW to, NEW y, InTable(from, to, y)
  PROVE  /\ AYear(IsLeap(y), Kind(y)) /\ NewYear[y] \in Int
         /\ DaysInYear(y) = YearTotal(IsLeap(y), Kind(y))
         /\ NewYear[y + 1] = NewYear[y] + YearTotal(IsLeap(y), Kind(y))
         /\ \A m : AMonth(IsLeap(y), m) =>
              DaysInMonth(m, y) = HebrewLength(IsLeap(y), Kind(y), m)
<1>1. /\ y \in HebrewYears /\ y + 1 \in HebrewYears /\ y \in Int
  BY YearsOfTable
<1>2. NewYear[y] = NewYearOf(y) /\ NewYear[y + 1] = NewYearOf(y + 1)
  BY <1>1, NewYearIs
<1>3. NewYear[y] \in Int /\ NewYear[y + 1] \in Int
  <2>1. y + 1 \in Int
    BY <1>1
  <2> QED
    BY <1>1, <1>2, <2>1, DechiyosIs
<1>4. DaysInYear(y) \in IF IsLeap(y) THEN {383, 384, 385} ELSE {353, 354, 355}
  BY <1>1, <1>2, HebrewYearLength DEF DaysInYear
<1>5. IsLeap(y) \in BOOLEAN
  BY <1>1, LeapYearsApart
<1> DEFINE d == DaysInYear(y)
<1> DEFINE leap == IsLeap(y)
<1>6. Kind(y) = d % 10
  BY DEF Kind
<1> HIDE DEF d, leap
<1>7. /\ d \in IF leap THEN {383, 384, 385} ELSE {353, 354, 355}
      /\ leap \in BOOLEAN
  BY <1>4, <1>5 DEF d, leap
<1>8. /\ AYear(leap, d % 10) /\ d = YearTotal(leap, d % 10)
  <2>1. CASE leap
    <3>1. d \in {383, 384, 385}
      BY <1>7, <2>1
    <3> QED
      BY <1>7, <2>1, <3>1 DEF AYear, YearTotal, ToNisan, Cheshvan, Kislev
  <2>2. CASE ~leap
    <3>1. d \in {353, 354, 355}
      BY <1>7, <2>2
    <3> QED
      BY <1>7, <2>2, <3>1 DEF AYear, YearTotal, ToNisan, Cheshvan, Kislev
  <2> QED
    BY <1>7, <2>1, <2>2
<1>9. NewYear[y + 1] = NewYear[y] + d
  <2>1. d = NewYear[y + 1] - NewYear[y]
    BY DEF DaysInYear, d
  <2> QED
    BY <1>3, <2>1
<1>10. ASSUME NEW m, AMonth(leap, m)
       PROVE  DaysInMonth(m, y) = HebrewLength(leap, d % 10, m)
  <2> DEFINE u == d % 10
  <2>1. u \in {3, 4, 5}
    BY <1>8 DEF AYear
  <2>2. DaysInMonth(m, y) =
          IF m \in {2, 4, 6, 10, 13} \/ (m = 8 /\ u # 5) \/ (m = 9 /\ u = 3) \/ (m = 12 /\ ~leap)
          THEN 29 ELSE 30
    BY DEF DaysInMonth, d, leap
  <2> HIDE DEF u
  <2>3. m = 8 => m \notin {2, 4, 6, 10, 13} /\ m # 9 /\ m # 12
    OBVIOUS
  <2>4. m = 9 => m \notin {2, 4, 6, 10, 13} /\ m # 8 /\ m # 12
    OBVIOUS
  <2> SUFFICES DaysInMonth(m, y) = HebrewLength(leap, u, m)
    BY DEF u
  <2> QED
    BY <1>7, <2>1, <2>2, <2>3, <2>4 DEF HebrewLength, Cheshvan, Kislev
<1> QED
  BY <1>3, <1>6, <1>8, <1>9, <1>10 DEF d, leap

LEMMA MonthsFollow ==
  ASSUME NEW y, IsLeap(y) \in BOOLEAN
  PROVE  LET months == Months(y)
             leap == IsLeap(y)
             len == Len(months)
         IN  /\ len \in {12, 13} /\ months[1] = 7
             /\ \A i \in 2 .. len : /\ AMonth(leap, months[i - 1]) /\ months[i - 1] # 6
                                    /\ months[i] = NextMonth(leap, months[i - 1])
             /\ \A m : AMonth(leap, m) => /\ NumberFromTishrei(y, m) \in 1 .. len
                                          /\ months[NumberFromTishrei(y, m)] = m
                                          /\ m \in 1 .. len
<1> DEFINE months == Months(y)
<1> DEFINE leap == IsLeap(y)
<1> DEFINE len == Len(months)
<1>1. /\ leap => len = 13 /\ \A i \in 1 .. 13 : months[i] = IF i <= 7 THEN i + 6 ELSE i - 7
      /\ ~leap => len = 12 /\ \A i \in 1 .. 12 : months[i] = IF i <= 6 THEN i + 6 ELSE i - 6
  BY MonthsOfYear
<1>2. \A m : NumberFromTishrei(y, m) = IF leap THEN 1 + ((m + 6) % 13) ELSE 1 + ((m + 5) % 12)
  BY DEF NumberFromTishrei
<1> SUFFICES /\ len \in {12, 13} /\ months[1] = 7
             /\ \A i \in 2 .. len : /\ AMonth(leap, months[i - 1]) /\ months[i - 1] # 6
                                    /\ months[i] = NextMonth(leap, months[i - 1])
             /\ \A m : AMonth(leap, m) => /\ NumberFromTishrei(y, m) \in 1 .. len
                                          /\ months[NumberFromTishrei(y, m)] = m
                                          /\ m \in 1 .. len
  OBVIOUS
<1>3. leap \in BOOLEAN
  OBVIOUS
<1> HIDE DEF months, leap, len
<1>4. CASE leap
  <2>1. months[1] = 7
    BY <1>1, <1>4
  <2>2. ASSUME NEW i \in 2 .. 13
        PROVE  /\ AMonth(leap, months[i - 1]) /\ months[i - 1] # 6
               /\ months[i] = NextMonth(leap, months[i - 1])
    <3>1. /\ i - 1 \in 1 .. 13 /\ i \in 1 .. 13
      OBVIOUS
    <3>2. /\ months[i] = IF i <= 7 THEN i + 6 ELSE i - 7
          /\ months[i - 1] = IF i - 1 <= 7 THEN (i - 1) + 6 ELSE (i - 1) - 7
      BY <1>1, <1>4, <3>1
    <3> QED
      BY <1>4, <3>2 DEF AMonth, NextMonth
  <2>3. ASSUME NEW m, AMonth(leap, m)
        PROVE  /\ NumberFromTishrei(y, m) \in 1 .. 13
               /\ months[NumberFromTishrei(y, m)] = m /\ m \in 1 .. 13
    <3> DEFINE k == NumberFromTishrei(y, m)
    <3>1. m \in 1 .. 13 /\ k = 1 + ((m + 6) % 13)
      BY <1>2, <1>4, <2>3 DEF AMonth
    <3> HIDE DEF k
    <3>2. k \in 1 .. 13 /\ k = IF m >= 7 THEN m - 6 ELSE m + 7
      BY <3>1
    <3>3. months[k] = m
      BY <1>1, <1>4, <3>1, <3>2
    <3> QED
      BY <3>1, <3>2, <3>3 DEF k
  <2> QED
    BY <1>1, <1>4, <2>1, <2>2, <2>3
<1>5. CASE ~leap
  <2>1. months[1] = 7
    BY <1>1, <1>5
  <2>2. ASSUME NEW i \in 2 .. 12
        PROVE  /\ AMonth(leap, months[i - 1]) /\ months[i - 1] # 6
               /\ months[i] = NextMonth(leap, months[i - 1])
    <3>1. /\ i - 1 \in 1 .. 12 /\ i \in 1 .. 12
      OBVIOUS
    <3>2. /\ months[i] = IF i <= 6 THEN i + 6 ELSE i - 6
          /\ months[i - 1] = IF i - 1 <= 6 THEN (i - 1) + 6 ELSE (i - 1) - 6
      BY <1>1, <1>5, <3>1
    <3> QED
      BY <1>5, <3>2 DEF AMonth, NextMonth
  <2>3. ASSUME NEW m, AMonth(leap, m)
        PROVE  /\ NumberFromTishrei(y, m) \in 1 .. 12
               /\ months[NumberFromTishrei(y, m)] = m /\ m \in 1 .. 12
    <3> DEFINE k == NumberFromTishrei(y, m)
    <3>1. m \in 1 .. 12 /\ k = 1 + ((m + 5) % 12)
      BY <1>2, <1>5, <2>3 DEF AMonth
    <3> HIDE DEF k
    <3>2. k \in 1 .. 12 /\ k = IF m >= 7 THEN m - 6 ELSE m + 6
      BY <3>1
    <3>3. months[k] = m
      BY <1>1, <1>5, <3>1, <3>2
    <3> QED
      BY <3>1, <3>2, <3>3 DEF k
  <2> QED
    BY <1>1, <1>5, <2>1, <2>2, <2>3
<1> QED
  BY <1>3, <1>4, <1>5

LEMMA MonthStartIs ==
  ASSUME NEW from, NEW to, NEW y, InTable(from, to, y), NEW m, AMonth(IsLeap(y), m)
  PROVE  /\ m \in 1 .. Len(Months(y))
         /\ MonthStart[y][m] = NewYear[y] + ToMonth(IsLeap(y), Kind(y), m)
<1> DEFINE months == Months(y)
<1> DEFINE leap == IsLeap(y)
<1> DEFINE u == Kind(y)
<1> DEFINE len == Len(months)
<1> DEFINE Rec(f) == [i \in 1 .. len |->
                        IF i = 1 THEN NewYear[y]
                        ELSE f[i - 1] + DaysInMonth(months[i - 1], y)]
<1> DEFINE start == CHOOSE f : f = Rec(f)
<1> DEFINE g == [i \in 1 .. len |-> NewYear[y] + ToMonth(leap, u, months[i])]
<1>1. MonthStart[y] = [k \in 1 .. len |-> start[NumberFromTishrei(y, k)]]
  BY YearsOfTable DEF MonthStart
<1>2. /\ AYear(leap, u) /\ NewYear[y] \in Int /\ leap \in BOOLEAN
      /\ \A k : AMonth(leap, k) => DaysInMonth(k, y) = HebrewLength(leap, u, k)
  BY YearIs DEF AYear
<1>3. /\ len \in {12, 13} /\ months[1] = 7
      /\ \A i \in 2 .. len : /\ AMonth(leap, months[i - 1]) /\ months[i - 1] # 6
                             /\ months[i] = NextMonth(leap, months[i - 1])
      /\ \A k : AMonth(leap, k) => /\ NumberFromTishrei(y, k) \in 1 .. len
                                   /\ months[NumberFromTishrei(y, k)] = k
                                   /\ k \in 1 .. len
  BY <1>2, MonthsFollow
<1> HIDE DEF months, leap, u, len
<1>4. 1 \in 1 .. len /\ g[1] = NewYear[y]
  <2>1. ToMonth(leap, u, 7) = 0
    BY DEF ToMonth
  <2>2. 1 \in 1 .. len
    BY <1>3
  <2>3. g[1] = NewYear[y] + ToMonth(leap, u, 7)
    BY <1>3, <2>2
  <2> HIDE DEF g
  <2> QED
    BY <1>2, <2>1, <2>2, <2>3
<1>5. ASSUME NEW i \in 2 .. len
      PROVE  /\ i \in 1 .. len /\ i - 1 \in 1 .. len /\ i # 1
             /\ g[i] = g[i - 1] + DaysInMonth(months[i - 1], y)
  <2> DEFINE k == months[i - 1]
  <2>1. i \in 1 .. len /\ i - 1 \in 1 .. len /\ i # 1
    BY <1>3
  <2>2. AMonth(leap, k) /\ k # 6 /\ months[i] = NextMonth(leap, k)
    BY <1>3
  <2>3. g[i] = NewYear[y] + ToMonth(leap, u, NextMonth(leap, k)) /\ g[i - 1] = NewYear[y] + ToMonth(leap, u, k)
    BY <2>1, <2>2
  <2> HIDE DEF k, g
  <2>4. /\ ToMonth(leap, u, NextMonth(leap, k)) = ToMonth(leap, u, k) + HebrewLength(leap, u, k)
        /\ ToMonth(leap, u, k) \in Int /\ HebrewLength(leap, u, k) \in Int
    BY <1>2, <2>2, NextMonthBegins, MonthsInOrder
  <2>5. DaysInMonth(k, y) = HebrewLength(leap, u, k)
    BY <1>2, <2>2
  <2>6. g[i] = g[i - 1] + DaysInMonth(k, y)
    BY <1>2, <2>3, <2>4, <2>5
  <2> QED
    BY <2>1, <2>6 DEF k
<1>6. g = Rec(g)
  <2>1. \A i \in 1 .. len : g[i] = Rec(g)[i]
    <3> SUFFICES ASSUME NEW i \in 1 .. len
                 PROVE  g[i] = Rec(g)[i]
      OBVIOUS
    <3>1. CASE i = 1
      BY <1>4, <3>1
    <3>2. CASE i # 1
      <4>1. i \in 2 .. len
        BY <1>3, <3>2
      <4> HIDE DEF g
      <4> QED
        BY <1>5, <3>2, <4>1
    <3> QED
      BY <3>1, <3>2
  <2> QED
    BY <2>1
<1>7. start = Rec(start)
  <2>1. \E f : f = Rec(f)
    <3> HIDE DEF g, Rec
    <3> QED
      BY <1>6
  <2> HIDE DEF Rec
  <2> QED
    BY <2>1
<1> DEFINE Good(i) == start[i] = g[i]
<1>8. Good(1)
  <2> HIDE DEF start, g
  <2>1. start[1] = Rec(start)[1]
    BY <1>7
  <2> QED
    BY <1>4, <2>1
<1>9. ASSUME NEW i \in 2 .. len, Good(i - 1)
      PROVE  Good(i)
  <2> HIDE DEF start, g
  <2>1. start[i] = Rec(start)[i]
    BY <1>7
  <2>2. start[i] = start[i - 1] + DaysInMonth(months[i - 1], y)
    BY <1>5, <2>1
  <2> QED
    BY <1>5, <1>9, <2>2
<1> HIDE DEF start, g, Good
<1>10. \A i \in 1 .. len : Good(i)
  <2>1. Good(1) /\ Good(2) /\ Good(3) /\ Good(4)
    BY <1>3, <1>8, <1>9
  <2>2. Good(5) /\ Good(6) /\ Good(7) /\ Good(8)
    BY <1>3, <1>9, <2>1
  <2>3. Good(9) /\ Good(10) /\ Good(11) /\ Good(12)
    BY <1>3, <1>9, <2>2
  <2>4. len = 13 => Good(13)
    BY <1>9, <2>3
  <2>5. \A i \in 1 .. len : i \in {1, 2, 3, 4, 5, 6, 7, 8, 9, 10, 11, 12} \/ (i = 13 /\ len = 13)
    BY <1>3
  <2> QED
    BY <2>1, <2>2, <2>3, <2>4, <2>5
<1> DEFINE n == NumberFromTishrei(y, m)
<1>11. AMonth(leap, m) /\ n \in 1 .. len /\ months[n] = m /\ m \in 1 .. len
  BY <1>3 DEF leap
<1>12. MonthStart[y][m] = g[n]
  BY <1>1, <1>10, <1>11 DEF Good
<1>13. g[n] = NewYear[y] + ToMonth(leap, u, m)
  BY <1>11 DEF g
<1> QED
  BY <1>11, <1>12, <1>13 DEF leap, u, len, months

HebrewDate(y, m, d) == [year |-> y, month |-> m, day |-> d]

DayIn(leap, u, m, d) ==
  AMonth(leap, m) /\ d \in Int /\ 1 <= d /\ d <= HebrewLength(leap, u, m)

\* The date of a year in the table.
InYear(from, to, y, m, d) == InTable(from, to, y) /\ DayIn(IsLeap(y), Kind(y), m, d)

LEMMA HebrewDayIs ==
  ASSUME NEW from, NEW to, NEW y, InTable(from, to, y), NEW m, AMonth(IsLeap(y), m),
         NEW d \in Int
  PROVE  /\ HebrewDay(y, m, d) = (NewYear[y] + (ToMonth(IsLeap(y), Kind(y), m) + d)) - 1
         /\ HebrewDay(y, m, d) \in Int
<1>1. MonthStart[y][m] = NewYear[y] + ToMonth(IsLeap(y), Kind(y), m)
  BY MonthStartIs
<1>2. AYear(IsLeap(y), Kind(y)) /\ NewYear[y] \in Int
  BY YearIs
<1>3. ToMonth(IsLeap(y), Kind(y), m) \in Int
  BY <1>2, MonthsInOrder
<1> DEFINE a == MonthStart[y][m]
<1> DEFINE b == NewYear[y]
<1> DEFINE c == ToMonth(IsLeap(y), Kind(y), m)
<1>4. HebrewDay(y, m, d) = a + d - 1
  BY DEF HebrewDay
<1>5. a = b + c /\ b \in Int /\ c \in Int
  BY <1>1, <1>2, <1>3
<1> HIDE DEF a, b, c
<1>6. HebrewDay(y, m, d) = (b + (c + d)) - 1 /\ HebrewDay(y, m, d) \in Int
  BY <1>4, <1>5
<1> QED
  BY <1>6 DEF b, c

\* Days of two months are two days.
LEMMA DaysApart ==
  ASSUME NEW leap, NEW u, AYear(leap, u), NEW m, NEW d, DayIn(leap, u, m, d),
         NEW k, NEW e, DayIn(leap, u, k, e),
         ToMonth(leap, u, m) + d = ToMonth(leap, u, k) + e
  PROVE  m = k /\ d = e
<1>1. /\ AMonth(leap, m) /\ AMonth(leap, k) /\ leap \in BOOLEAN
      /\ d \in Int /\ 1 <= d /\ d <= HebrewLength(leap, u, m)
      /\ e \in Int /\ 1 <= e /\ e <= HebrewLength(leap, u, k)
  BY DEF DayIn, AYear
<1>2. /\ ToMonth(leap, u, m) \in Int /\ HebrewLength(leap, u, m) \in Int
      /\ ToMonth(leap, u, k) \in Int /\ HebrewLength(leap, u, k) \in Int
  BY <1>1, MonthsInOrder
<1>3. ~ Place(leap, m) < Place(leap, k)
  <2> SUFFICES ASSUME Place(leap, m) < Place(leap, k)
               PROVE  FALSE
    OBVIOUS
  <2>1. ToMonth(leap, u, m) + HebrewLength(leap, u, m) <= ToMonth(leap, u, k)
    BY <1>1, MonthsApart
  <2> QED
    BY <1>1, <1>2, <2>1
<1>4. ~ Place(leap, k) < Place(leap, m)
  <2> SUFFICES ASSUME Place(leap, k) < Place(leap, m)
               PROVE  FALSE
    OBVIOUS
  <2>1. ToMonth(leap, u, k) + HebrewLength(leap, u, k) <= ToMonth(leap, u, m)
    BY <1>1, MonthsApart
  <2> QED
    BY <1>1, <1>2, <2>1
<1>5. m = k
  <2>1. m \in Int /\ 1 <= m /\ m <= (IF leap THEN 13 ELSE 12) /\ k \in Int /\ 1 <= k /\ k <= (IF leap THEN 13 ELSE 12)
    BY <1>1 DEF AMonth
  <2>2. Place(leap, m) = Place(leap, k)
    BY <1>1, <1>3, <1>4, <2>1 DEF Place
  <2> QED
    BY <1>1, <2>1, <2>2 DEF Place
<1> QED
  BY <1>1, <1>2, <1>5

LEMMA HebrewInIs ==
  ASSUME NEW from, NEW to, NEW y, NEW m, NEW d, InYear(from, to, y, m, d)
  PROVE  HebrewIn(y, HebrewDay(y, m, d)) = HebrewDate(y, m, d)
<1> DEFINE leap == IsLeap(y)
<1> DEFINE u == Kind(y)
<1> DEFINE n == HebrewDay(y, m, d)
<1> DEFINE S == {[year |-> y, month |-> k, day |-> n - MonthStart[y][k] + 1] : k \in 1 .. Len(Months(y))}
<1> DEFINE Is(h) == h.day \in 1 .. DaysInMonth(h.month, y)
<1>1. /\ InTable(from, to, y) /\ DayIn(leap, u, m, d) /\ AMonth(leap, m)
      /\ d \in Int /\ 1 <= d /\ d <= HebrewLength(leap, u, m)
  BY DEF InYear, DayIn
<1>2. /\ AYear(leap, u) /\ NewYear[y] \in Int /\ leap \in BOOLEAN
      /\ \A k : AMonth(leap, k) => DaysInMonth(k, y) = HebrewLength(leap, u, k)
  BY <1>1, YearIs DEF AYear
<1>3. \A k \in 1 .. Len(Months(y)) : AMonth(leap, k)
  <2>1. Len(Months(y)) = IF leap THEN 13 ELSE 12
    BY <1>2, MonthsOfYear
  <2> QED
    BY <1>2, <2>1 DEF AMonth
<1>4. n = (NewYear[y] + (ToMonth(leap, u, m) + d)) - 1
  BY <1>1, HebrewDayIs
<1> HIDE DEF leap, u, n
<1>5. ASSUME NEW k, AMonth(leap, k)
      PROVE  /\ k \in 1 .. Len(Months(y))
             /\ MonthStart[y][k] = NewYear[y] + ToMonth(leap, u, k)
             /\ ToMonth(leap, u, k) \in Int /\ HebrewLength(leap, u, k) \in Int
             /\ n - MonthStart[y][k] + 1 = (ToMonth(leap, u, m) + d) - ToMonth(leap, u, k)
  <2>1. k \in 1 .. Len(Months(y)) /\ MonthStart[y][k] = NewYear[y] + ToMonth(leap, u, k)
    BY <1>1, <1>5, MonthStartIs DEF leap, u
  <2>2. ToMonth(leap, u, k) \in Int /\ ToMonth(leap, u, m) \in Int /\ HebrewLength(leap, u, k) \in Int
    BY <1>1, <1>2, <1>5, MonthsInOrder
  <2> DEFINE b == NewYear[y]
  <2> DEFINE p == ToMonth(leap, u, m)
  <2> DEFINE q == ToMonth(leap, u, k)
  <2> DEFINE r == MonthStart[y][k]
  <2>3. b \in Int /\ p \in Int /\ q \in Int /\ d \in Int
    BY <1>1, <1>2, <2>2
  <2>4. n = (b + (p + d)) - 1 /\ r = b + q
    BY <1>4, <2>1
  <2>5. n - r + 1 = (p + d) - q
    <3> HIDE DEF b, p, q, r
    <3> QED
      BY <2>3, <2>4
  <2> QED
    BY <2>1, <2>2, <2>5
<1>6. HebrewDate(y, m, d) \in S /\ Is(HebrewDate(y, m, d))
  <2>1. /\ m \in 1 .. Len(Months(y)) /\ ToMonth(leap, u, m) \in Int /\ HebrewLength(leap, u, m) \in Int
        /\ n - MonthStart[y][m] + 1 = (ToMonth(leap, u, m) + d) - ToMonth(leap, u, m)
    BY <1>1, <1>5
  <2>2. n - MonthStart[y][m] + 1 = d
    BY <1>1, <2>1
  <2>3. HebrewDate(y, m, d) \in S
    BY <2>1, <2>2 DEF HebrewDate
  <2>4. HebrewDate(y, m, d).day = d /\ HebrewDate(y, m, d).month = m
    BY DEF HebrewDate
  <2>5. DaysInMonth(m, y) = HebrewLength(leap, u, m)
    BY <1>1, <1>2
  <2>6. d \in 1 .. HebrewLength(leap, u, m)
    BY <1>1, <2>1
  <2> QED
    BY <2>3, <2>4, <2>5, <2>6
<1>7. ASSUME NEW h \in S, Is(h)
      PROVE  h = HebrewDate(y, m, d)
  <2>1. PICK k \in 1 .. Len(Months(y)) : h = [year |-> y, month |-> k, day |-> n - MonthStart[y][k] + 1]
    OBVIOUS
  <2> DEFINE e == n - MonthStart[y][k] + 1
  <2>2. h = HebrewDate(y, k, e) /\ h.day = e /\ h.month = k
    BY <2>1 DEF HebrewDate
  <2>3. AMonth(leap, k)
    BY <1>3
  <2>4. /\ e = (ToMonth(leap, u, m) + d) - ToMonth(leap, u, k)
        /\ ToMonth(leap, u, k) \in Int /\ HebrewLength(leap, u, k) \in Int
        /\ ToMonth(leap, u, m) \in Int
    BY <1>1, <1>5, <2>3
  <2>5. e \in 1 .. HebrewLength(leap, u, k)
    BY <1>2, <1>7, <2>2, <2>3
  <2> HIDE DEF e
  <2> DEFINE p == ToMonth(leap, u, m)
  <2> DEFINE q == ToMonth(leap, u, k)
  <2>6. DayIn(leap, u, k, e) /\ p + d = q + e
    <3>1. p \in Int /\ q \in Int /\ d \in Int /\ e = (p + d) - q
      BY <1>1, <2>4
    <3>2. e \in Int /\ 1 <= e /\ e <= HebrewLength(leap, u, k)
      BY <2>4, <2>5
    <3> HIDE DEF p, q
    <3>3. p + d = q + e
      BY <3>1
    <3> QED
      BY <2>3, <3>2, <3>3 DEF DayIn
  <2>7. m = k /\ d = e
    BY <1>1, <1>2, <2>6, DaysApart
  <2> QED
    BY <2>2, <2>7
<1>8. HebrewIn(y, n) = CHOOSE h \in S : Is(h)
  BY DEF HebrewIn
<1> HIDE DEF S, Is
<1>9. (CHOOSE h \in S : Is(h)) = HebrewDate(y, m, d)
  BY <1>6, <1>7
<1> QED
  BY <1>8, <1>9 DEF n

\* The sunrise of a day comes before its sunset.
SunRises(sun) ==
  /\ {"sr_sea", "ss_sea"} \subseteq DOMAIN sun
  /\ sun["sr_sea"] \in Int /\ sun["ss_sea"] \in Int
  /\ sun["sr_sea"] <= sun["ss_sea"]

(* A product with the length of the day grows with the other factor, and  *)
(* rounding down keeps the order.                                          *)
LEMMA PartsInOrder ==
  ASSUME NEW d \in Nat, NEW p \in 0 .. 48, NEW q \in 0 .. 48, p <= q
  PROVE  /\ 0 <= (d * p) \div 48
         /\ (d * p) \div 48 <= (d * q) \div 48
         /\ (d * q) \div 48 <= d
<1>1. d * p \in Nat /\ d * q \in Nat /\ d * p <= d * q /\ d * q <= d * 48
  BY Z3
<1> DEFINE x == d * p
<1> DEFINE y == d * q
<1>2. x \in Nat /\ y \in Nat /\ x <= y /\ y <= d * 48
  BY <1>1
<1> HIDE DEF x, y
<1>3. 0 <= x \div 48 /\ x \div 48 <= y \div 48 /\ y \div 48 <= d
  BY <1>2
<1> QED
  BY <1>3 DEF x, y

(* The times that divide the day come in their order between sunrise and   *)
(* sunset, however short the day is: each is rounded down from a           *)
(* proportional hour on its own.  Up to noon those of the longer day come  *)
(* no later than those of the day from sunrise.                            *)
THEOREM ZmanimInOrder ==
  ASSUME NEW sun, SunRises(sun),
         NEW p \in 0 .. 48, NEW q \in 0 .. 48, p <= q
  PROVE  /\ sun["sr_sea"] <= Gra(sun, p)
         /\ Gra(sun, p) <= Gra(sun, q)
         /\ Gra(sun, q) <= sun["ss_sea"]
         /\ q <= 24 => Mga(sun, q) <= Gra(sun, q)
<1> DEFINE sr == sun["sr_sea"]
<1> DEFINE ss == sun["ss_sea"]
<1>1. sr \in Int /\ ss \in Int /\ sr <= ss
  BY DEF SunRises
<1> HIDE DEF sr, ss
<1>2. /\ 0 <= ((ss - sr) * p) \div 48
      /\ ((ss - sr) * p) \div 48 <= ((ss - sr) * q) \div 48
      /\ ((ss - sr) * q) \div 48 <= ss - sr
  <2>1. ss - sr \in Nat
    BY <1>1
  <2> QED
    BY <2>1, PartsInOrder
<1>3. q <= 24 => (sr - 3456) + (((ss + 3456) - (sr - 3456)) * q) \div 48
                   <= sr + ((ss - sr) * q) \div 48
  <2>1. ((ss + 3456) - (sr - 3456)) * q = (ss - sr) * q + 48 * (144 * q)
    BY <1>1, Z3
  <2> DEFINE z == (ss - sr) * q
  <2>2. z \in Int
    BY <1>1
  <2> HIDE DEF z
  <2>3. (z + 48 * (144 * q)) \div 48 = z \div 48 + 144 * q
    BY <2>2
  <2> QED
    BY <1>1, <2>1, <2>2, <2>3 DEF z
<1>4. /\ Gra(sun, p) = sr + ((ss - sr) * p) \div 48
      /\ Gra(sun, q) = sr + ((ss - sr) * q) \div 48
      /\ Mga(sun, q) = (sr - 3456) + (((ss + 3456) - (sr - 3456)) * q) \div 48
  <2>1. 72 * Minute = 3456
    BY DEF Minute
  <2> QED
    BY <2>1 DEF Gra, Mga, Shaos, Alos72, Tzais72, sr, ss
<1>5. /\ ((ss - sr) * p) \div 48 \in Int
      /\ ((ss - sr) * q) \div 48 \in Int
  BY <1>1
<1> QED
  BY <1>1, <1>2, <1>3, <1>4, <1>5 DEF sr, ss

MinutesOfDay == 0 .. 1439
ZmanMinutes == -1440 .. 2879

LEMMA MinuteOfDay ==
  ASSUME NEW h \in 0 .. 23, NEW m \in 0 .. 59
  PROVE  h * 60 + m \in MinutesOfDay
BY DEF MinutesOfDay

\* At most three days before its source day, at most three after it.
Near(t, n) == t \in Int /\ n * 1440 - 4320 <= t /\ t <= n * 1440 + 5759

LEMMA FixedNear ==
  \A n \in Nat, x \in MinutesOfDay, d \in UtcOffsets : Near(n * 1440 + x - d, n)
BY DEF Near, MinutesOfDay, UtcOffsets

LEMMA ZmanNear ==
  \A n \in Nat, z \in ZmanMinutes, d \in ZmanOffsets : Near(n * 1440 + z + d, n)
BY DEF Near, ZmanMinutes, ZmanOffsets

(* The minute of an occurrence by its source day.                          *)
LEMMA DueNear ==
  ASSUME NEW s, ValidTrigger(s.trigger), NEW where, SettingsNear(where),
         NEW n \in Nat, SunNear(where, n), NEW t \in DueMinute(s, n, where)
  PROVE  Near(t, n)
<1>1. CASE s.trigger.type = "fixed_time"
  <2>1. s.trigger.h \in 0 .. 23 /\ s.trigger.m \in 0 .. 59
    BY <1>1 DEF ValidTrigger
  <2>2. LocalMinute(s) \in MinutesOfDay
    BY <2>1, MinuteOfDay DEF LocalMinute
  <2>3. OffsetForLocal(where, n, LocalMinute(s)) \in UtcOffsets
    BY DEF UtcOffsets, OffsetForLocal, IsraelOffset, SettingsNear
  <2>4. t = n * 1440 + LocalMinute(s) - OffsetForLocal(where, n, LocalMinute(s))
    BY <1>1 DEF DueMinute, Day
  <2> QED
    <3>1. Near(n * 1440 + LocalMinute(s) - OffsetForLocal(where, n, LocalMinute(s)), n)
      BY <2>2, <2>3, FixedNear
    <3> QED
      BY <2>4, <3>1
<1>2. CASE s.trigger.type # "fixed_time"
  <2>1. PICK offset : /\ offset = IF s.trigger.type = "zman_offset" THEN s.trigger.offset ELSE 0
                      /\ offset \in ZmanOffsets
    <3>1. s.trigger.type = "zman_offset" => s.trigger.offset \in ZmanOffsets
      BY Zenon DEF ValidTrigger
    <3>2. 0 \in ZmanOffsets
      BY DEF ZmanOffsets
    <3> QED
      BY <3>1, <3>2
  <2>2. s.trigger.zman \in ZmanKeys
    BY <1>2 DEF ValidTrigger
  <2>3. t \in ZmanMinute(s.trigger.zman, offset, Sun(where, n), n)
    BY <1>2, <2>1 DEF DueMinute
  <2>4. /\ Needs(s.trigger.zman) \subseteq DOMAIN Sun(where, n)
        /\ t = n * 1440 + ZmanOf(s.trigger.zman, Sun(where, n)) \div Minute + offset
    BY <2>3 DEF ZmanMinute, Day
  <2>5. ZmanOf(s.trigger.zman, Sun(where, n)) \div Minute \in ZmanMinutes
    <3>1. Needs(s.trigger.zman) \subseteq DOMAIN Sun(where, n)
      BY <2>4
    <3>2. \A k \in ZmanKeys : Needs(k) \subseteq DOMAIN Sun(where, n)
                              => ZmanOf(k, Sun(where, n)) \div Minute \in ZmanMinutes
      BY DEF SunNear, ZmanMinutes
    <3> QED
      BY <2>2, <3>1, <3>2, Zenon
  <2> QED
    <3>1. Near(n * 1440 + ZmanOf(s.trigger.zman, Sun(where, n)) \div Minute + offset, n)
      BY <2>1, <2>5, ZmanNear
    <3> QED
      BY <2>4, <3>1
<1> QED
  BY <1>1, <1>2

(* No event of a window comes from a day the planner does not look at: the *)
(* scan takes three days before the window and three after it, for any     *)
(* valid trigger.                                                          *)
THEOREM ScanSuffices ==
  ASSUME NEW s, ValidTrigger(s.trigger), NEW where, SettingsNear(where),
         NEW n \in Nat \ {0}, SunNear(where, n), NEW t \in DueMinute(s, n, where),
         NEW lo \in Int, NEW hi \in Int, InWindow(t, lo, hi)
  PROVE  n \in FirstDay(lo) .. LastDay(hi)
<1>1. t \in Int /\ lo < t /\ t <= hi
  BY DueNear DEF InWindow, Near
<1>2. n * 1440 - 4320 <= t /\ t <= n * 1440 + 5759
  BY DueNear DEF Near
<1>3. /\ t \div 1440 <= n + 3 /\ n - 3 <= t \div 1440
      /\ lo \div 1440 <= t \div 1440 /\ t \div 1440 <= hi \div 1440
      /\ lo \div 1440 \in Int /\ hi \div 1440 \in Int /\ t \div 1440 \in Int
  BY <1>1, <1>2
<1>4. FirstDay(lo) <= n /\ FirstDay(lo) \in Int
  <2> DEFINE early == lo \div 1440 - 3
  <2>1. early \in Int /\ early <= n /\ 1 <= n
    BY <1>3
  <2> HIDE DEF early
  <2>2. CASE early <= 1
    <3>1. Max({1, early}) = 1
      BY <2>1, <2>2 DEF Max
    <3> QED
      BY <2>1, <3>1 DEF FirstDay, DayOf, Day, early
  <2>3. CASE early > 1
    <3>1. Max({1, early}) = early
      BY <2>1, <2>3 DEF Max
    <3> QED
      BY <2>1, <3>1 DEF FirstDay, DayOf, Day, early
  <2> QED
    BY <2>1, <2>2, <2>3
<1>5. n <= LastDay(hi) /\ LastDay(hi) \in Int
  BY <1>3 DEF LastDay, DayOf, Day
<1> QED
  BY <1>4, <1>5

-----------------------------------------------------------------------------
(* The new year is put off from three days of the week.                    *)

LEMMA MoladDays ==
  ASSUME NEW y \in Nat
  PROVE  Molad(y).days \in Int
<1>1. MonthsBefore(y) \in Int
  BY DEF MonthsBefore
<1> DEFINE months == MonthsBefore(y)
<1>2. 29 * months + (31524 + 13753 * months) \div 25920 \in Int
  BY <1>1
<1> QED
  BY <1>2 DEF Molad, ChalakimPerDay

(* Whatever the new moon of Tishrei and the rules that put the year off by *)
(* a day, Rosh Hashana falls on Monday, Tuesday, Thursday or Shabbat: the  *)
(* other days of the week would put Yom Kippur next to Shabbat.            *)
THEOREM NewYearOnFourDays ==
  ASSUME NEW y \in HebrewYears
  PROVE  DayOfWeek(NewYear[y]) \in {2, 3, 5, 7}
<1>1. y \in Nat
  BY YearsAssumption
<1> DEFINE days == Molad(y).days
<1> DEFINE first == IF Postponed(y, Molad(y)) THEN 1 ELSE 0
<1> DEFINE second == IF (days + 1 + first) % 7 \in {1, 4, 6} THEN 1 ELSE 0
<1>2. days \in Int
  BY <1>1, MoladDays
<1>3. first \in {0, 1}
  OBVIOUS
<1>4. DayOfWeek(NewYear[y]) = ((days + (first + second) + -1373429 + 1) % 7) + 1
  BY DEF NewYear, Dechiyos, DayOfWeek, HebrewEpoch
<1> HIDE DEF days, first
<1>5. ((days + (first + second) + -1373429 + 1) % 7) + 1 \in {2, 3, 5, 7}
  <2>1. CASE (days + 1 + first) % 7 \in {1, 4, 6}
    <3>1. second = 1
      BY <2>1
    <3> HIDE DEF second
    <3> QED
      BY <1>2, <1>3, <2>1, <3>1
  <2>2. CASE (days + 1 + first) % 7 \notin {1, 4, 6}
    <3>1. second = 0
      BY <2>2
    <3> HIDE DEF second
    <3> QED
      BY <1>2, <1>3, <2>2, <3>1
  <2> QED
    BY <2>1, <2>2
<1> QED
  BY <1>4, <1>5

-----------------------------------------------------------------------------
(* The rules of the recurrences                                            *)

FeastDays(inIsrael) ==
  {<<7, 1>>, <<7, 2>>, <<7, 10>>, <<7, 15>>, <<7, 22>>, <<1, 15>>, <<1, 21>>, <<3, 6>>}
    \cup (IF inIsrael THEN {} ELSE {<<7, 16>>, <<7, 23>>, <<1, 16>>, <<1, 22>>, <<3, 7>>})

Between(h, inIsrael) ==
  /\ <<h.month, h.day>> \notin FeastDays(inIsrael)
  /\ h.month \in {1, 7} /\ h.day \in 15 .. 21

LEMMA FeastDaysAre ==
  ASSUME NEW a, NEW b, NEW inIsrael \in BOOLEAN
  PROVE  <<a, b>> \in FeastDays(inIsrael) <=>
           \/ a = 7 /\ (b \in {1, 2, 10, 15, 22} \/ (~inIsrael /\ b \in {16, 23}))
           \/ a = 1 /\ (b \in {15, 21} \/ (~inIsrael /\ b \in {16, 22}))
           \/ a = 3 /\ (b = 6 \/ (~inIsrael /\ b = 7))
<1>1. \A c, d : <<a, b>> = <<c, d>> <=> a = c /\ b = d
  OBVIOUS
<1> QED
  BY <1>1 DEF FeastDays

LEMMA FeastIs ==
  ASSUME NEW h, NEW dow, NEW inIsrael \in BOOLEAN
  PROVE  /\ SignificantDay(h, dow, inIsrael) \in YomTovAssur
              <=> <<h.month, h.day>> \in FeastDays(inIsrael)
         /\ SignificantDay(h, dow, inIsrael) \in CholHamoed <=> Between(h, inIsrael)
<1> DEFINE sig == SignificantDay(h, dow, inIsrael)
<1> DEFINE Claim == /\ sig \in YomTovAssur <=> <<h.month, h.day>> \in FeastDays(inIsrael)
                    /\ sig \in CholHamoed <=> Between(h, inIsrael)
<1> SUFFICES Claim
  OBVIOUS
<1> USE DEF YomTovAssur, CholHamoed
<1>1. CASE h.month = 7
  <2>1. sig = Tishrei(h, dow, inIsrael)
    BY <1>1 DEF SignificantDay
  <2> HIDE DEF sig
  <2> QED
    BY <1>1, <2>1, FeastDaysAre DEF Tishrei, Between, Fast
<1>2. CASE h.month = 1
  <2>1. sig = Nisan(h, inIsrael)
    BY <1>2 DEF SignificantDay
  <2> HIDE DEF sig
  <2> QED
    BY <1>2, <2>1, FeastDaysAre DEF Nisan, Between
<1>3. CASE h.month = 3
  <2>1. sig = IF h.day = 5 THEN "erev_shavuos"
              ELSE IF h.day = 6 \/ (h.day = 7 /\ ~inIsrael) THEN "shavuos" ELSE "none"
    BY <1>3 DEF SignificantDay
  <2> HIDE DEF sig
  <2> QED
    BY <1>3, <2>1, FeastDaysAre DEF Between
<1>4. CASE h.month \notin {1, 3, 7}
  <2>1. sig \in {"erev_rosh_hashana", "chanukah", "tenth_of_teves", "tu_beshvat", "purim_katan",
                 "shushan_purim_katan", "taanis_esther", "purim", "shushan_purim", "pesach_sheni",
                 "lag_baomer", "seventeen_of_tammuz", "tisha_beav", "tu_beav", "none"}
    BY <1>4 DEF SignificantDay, PurimDay
  <2> HIDE DEF sig
  <2> QED
    BY <1>4, <2>1, FeastDaysAre DEF Between
<1> QED
  BY <1>1, <1>2, <1>3, <1>4

LEMMA SpanKnown ==
  ASSUME NEW n \in Span
  PROVE  n \in Int /\ KnownDay(n) /\ NewYearsDay(2013) <= n
<1>1. /\ DayOf(Start) \in Int /\ EndDay \in Int /\ EndDay + 12 <= 985500
      /\ NewYearsDay(2013) <= DayOf(Start) - 12
  BY ClockAssumption DEF DayOf, Day, KnownDay, MinYear, NewYearsDay
<1>2. 1 <= NewYearsDay(2013) /\ NewYearsDay(2013) \in Int
  <2>1. NewYearsDay(1) = 365 * (1 - 1) + LeapDays(1 - 1) + 1 /\ NewYearsDay(1) <= NewYearsDay(2013)
    BY NewYearsDayIs, YearsGrow
  <2>2. LeapDays(1 - 1) = 0
    BY DEF LeapDays
  <2> QED
    BY <2>1, <2>2, NewYearsDayIs
<1>3. n \in Int /\ DayOf(Start) - 12 <= n /\ n <= EndDay + 12
  BY <1>1 DEF Span
<1> QED
  BY <1>1, <1>2, <1>3 DEF KnownDay

LEMMA TablesAre ==
  ASSUME NEW n \in Span, NEW inIsrael \in BOOLEAN
  PROVE  Info[inIsrael][n] = DateInfo(n, inIsrael) /\ Date[n] = Gregorian(n)
BY DEF Info, Date

LEMMA InfoFields ==
  ASSUME NEW n \in Span, NEW inIsrael \in BOOLEAN
  PROVE  LET info == Info[inIsrael][n]
             sig == SignificantDay(Hebrew(n), DayOfWeek(n), inIsrael)
             later == SignificantDay(Hebrew(n + 1), DayOfWeek(n + 1), inIsrael)
         IN  /\ info.hebrew = Hebrew(n) /\ info.dow = DayOfWeek(n)
             /\ info.assur = IsAssur(DayOfWeek(n), sig)
             /\ info.erev = (later \in YomTovAssur)
             /\ info.motzei = (IsAssur(DayOfWeek(n), sig) /\ ~IsAssur((DayOfWeek(n) % 7) + 1, later))
             /\ info.cholHamoed = (sig \in CholHamoed)
             /\ info.roshChodesh = IsRoshChodesh(Hebrew(n))
<1> DEFINE sig == SignificantDay(Hebrew(n), DayOfWeek(n), inIsrael)
<1> DEFINE later == SignificantDay(Hebrew(n + 1), DayOfWeek(n + 1), inIsrael)
<1> DEFINE h == Hebrew(n)
<1> DEFINE dow == DayOfWeek(n)
<1> DEFINE info == Info[inIsrael][n]
<1>1. info = InfoBy(h, dow, sig, later)
  BY TablesAre DEF DateInfo
<1> HIDE DEF sig, later, h, dow, info
<1>2. /\ info.hebrew = h /\ info.dow = dow
      /\ info.assur = IsAssur(dow, sig)
      /\ info.erev = (later \in YomTovAssur)
      /\ info.motzei = (IsAssur(dow, sig) /\ ~IsAssur((dow % 7) + 1, later))
      /\ info.cholHamoed = (sig \in CholHamoed)
      /\ info.roshChodesh = IsRoshChodesh(h)
  BY <1>1 DEF InfoBy
<1> QED
  BY <1>2 DEF sig, later, h, dow, info

LEMMA WeekGoesOn ==
  ASSUME NEW n \in Int
  PROVE  /\ DayOfWeek(n + 1) = (DayOfWeek(n) % 7) + 1
         /\ DayOfWeek(n) = 6 <=> DayOfWeek(n + 1) = Shabbat
         /\ DayOfWeek(n) \in 1 .. 7
BY DEF DayOfWeek, Shabbat

LEMMA FeastOf ==
  ASSUME NEW n \in Span, place.inIsrael \in BOOLEAN
  PROVE  /\ IsFeast(n) <=> SignificantDay(Hebrew(n), DayOfWeek(n), place.inIsrael) \in YomTovAssur
         /\ IsBetween(n) <=> SignificantDay(Hebrew(n), DayOfWeek(n), place.inIsrael) \in CholHamoed
<1> DEFINE i == place.inIsrael
<1> DEFINE h == Hebrew(n)
<1>1. InfoOf(n).hebrew = h
  BY InfoFields DEF InfoOf
<1>2. Feasts = FeastDays(i)
  BY DEF Feasts, FeastDays
<1> HIDE DEF h, i
<1>3. IsFeast(n) <=> <<h.month, h.day>> \in FeastDays(i)
  BY <1>1, <1>2 DEF IsFeast
<1>4. IsBetween(n) <=> Between(h, i)
  BY <1>1, <1>3 DEF IsBetween, Between
<1>5. /\ SignificantDay(h, DayOfWeek(n), i) \in YomTovAssur <=> <<h.month, h.day>> \in FeastDays(i)
      /\ SignificantDay(h, DayOfWeek(n), i) \in CholHamoed <=> Between(h, i)
  <2>1. i \in BOOLEAN
    BY DEF i
  <2> QED
    BY <2>1, FeastIs
<1> QED
  BY <1>3, <1>4, <1>5 DEF h, i

LEMMA InfoRules ==
  ASSUME NEW n \in Span, n + 1 \in Span, place.inIsrael \in BOOLEAN
  PROVE  /\ InfoOf(n).dow = DayOfWeek(n)
         /\ InfoOf(n).assur <=> IsHoly(n)
         /\ (InfoOf(n).dow = 6 \/ InfoOf(n).erev) <=> DayOfWeek(n + 1) = Shabbat \/ IsFeast(n + 1)
         /\ InfoOf(n).motzei <=> IsHoly(n) /\ ~IsHoly(n + 1)
         /\ InfoOf(n).cholHamoed <=> IsBetween(n)
         /\ InfoOf(n).roshChodesh <=> IsRoshChodesh(InfoOf(n).hebrew)
<1> DEFINE i == place.inIsrael
<1> DEFINE sig == SignificantDay(Hebrew(n), DayOfWeek(n), i)
<1> DEFINE later == SignificantDay(Hebrew(n + 1), DayOfWeek(n + 1), i)
<1>1. n \in Int
  BY SpanKnown
<1>2. /\ InfoOf(n).hebrew = Hebrew(n) /\ InfoOf(n).dow = DayOfWeek(n)
      /\ InfoOf(n).assur = IsAssur(DayOfWeek(n), sig)
      /\ InfoOf(n).erev = (later \in YomTovAssur)
      /\ InfoOf(n).motzei = (IsAssur(DayOfWeek(n), sig) /\ ~IsAssur((DayOfWeek(n) % 7) + 1, later))
      /\ InfoOf(n).cholHamoed = (sig \in CholHamoed)
      /\ InfoOf(n).roshChodesh = IsRoshChodesh(Hebrew(n))
  BY InfoFields DEF InfoOf
<1>3. /\ IsFeast(n) <=> sig \in YomTovAssur
      /\ IsBetween(n) <=> sig \in CholHamoed
      /\ IsFeast(n + 1) <=> later \in YomTovAssur
  BY FeastOf
<1> HIDE DEF sig, later
<1>4. /\ IsHoly(n) <=> IsAssur(DayOfWeek(n), sig)
      /\ IsHoly(n + 1) <=> IsAssur((DayOfWeek(n) % 7) + 1, later)
  BY <1>1, <1>3, WeekGoesOn DEF IsHoly, IsAssur
<1>5. DayOfWeek(n) = 6 <=> DayOfWeek(n + 1) = Shabbat
  BY <1>1, WeekGoesOn
<1> QED
  BY <1>2, <1>3, <1>4, <1>5, Zenon

LEMMA MatchesIs ==
  ASSUME NEW s, ValidRecurrence(s.recurrence),
         NEW n \in Span, n + 1 \in Span, place.inIsrael \in BOOLEAN
  PROVE  MatchesRecurrence(s, n, InfoOf(n)) <=> ObservedBy(s.recurrence, InfoOf(n).hebrew, n)
<1> DEFINE r == s.recurrence
<1> DEFINE info == InfoOf(n)
<1> DEFINE date == Date[n]
<1>1. /\ info.dow = DayOfWeek(n)
      /\ info.assur <=> IsHoly(n)
      /\ (info.dow = 6 \/ info.erev) <=> DayOfWeek(n + 1) = Shabbat \/ IsFeast(n + 1)
      /\ info.motzei <=> IsHoly(n) /\ ~IsHoly(n + 1)
      /\ info.cholHamoed <=> IsBetween(n)
      /\ info.roshChodesh <=> IsRoshChodesh(info.hebrew)
  BY InfoRules
<1>2. /\ date = <<date[1], date[2], date[3]>>
      /\ IsGregorianDate(date[1], date[2], date[3])
      /\ GregorianDay(date[1], date[2], date[3]) = n
  BY SpanKnown, TablesAre, GregorianIs
<1>3. /\ MatchesRecurrence(s, n, info) =
           CASE r.type = "daily" -> TRUE
             [] r.type = "days_of_week" -> (info.dow - 2) % 7 \in r.days
             [] r.type = "assur_bemelacha" -> info.assur
             [] r.type = "erev_assur_bemelacha" -> info.dow = 6 \/ info.erev
             [] r.type = "motzei_assur_bemelacha" -> info.motzei
             [] r.type = "chol_hamoed" -> info.cholHamoed
             [] r.type = "rosh_chodesh" -> info.roshChodesh
             [] r.type = "hebrew_day_of_month" -> info.hebrew.day = r.day
             [] r.type = "hebrew_date" -> info.hebrew.month = r.month /\ info.hebrew.day = r.day
             [] r.type = "gregorian_date" -> date[2] = r.month /\ date[3] = r.day
             [] r.type = "one_time" -> date = <<r.y, r.m, r.d>>
  BY DEF MatchesRecurrence
<1>4. n \in Int
  BY SpanKnown
<1> SUFFICES MatchesRecurrence(s, n, info) <=> ObservedBy(r, info.hebrew, n)
  OBVIOUS
<1> HIDE DEF info, r, date
<1> USE DEF ObservedBy
<1>5. CASE r.type = "daily"
  BY <1>3, <1>5
<1>6. CASE r.type = "days_of_week"
  <2>1. r.days \subseteq 0 .. 6
    BY <1>6 DEF ValidRecurrence, Plain, r
  <2>2. (DayOfWeek(n) - 2) % 7 \in r.days <=> \E d \in r.days : DayOfWeek(n) % 7 = (d + 2) % 7
    <3>1. DayOfWeek(n) \in 1 .. 7
      BY <1>4, WeekGoesOn
    <3>2. \A w \in 1 .. 7 : (w - 2) % 7 \in 0 .. 6 /\ \A d \in 0 .. 6 : w % 7 = (d + 2) % 7 <=> d = (w - 2) % 7
      OBVIOUS
    <3> QED
      BY <2>1, <3>1, <3>2
  <2> QED
    BY <1>1, <1>3, <1>6, <2>2
<1>7. CASE r.type = "assur_bemelacha"
  BY <1>1, <1>3, <1>7
<1>8. CASE r.type = "erev_assur_bemelacha"
  BY <1>1, <1>3, <1>8
<1>9. CASE r.type = "motzei_assur_bemelacha"
  BY <1>1, <1>3, <1>9
<1>10. CASE r.type = "chol_hamoed"
  BY <1>1, <1>3, <1>10
<1>11. CASE r.type = "rosh_chodesh"
  BY <1>1, <1>3, <1>11 DEF IsRoshChodesh
<1>12. CASE r.type = "hebrew_day_of_month"
  BY <1>3, <1>12
<1>13. CASE r.type = "hebrew_date"
  BY <1>3, <1>13
<1>14. CASE r.type = "gregorian_date"
  <2>1. /\ MatchesRecurrence(s, n, info) <=> date[2] = r.month /\ date[3] = r.day
        /\ ObservedBy(r, info.hebrew, n) <=>
             /\ IsGregorianDate(date[1], r.month, r.day)
             /\ GregorianDay(date[1], r.month, r.day) = n
    BY <1>3, <1>14 DEF date
  <2>2. IsGregorianDate(date[1], r.month, r.day) /\ GregorianDay(date[1], r.month, r.day) = n
          => date[2] = r.month /\ date[3] = r.day
    BY <1>2, DatesUnique
  <2> QED
    BY <1>2, <2>1, <2>2
<1>15. CASE r.type = "one_time"
  <2>1. /\ MatchesRecurrence(s, n, info) <=> date = <<r.y, r.m, r.d>>
        /\ ObservedBy(r, info.hebrew, n) <=> GregorianDay(r.y, r.m, r.d) = n
    BY <1>3, <1>15
  <2>2. IsGregorianDate(r.y, r.m, r.d)
    BY <1>15 DEF ValidRecurrence, Plain, r
  <2>3. GregorianDay(r.y, r.m, r.d) = n => date[1] = r.y /\ date[2] = r.m /\ date[3] = r.d
    BY <1>2, <2>2, DatesUnique
  <2>4. date = <<r.y, r.m, r.d>> => GregorianDay(r.y, r.m, r.d) = n
    BY <1>2
  <2> QED
    BY <1>2, <2>1, <2>3, <2>4
<1>16. \/ r.type = "daily" \/ r.type = "days_of_week" \/ r.type = "assur_bemelacha"
       \/ r.type = "erev_assur_bemelacha" \/ r.type = "motzei_assur_bemelacha"
       \/ r.type = "chol_hamoed" \/ r.type = "rosh_chodesh"
       \/ r.type = "hebrew_day_of_month" \/ r.type = "hebrew_date"
       \/ r.type = "gregorian_date" \/ r.type = "one_time"
  BY DEF ValidRecurrence, Plain, r
<1>17. MatchesRecurrence(s, n, info) <=> ObservedBy(r, info.hebrew, n)
  BY <1>5, <1>6, <1>7, <1>8, <1>9, <1>10, <1>11, <1>12, <1>13, <1>14, <1>15, <1>16
<1> QED
  BY <1>17 DEF info, r

-----------------------------------------------------------------------------
(* The planner                                                             *)

Planned(i) == i \in DOMAIN book /\ Valid(book[i]) /\ book[i].enabled

Remembers(m) ==
  /\ m = [key |-> m.key, days |-> m.days, book |-> m.book, revision |-> m.revision]
  /\ m.days \subseteq Int /\ m.revision \in Int /\ m.revision <= revision
  /\ m.revision = revision => m.book = book

LEMMA MaxOfTwo ==
  ASSUME NEW a \in Int, NEW b \in Int
  PROVE  Max({a, b}) = IF a >= b THEN a ELSE b
<1>1. CASE a >= b
  BY <1>1, MaxIs
<1>2. CASE ~ a >= b
  BY <1>2, MaxIs
<1> QED
  BY <1>1, <1>2

LEMMA WindowIs ==
  ASSUME NEW since \in Int, NEW t \in Int, PlanWindow(since, t) # <<>>
  PROVE  \E lo \in Int : PlanWindow(since, t) = <<lo, t>> /\ t - 120 <= lo /\ lo <= t
<1>1. CASE since = 0
  <2>1. PlanWindow(since, t) = <<t - 120, t>>
    BY <1>1 DEF PlanWindow, CatchUp
  <2> QED
    BY <2>1
<1>2. CASE since # 0
  <2>1. since < t /\ PlanWindow(since, t) = <<Max({since, t - 120}), t>>
    BY <1>2 DEF PlanWindow, CatchUp
  <2>2. /\ Max({since, t - 120}) \in Int /\ t - 120 <= Max({since, t - 120})
        /\ Max({since, t - 120}) <= t
    BY <2>1, MaxOfTwo
  <2> QED
    BY <2>1, <2>2
<1> QED
  BY <1>1, <1>2

LEMMA TablesAround ==
  ASSUME NEW t \in Int, InTables(t), NEW lo \in Int, t - 120 <= lo, lo <= t,
         NEW n \in (DayOf(lo) - 4) .. (DayOf(t) + 5)
  PROVE  n \in Span
<1>1. DayOf(Start) \in Int /\ EndDay \in Int
  BY ClockAssumption DEF DayOf, Day
<1>2. DayOf(t) \in Int /\ DayOf(lo) \in Int /\ DayOf(t) - 1 <= DayOf(lo)
  BY DEF DayOf, Day
<1>3. DayOf(Start) - 7 <= DayOf(t) /\ DayOf(t) <= EndDay + 2
  BY <1>1, <1>2 DEF InTables
<1>4. n \in Int /\ DayOf(lo) - 4 <= n /\ n <= DayOf(t) + 5
  BY <1>2
<1> QED
  BY <1>1, <1>2, <1>3, <1>4 DEF Span

(* The windows that are looked at here: around a time that is in the tables. *)
Looked(lo, hi) ==
  /\ lo \in Int /\ hi \in Int /\ hi - 120 <= lo /\ lo <= hi
  /\ InTables(hi)

Scan(lo, hi) == FirstDay(lo) .. LastDay(hi)
PlannedOf == {i \in {i \in DOMAIN book : Valid(book[i])} : book[i].enabled}
LeftBy(m, lo, hi) ==
  IF PlannedOf = {} THEN m.days ELSE Kept(m.days \cup Scan(lo, hi))
MissedBy(m, i, lo, hi) ==
  Missed(IF i = Min(PlannedOf) THEN m.days ELSE LeftBy(m, lo, hi), Scan(lo, hi))

\* What makes a source day of a schedule fail.
Fails(m, i, n, lo, hi) ==
  \/ n \in MissedBy(m, i, lo, hi)
  \/ /\ n \in Scan(lo, hi)
     /\ MatchesRecurrence(book[i], n, InfoOf(n)) /\ Raises(book[i], n, place)

Succeeds(m, i, n, t, lo, hi) ==
  /\ n \in Scan(lo, hi) /\ n \notin MissedBy(m, i, lo, hi)
  /\ MatchesRecurrence(book[i], n, InfoOf(n)) /\ ~ Raises(book[i], n, place)
  /\ t \in DueMinute(book[i], n, place) /\ InWindow(t, lo, hi)

LEMMA ScanIn ==
  ASSUME NEW lo, NEW hi, Looked(lo, hi), NEW n \in Scan(lo, hi)
  PROVE  /\ n \in Int /\ n \in Span /\ n + 1 \in Span
         /\ n \in (DayOf(lo) - 3) .. (DayOf(hi) + 3)
<1>1. lo \in Int /\ hi \in Int /\ DayOf(lo) \in Int /\ DayOf(hi) \in Int
  BY DEF Looked, DayOf, Day
<1>2. FirstDay(lo) \in Int /\ DayOf(lo) - 3 <= FirstDay(lo)
  <2>1. DayOf(lo) - 3 \in Int /\ 1 \in Int
    BY <1>1
  <2> QED
    BY <2>1, MaxOfTwo DEF FirstDay
<1>3. n \in Int /\ DayOf(lo) - 3 <= n /\ n <= DayOf(hi) + 3
  BY <1>1, <1>2 DEF Scan, LastDay
<1>4. n \in (DayOf(lo) - 4) .. (DayOf(hi) + 5) /\ n + 1 \in (DayOf(lo) - 4) .. (DayOf(hi) + 5)
  BY <1>1, <1>3
<1> QED
  BY <1>1, <1>3, <1>4, TablesAround DEF Looked

LEMMA PairsAre ==
  /\ \A a, b : <<a>> # <<a, b>>
  /\ \A a, b, c : Len(<<a>>) = 1 /\ Len(<<a, b>>) = 2 /\ Len(<<a, b, c>>) = 3
OBVIOUS

(* The members of results.                                                 *)
LEMMA ResultsAre ==
  ASSUME NEW m, m.book = book, NEW lo, NEW hi, NEW e
  PROVE  e \in EventsBetween(m, lo, hi, place).results <=>
           \/ \E i \in DOMAIN book : ~ Valid(book[i]) /\ e = <<book[i].id>>
           \/ \E i \in PlannedOf :
                \/ \E n : Fails(m, i, n, lo, hi) /\ e = <<book[i].id, n>>
                \/ \E n, t : Succeeds(m, i, n, t, lo, hi) /\ e = <<book[i].id, n, t>>
<1> DEFINE scan == Scan(lo, hi)
<1> DEFINE missed(i) == MissedBy(m, i, lo, hi)
<1> DEFINE R(i) == ResultOf(book[i], scan, missed(i), lo, hi, place)
<1> DEFINE bad == DOMAIN book \ {i \in DOMAIN book : Valid(book[i])}
<1>1. EventsBetween(m, lo, hi, place).results =
        {<<book[i].id>> : i \in bad} \cup UNION {R(i) : i \in PlannedOf}
  BY DEF EventsBetween, Results, PlannedOf, MissedBy, LeftBy, Scan
<1>2. ASSUME NEW i \in PlannedOf
      PROVE  e \in R(i) <=>
               \/ \E n : Fails(m, i, n, lo, hi) /\ e = <<book[i].id, n>>
               \/ \E n, t : Succeeds(m, i, n, t, lo, hi) /\ e = <<book[i].id, n, t>>
  <2> DEFINE s == book[i]
  <2> DEFINE On(n) == EventsOn(s, n, lo, hi, place)
  <2> DEFINE days == {n \in scan \ missed(i) : MatchesRecurrence(s, n, InfoOf(n))}
  <2>1. R(i) = {<<s.id, n>> : n \in missed(i)} \cup UNION {On(n) : n \in days}
    BY DEF ResultOf, InfoOf
  <2>2. missed(i) \subseteq scan
    BY DEF MissedBy, Missed
  <2>3. \A n : e \in On(n) <=>
          \/ Raises(s, n, place) /\ e = <<s.id, n>>
          \/ /\ ~ Raises(s, n, place)
             /\ \E t : t \in DueMinute(s, n, place) /\ InWindow(t, lo, hi) /\ e = <<s.id, n, t>>
    BY DEF EventsOn
  <2> HIDE DEF On, R
  <2>4. e \in R(i) <=> \/ \E n \in missed(i) : e = <<s.id, n>>
                       \/ \E n \in days : e \in On(n)
    BY <2>1
  <2>5. (\E n \in days : e \in On(n)) <=>
          \/ \E n \in days : Raises(s, n, place) /\ e = <<s.id, n>>
          \/ \E n, t : Succeeds(m, i, n, t, lo, hi) /\ e = <<s.id, n, t>>
    BY <2>3 DEF Succeeds
  <2>6. (\E n : Fails(m, i, n, lo, hi) /\ e = <<s.id, n>>) <=>
          \/ \E n \in missed(i) : e = <<s.id, n>>
          \/ \E n \in days : Raises(s, n, place) /\ e = <<s.id, n>>
    BY <2>2 DEF Fails
  <2> QED
    BY <2>4, <2>5, <2>6
<1> HIDE DEF R
<1>3. e \in UNION {R(i) : i \in PlannedOf} <=> \E i \in PlannedOf : e \in R(i)
  OBVIOUS
<1>4. e \in {<<book[i].id>> : i \in bad} <=>
        \E i \in DOMAIN book : ~ Valid(book[i]) /\ e = <<book[i].id>>
  OBVIOUS
<1> QED
  BY <1>1, <1>2, <1>3, <1>4

LEMMA EventsAndErrors ==
  ASSUME NEW m, m.book = book, NEW lo, NEW hi
  PROVE  LET results == EventsBetween(m, lo, hi, place).results
         IN  /\ \A e : e \in Events(results) <=>
                  \E i \in PlannedOf : \E n, t :
                    Succeeds(m, i, n, t, lo, hi) /\ e = <<book[i].id, n, t>>
             /\ \A x, n : <<x, n>> \in Errors(results) <=>
                  \E i \in PlannedOf : Fails(m, i, n, lo, hi) /\ x = book[i].id
<1> DEFINE results == EventsBetween(m, lo, hi, place).results
<1>1. \A e : e \in results <=>
           \/ \E i \in DOMAIN book : ~ Valid(book[i]) /\ e = <<book[i].id>>
           \/ \E i \in PlannedOf :
                \/ \E n : Fails(m, i, n, lo, hi) /\ e = <<book[i].id, n>>
                \/ \E n, t : Succeeds(m, i, n, t, lo, hi) /\ e = <<book[i].id, n, t>>
  BY ResultsAre
<1> HIDE DEF results
<1>2. ASSUME NEW e
      PROVE  e \in Events(results) <=>
               \E i \in PlannedOf : \E n, t :
                 Succeeds(m, i, n, t, lo, hi) /\ e = <<book[i].id, n, t>>
  <2>1. e \in Events(results) <=> e \in results /\ Len(e) = 3
    BY DEF Events
  <2> QED
    BY <1>1, <2>1, PairsAre
<1>3. ASSUME NEW x, NEW n
      PROVE  <<x, n>> \in Errors(results) <=>
               \E i \in PlannedOf : Fails(m, i, n, lo, hi) /\ x = book[i].id
  <2>1. <<x, n>> \in Errors(results) <=> <<x, n>> \in results
    BY PairsAre DEF Errors
  <2>2. \A y, k : <<x, n>> = <<y, k>> <=> x = y /\ n = k
    OBVIOUS
  <2>3. \A y : <<x, n>> # <<y>>
    BY PairsAre
  <2>4. \A y, k, t : <<x, n>> # <<y, k, t>>
    BY PairsAre
  <2> QED
    BY <1>1, <2>1, <2>2, <2>3, <2>4
<1> QED
  BY <1>2, <1>3 DEF results

LEMMA OccurrencesAre ==
  ASSUME NEW lo, NEW hi, NEW e
  PROVE  e \in Occurrences(lo, hi) <=>
           \E i \in PlannedOf : \E n \in (DayOf(lo) - 4) .. (DayOf(hi) + 4) : \E t :
             /\ ObservedBy(book[i].recurrence, InfoOf(n).hebrew, n)
             /\ t \in DueMinute(book[i], n, place) /\ InWindow(t, lo, hi)
             /\ e = <<book[i].id, n, t>>
<1> DEFINE days == (DayOf(lo) - 4) .. (DayOf(hi) + 4)
<1> DEFINE On(s, n) == OccurrencesOn(s, n, lo, hi)
<1>1. e \in Occurrences(lo, hi) <=>
        \E s \in {book[i] : i \in {i \in DOMAIN book : Valid(book[i]) /\ book[i].enabled}},
           n \in days : e \in On(s, n)
  BY DEF Occurrences
<1>2. \A s, n : e \in On(s, n) <=>
        \E t : /\ ObservedBy(s.recurrence, InfoOf(n).hebrew, n)
               /\ t \in DueMinute(s, n, place) /\ InWindow(t, lo, hi)
               /\ e = <<s.id, n, t>>
  BY DEF OccurrencesOn, InWindow
<1> HIDE DEF On, days
<1>3. e \in Occurrences(lo, hi) <=> \E i \in PlannedOf, n \in days : e \in On(book[i], n)
  BY <1>1 DEF PlannedOf
<1> QED
  BY <1>2, <1>3 DEF days

LEMMA PlaceIs ==
  ASSUME place \in Places
  PROVE  place.inIsrael \in BOOLEAN /\ SettingsNear(place) /\ \A n \in Span : SunNear(place, n)
BY PlacesAssumption

(* A day that an event comes from is scanned.                              *)
LEMMA DayIsScanned ==
  ASSUME place \in Places, NEW i \in PlannedOf, NEW lo, NEW hi, Looked(lo, hi),
         NEW n \in (DayOf(lo) - 4) .. (DayOf(hi) + 4), NEW t,
         t \in DueMinute(book[i], n, place), InWindow(t, lo, hi)
  PROVE  n \in Scan(lo, hi)
<1>1. lo \in Int /\ hi \in Int /\ DayOf(lo) \in Int /\ DayOf(hi) \in Int
  BY DEF Looked, DayOf, Day
<1>2. n \in Span
  <2>1. n \in (DayOf(lo) - 4) .. (DayOf(hi) + 5)
    BY <1>1
  <2> QED
    BY <1>1, <2>1, TablesAround DEF Looked
<1>3. n \in Nat \ {0}
  BY <1>2, SpanKnown DEF KnownDay
<1>4. ValidTrigger(book[i].trigger)
  BY DEF PlannedOf, Valid
<1> QED
  BY <1>1, <1>2, <1>3, <1>4, PlaceIs, ScanSuffices DEF Scan

\* No two schedules have an id in common.
LEMMA OneOfAnId ==
  ASSUME book \in Books \cup {FirstBook}, NEW i \in PlannedOf, NEW j \in DOMAIN book,
         book[i].id = book[j].id
  PROVE  i = j
BY BooksAssumption DEF PlannedOf

(* While no day after the window is remembered, no day is missed.          *)
LEMMA NothingMissed ==
  ASSUME NEW lo, NEW hi, Looked(lo, hi), NEW m, m.days \subseteq Int,
         \A n \in m.days : n <= DayOf(hi) + 3,
         NEW i, NEW n
  PROVE  n \notin MissedBy(m, i, lo, hi)
<1>1. lo \in Int /\ hi \in Int /\ DayOf(lo) \in Int /\ DayOf(hi) \in Int
      /\ DayOf(hi) <= DayOf(lo) + 1
  BY DEF Looked, DayOf, Day
<1> DEFINE scan == Scan(lo, hi)
<1> DEFINE later(S) == {d \in S : d > n}
<1>2. \A d \in m.days \cup scan : d \in Int /\ d <= DayOf(hi) + 3
  BY ScanIn, <1>1
<1>3. ASSUME n \in scan, NEW S, S \subseteq m.days \cup scan
      PROVE  Cardinality(later(S)) \in Nat /\ Cardinality(later(S)) < 9
  <2>1. n \in Int /\ DayOf(lo) - 3 <= n
    BY <1>1, <1>3, ScanIn
  <2> DEFINE rest == (n + 1) .. (DayOf(hi) + 3)
  <2>2. later(S) \subseteq rest
    BY <1>1, <1>2, <1>3, <2>1
  <2>3. IsFiniteSet(rest) /\ Cardinality(rest) \in Nat /\ Cardinality(rest) < 9
    <3>1. n + 1 \in Int /\ DayOf(hi) + 3 \in Int
      BY <1>1, <2>1
    <3>2. /\ IsFiniteSet(rest)
          /\ Cardinality(rest) = IF n + 1 > DayOf(hi) + 3 THEN 0 ELSE (DayOf(hi) + 3) - (n + 1) + 1
      BY <3>1, FS_Interval
    <3> HIDE DEF rest
    <3> QED
      BY <1>1, <2>1, <3>2
  <2> HIDE DEF later, rest
  <2>4. IsFiniteSet(later(S)) /\ Cardinality(later(S)) <= Cardinality(rest)
    BY <2>2, <2>3, FS_Subset
  <2>5. Cardinality(later(S)) \in Nat
    BY <2>4, FS_CardinalityType
  <2> QED
    BY <2>3, <2>4, <2>5
<1>4. ASSUME n \in scan, NEW S, S \subseteq m.days \cup scan
      PROVE  n \notin Missed(S, scan)
  <2>1. ~ Cardinality(later(S)) >= 9
    BY <1>3, <1>4
  <2> QED
    BY <2>1 DEF Missed, CacheLimit
<1>5. n \in scan => n \notin Missed(m.days, scan)
  BY <1>4
<1>6. n \in scan => n \notin Missed(LeftBy(m, lo, hi), scan)
  <2>1. LeftBy(m, lo, hi) \subseteq m.days \cup scan
    BY DEF LeftBy, Kept
  <2> QED
    BY <1>4, <2>1
<1>7. n \notin scan => n \notin MissedBy(m, i, lo, hi)
  BY DEF MissedBy, Missed
<1> QED
  BY <1>5, <1>6, <1>7 DEF MissedBy

(* What a planner with the schedules of now gives for a window.            *)
LEMMA WindowIsPlanned ==
  ASSUME place \in Places, book \in Books \cup {FirstBook},
         NEW m, m.book = book, m.days \subseteq Int,
         NEW lo, NEW hi, Looked(lo, hi),
         NEW p, p.window = <<lo, hi>>, p.results = EventsBetween(m, lo, hi, place).results,
         NEW days, m.days \subseteq days
  PROVE  WindowPlanned(Occurrences(lo, hi), p, days)
<1> DEFINE Reported(e) == <<e[1], e[2]>> \in Errors(p.results)
<1>1. /\ \A e : e \in Events(p.results) <=>
           \E i \in PlannedOf : \E n, t :
             Succeeds(m, i, n, t, lo, hi) /\ e = <<book[i].id, n, t>>
      /\ \A x, n : <<x, n>> \in Errors(p.results) <=>
           \E i \in PlannedOf : Fails(m, i, n, lo, hi) /\ x = book[i].id
  BY EventsAndErrors
<1>2. lo \in Int /\ hi \in Int /\ DayOf(lo) \in Int /\ DayOf(hi) \in Int
  BY DEF Looked, DayOf, Day
<1>3. ASSUME NEW i \in PlannedOf, NEW n \in Scan(lo, hi)
      PROVE  /\ MatchesRecurrence(book[i], n, InfoOf(n))
                  <=> ObservedBy(book[i].recurrence, InfoOf(n).hebrew, n)
             /\ n \in (DayOf(lo) - 4) .. (DayOf(hi) + 4)
  <2>1. n \in Span /\ n + 1 \in Span /\ n \in (DayOf(lo) - 3) .. (DayOf(hi) + 3)
    BY ScanIn
  <2>2. ValidRecurrence(book[i].recurrence) /\ place.inIsrael \in BOOLEAN
    BY PlaceIs DEF PlannedOf, Valid
  <2> QED
    BY <1>2, <2>1, <2>2, MatchesIs
<1>4. ASSUME NEW i \in PlannedOf, NEW j \in PlannedOf, book[i].id = book[j].id
      PROVE  i = j
  <2>1. j \in DOMAIN book
    BY DEF PlannedOf
  <2> QED
    BY <1>4, <2>1, OneOfAnId
<1>5. ASSUME NEW e \in Events(p.results)
      PROVE  e \in Occurrences(lo, hi) /\ ~ Reported(e)
  <2>5. PICK i \in PlannedOf : \E n, t : Succeeds(m, i, n, t, lo, hi) /\ e = <<book[i].id, n, t>>
    BY <1>1, <1>5
  <2>1. PICK n, t : Succeeds(m, i, n, t, lo, hi) /\ e = <<book[i].id, n, t>>
    BY <2>5
  <2>2. /\ n \in Scan(lo, hi) /\ n \notin MissedBy(m, i, lo, hi)
        /\ MatchesRecurrence(book[i], n, InfoOf(n)) /\ ~ Raises(book[i], n, place)
        /\ t \in DueMinute(book[i], n, place) /\ InWindow(t, lo, hi)
    BY <2>1 DEF Succeeds
  <2>3. e \in Occurrences(lo, hi)
    BY <1>3, <2>1, <2>2, OccurrencesAre
  <2>4. ~ Reported(e)
    <3>1. SUFFICES ASSUME NEW j \in PlannedOf, Fails(m, j, n, lo, hi), book[i].id = book[j].id
                   PROVE  FALSE
      BY <1>1, <2>1
    <3>2. i = j
      BY <1>4, <3>1
    <3> QED
      BY <2>2, <3>1, <3>2 DEF Fails
  <2> QED
    BY <2>3, <2>4
<1>6. ASSUME NEW e \in Occurrences(lo, hi)
      PROVE  \E i \in PlannedOf : \E n, t :
               /\ e = <<book[i].id, n, t>> /\ n \in Scan(lo, hi)
               /\ MatchesRecurrence(book[i], n, InfoOf(n))
               /\ t \in DueMinute(book[i], n, place) /\ InWindow(t, lo, hi)
  <2> DEFINE From(i, n, t) ==
         /\ ObservedBy(book[i].recurrence, InfoOf(n).hebrew, n)
         /\ t \in DueMinute(book[i], n, place) /\ InWindow(t, lo, hi)
         /\ e = <<book[i].id, n, t>>
  <2>3. PICK i \in PlannedOf, n \in (DayOf(lo) - 4) .. (DayOf(hi) + 4) : \E t : From(i, n, t)
    BY <1>6, OccurrencesAre
  <2>1. PICK t : From(i, n, t)
    BY <2>3
  <2>2. n \in Scan(lo, hi)
    BY <2>1, DayIsScanned
  <2> QED
    BY <1>3, <2>1, <2>2
<1>7. ASSUME NEW e \in Occurrences(lo, hi), ~ Reported(e)
      PROVE  e \in Events(p.results)
  <2> DEFINE From(i, n, t) ==
         /\ e = <<book[i].id, n, t>> /\ n \in Scan(lo, hi)
         /\ MatchesRecurrence(book[i], n, InfoOf(n))
         /\ t \in DueMinute(book[i], n, place) /\ InWindow(t, lo, hi)
  <2>4. PICK i \in PlannedOf : \E n, t : From(i, n, t)
    BY <1>6
  <2>1. PICK n, t : From(i, n, t)
    BY <2>4
  <2>2. ~ Fails(m, i, n, lo, hi)
    BY <1>1, <1>7, <2>1
  <2>3. Succeeds(m, i, n, t, lo, hi)
    BY <2>1, <2>2 DEF Succeeds, Fails
  <2> QED
    BY <1>1, <2>1, <2>3
<1>8. ASSUME \A n \in days : n <= DayOf(hi) + 3,
             NEW e \in Occurrences(lo, hi), Reported(e)
      PROVE  SkippedHour(e)
  <2>7. PICK i \in PlannedOf : \E n, t : e = <<book[i].id, n, t>>
    BY <1>6
  <2>1. PICK n, t : e = <<book[i].id, n, t>>
    BY <2>7
  <2>2. PICK j \in PlannedOf : Fails(m, j, n, lo, hi) /\ book[i].id = book[j].id
    BY <1>1, <1>8, <2>1
  <2>3. i = j
    BY <1>4, <2>2
  <2>4. n \notin MissedBy(m, i, lo, hi)
    BY <1>8, NothingMissed
  <2>5. Raises(book[i], n, place)
    BY <2>2, <2>3, <2>4 DEF Fails
  <2>6. ById(book[i].id) = book[i]
    <3>1. i \in DOMAIN book
      BY DEF PlannedOf
    <3>2. \A j_1 \in DOMAIN book : book[j_1].id = book[i].id => j_1 = i
      BY OneOfAnId
    <3> QED
      BY <3>1, <3>2 DEF ById
  <2> QED
    BY <2>1, <2>5, <2>6 DEF SkippedHour
<1>9. Events(p.results) = {e \in Occurrences(lo, hi) : ~ Reported(e)}
  BY <1>5, <1>7
<1>10. p.window[2] = hi
  OBVIOUS
<1> QED
  BY <1>8, <1>9, <1>10 DEF WindowPlanned

-----------------------------------------------------------------------------
(* The planner that is asked has the schedules of now and no days but those *)
(* it remembered.                                                          *)
Asked(m) == GetSchedules(PlannerFor(m, place), book, revision)

LEMMA AskedIs ==
  ASSUME revision \in Nat, NEW m, Remembers(m)
  PROVE  /\ Asked(m).book = book /\ Asked(m).revision = revision
         /\ Asked(m).days \subseteq m.days /\ Asked(m).days \subseteq Int
         /\ \E k : Asked(m) = [key |-> k, days |-> Asked(m).days, book |-> book,
                               revision |-> revision]
<1> DEFINE own == PlannerFor(m, place)
<1>1. /\ own = [key |-> own.key, days |-> own.days, book |-> own.book, revision |-> own.revision]
      /\ own.days \subseteq m.days /\ own.days \subseteq Int
      /\ own.revision = revision => own.book = book
  <2>1. CASE m.key = place.name
    BY <2>1 DEF PlannerFor, Remembers
  <2>2. CASE m.key # place.name
    <3>1. own = [key |-> place.name, days |-> {}, book |-> <<>>, revision |-> -1]
      BY <2>2 DEF PlannerFor, NoPlanner
    <3>2. revision # -1
      OBVIOUS
    <3> HIDE DEF own
    <3> QED
      BY <3>1, <3>2
  <2> QED
    BY <2>1, <2>2
<1> HIDE DEF own
<1>2. Asked(m) = [key |-> own.key, days |-> own.days, book |-> book, revision |-> revision]
  <2>1. Asked(m) = IF own.revision = revision THEN own
                   ELSE [own EXCEPT !.book = book, !.revision = revision]
    BY DEF Asked, GetSchedules, own
  <2> QED
    BY <1>1, <2>1
<1>3. Asked(m).book = book /\ Asked(m).revision = revision /\ Asked(m).days = own.days
  BY <1>2
<1>4. Asked(m) = [key |-> own.key, days |-> Asked(m).days, book |-> book, revision |-> revision]
  BY <1>2, <1>3
<1> QED
  BY <1>1, <1>3, <1>4

(* The days on which the clock of Israel is ahead at noon.                 *)
Summer(n) == DstStart(Date[n][1]) <= n /\ n < DstEnd(Date[n][1])

\* The last hour of UTC before the clock is put back.
PutBackAt(t) == DayOf(t) + 1 = DstEnd(Date[DayOf(t)][1]) /\ t % Day >= 1380

LocalIn(where, t) ==
  t + (IF where.inIsrael THEN (IF IsDst(t) THEN 180 ELSE 120) ELSE where.offset)
MovesIn(where, n, minute) ==
  where.inIsrael /\ n \in {DstStart(Date[n][1]), DstEnd(Date[n][1])} /\ minute < 180
Agrees(where, t, local) ==
  LocalIn(where, t) = local \/ MovesIn(where, DayOf(local), local % Day)

LEMMA TimeOfDay ==
  ASSUME NEW t \in Int
  PROVE  /\ DayOf(t) \in Int /\ t % Day \in Int /\ 0 <= t % Day /\ t % Day <= 1439
         /\ t = 1440 * DayOf(t) + (t % Day)
<1>1. DayOf(t) = t \div 1440 /\ t % Day = t % 1440
  BY DEF DayOf, Day
<1>2. /\ t \div 1440 \in Int /\ t % 1440 \in Int /\ 0 <= t % 1440 /\ t % 1440 <= 1439
      /\ t = 1440 * (t \div 1440) + (t % 1440)
  OBVIOUS
<1> QED
  BY <1>1, <1>2

LEMMA DayAndMinute ==
  ASSUME NEW n \in Int, NEW k \in Int, 0 <= k, k <= 1439, NEW t, t = 1440 * n + k
  PROVE  DayOf(t) = n /\ t % Day = k
BY DEF DayOf, Day

LEMMA YearOfDate ==
  ASSUME NEW n \in Span
  PROVE  LET y == Date[n][1]
         IN  /\ y \in Int /\ y >= 2013
             /\ NewYearsDay(y) <= n /\ n < NewYearsDay(y + 1)
             /\ DstStart(y) \in Int /\ DstEnd(y) \in Int
             /\ NewYearsDay(y) + 40 <= DstStart(y) /\ DstStart(y) + 100 <= DstEnd(y)
             /\ DstEnd(y) + 40 <= NewYearsDay(y + 1)
<1> DEFINE y == Date[n][1]
<1>1. n \in Int /\ KnownDay(n) /\ NewYearsDay(2013) <= n /\ Date[n] = Gregorian(n)
  BY SpanKnown DEF Date
<1>2. y \in Nat \ {0} /\ NewYearsDay(y) <= n /\ n < NewYearsDay(y + 1)
  BY <1>1, YearOfDay
<1> HIDE DEF y
<1>3. y >= 2013
  <2> SUFFICES ASSUME y + 1 <= 2013
               PROVE  FALSE
    BY <1>2
  <2>1. y + 1 \in Int /\ 2013 \in Int
    BY <1>2
  <2>2. NewYearsDay(y + 1) \in Int /\ NewYearsDay(2013) \in Int
    BY <2>1, NewYearsDayIs
  <2>3. NewYearsDay(y + 1) <= NewYearsDay(2013)
    BY <2>1, YearsGrow
  <2> QED
    BY <1>1, <1>2, <2>2, <2>3
<1>4. /\ DstStart(y) \in Int /\ DstEnd(y) \in Int
      /\ NewYearsDay(y) + 40 <= DstStart(y) /\ DstStart(y) + 100 <= DstEnd(y)
      /\ DstEnd(y) + 40 <= NewYearsDay(y + 1)
  BY <1>2, DstInYear
<1> QED
  BY <1>2, <1>3, <1>4 DEF y

(* From a day to the next the clock is moved on the day the rules name.    *)
LEMMA SummerGoesOn ==
  ASSUME NEW n \in Span, n + 1 \in Span
  PROVE  /\ Summer(n) /\ ~ Summer(n + 1) => n + 1 = DstEnd(Date[n + 1][1])
         /\ ~ Summer(n) /\ Summer(n + 1) => n + 1 = DstStart(Date[n + 1][1])
         /\ Summer(n) /\ n + 1 = DstEnd(Date[n][1]) => ~ Summer(n + 1)
<1> DEFINE y == Date[n][1]
<1> DEFINE z == Date[n + 1][1]
<1>1. /\ y \in Int /\ NewYearsDay(y) <= n /\ n < NewYearsDay(y + 1)
      /\ DstStart(y) \in Int /\ DstEnd(y) \in Int
      /\ NewYearsDay(y) + 40 <= DstStart(y) /\ DstStart(y) + 100 <= DstEnd(y)
      /\ DstEnd(y) + 40 <= NewYearsDay(y + 1)
  BY YearOfDate
<1>2. /\ z \in Int /\ NewYearsDay(z) <= n + 1 /\ n + 1 < NewYearsDay(z + 1)
      /\ DstStart(z) \in Int /\ DstEnd(z) \in Int
      /\ NewYearsDay(z) + 40 <= DstStart(z) /\ DstStart(z) + 100 <= DstEnd(z)
      /\ DstEnd(z) + 40 <= NewYearsDay(z + 1)
  BY YearOfDate
<1>3. n \in Int
  BY SpanKnown
<1>4. /\ Summer(n) <=> DstStart(y) <= n /\ n < DstEnd(y)
      /\ Summer(n + 1) <=> DstStart(z) <= n + 1 /\ n + 1 < DstEnd(z)
  BY DEF Summer
<1> SUFFICES /\ Summer(n) /\ ~ Summer(n + 1) => n + 1 = DstEnd(z)
             /\ ~ Summer(n) /\ Summer(n + 1) => n + 1 = DstStart(z)
             /\ Summer(n) /\ n + 1 = DstEnd(y) => ~ Summer(n + 1)
  OBVIOUS
<1> HIDE DEF y, z
<1>5. /\ NewYearsDay(y) \in Int /\ NewYearsDay(y + 1) \in Int
      /\ NewYearsDay(z) \in Int /\ NewYearsDay(z + 1) \in Int
  BY <1>1, <1>2, NewYearsDayIs
<1>6. CASE z = y
  BY <1>1, <1>3, <1>4, <1>6
<1>7. CASE z > y
  <2>1. NewYearsDay(y + 1) <= NewYearsDay(z)
    BY <1>1, <1>2, <1>7, YearsGrow
  <2>2. ~ Summer(n) /\ ~ Summer(n + 1) /\ n + 1 # DstEnd(y)
    BY <1>1, <1>2, <1>3, <1>4, <1>5, <2>1
  <2> QED
    BY <2>2
<1>8. CASE z < y
  <2>1. NewYearsDay(z + 1) <= NewYearsDay(y)
    BY <1>1, <1>2, <1>8, YearsGrow
  <2> QED
    BY <1>1, <1>2, <1>3, <1>5, <2>1
<1> QED
  BY <1>1, <1>2, <1>6, <1>7, <1>8

LEMMA OffsetIs ==
  ASSUME NEW where \in Places, NEW n \in Span
  PROVE  /\ OffsetForDate(where, n)
              = IF where.inIsrael THEN (IF Summer(n) THEN 180 ELSE 120) ELSE where.offset
         /\ \A minute \in Int :
              \/ OffsetForLocal(where, n, minute) = OffsetForDate(where, n)
              \/ MovesIn(where, n, minute)
<1> DEFINE y == Date[n][1]
<1>1. /\ y \in Int /\ y >= 2013 /\ DstStart(y) \in Int /\ DstEnd(y) \in Int
      /\ DstStart(y) + 100 <= DstEnd(y)
  BY YearOfDate
<1>2. n \in Int /\ y = Gregorian(n)[1]
  BY SpanKnown DEF Date
<1>3. \A minute : IsraelOffset(n, minute) =
        IF \/ DstStart(y) < n /\ n < DstEnd(y)
           \/ n = DstStart(y) /\ minute >= 180
           \/ n = DstEnd(y) /\ minute < 120
        THEN 180 ELSE 120
  BY <1>2 DEF IsraelOffset
<1>4. \A minute : OffsetForLocal(where, n, minute) =
        IF where.inIsrael THEN IsraelOffset(n, minute) ELSE where.offset
  <2>1. HasDst(where, n) <=> where.inIsrael
    BY <1>1 DEF HasDst
  <2> QED
    BY <2>1 DEF OffsetForLocal
<1>5. OffsetForDate(where, n) = OffsetForLocal(where, n, 720)
  BY DEF OffsetForDate
<1>6. /\ Summer(n) <=> DstStart(y) <= n /\ n < DstEnd(y)
      /\ \A minute : MovesIn(where, n, minute) <=>
           where.inIsrael /\ (n = DstStart(y) \/ n = DstEnd(y)) /\ minute < 180
  BY DEF Summer, MovesIn
<1> HIDE DEF y
<1>7. CASE ~ where.inIsrael
  BY <1>4, <1>5, <1>7
<1>8. CASE where.inIsrael
  <2>1. IsraelOffset(n, 720) = IF Summer(n) THEN 180 ELSE 120
    BY <1>1, <1>2, <1>3, <1>6
  <2>2. ASSUME NEW minute \in Int
        PROVE  IsraelOffset(n, minute) = IsraelOffset(n, 720) \/ MovesIn(where, n, minute)
    BY <1>1, <1>2, <1>3, <1>6, <1>8
  <2> QED
    BY <1>4, <1>5, <1>8, <2>1, <2>2
<1> QED
  BY <1>7, <1>8

LEMMA DstIs ==
  ASSUME NEW t \in Int, DayOf(t) \in Span
  PROVE  IsDst(t) <=> Summer(DayOf(t)) /\ ~ PutBackAt(t)
<1> DEFINE n == DayOf(t)
<1> DEFINE k == t % Day
<1> DEFINE a == DstStart(Date[n][1])
<1> DEFINE b == DstEnd(Date[n][1])
<1>1. n \in Int /\ k \in Int /\ 0 <= k /\ k <= 1439 /\ t = 1440 * n + k
  <2> SUFFICES /\ DayOf(t) \in Int /\ t % Day \in Int /\ 0 <= t % Day /\ t % Day <= 1439
               /\ t = 1440 * DayOf(t) + (t % Day)
    OBVIOUS
  <2> QED
    BY TimeOfDay
<1>2. a \in Int /\ b \in Int
  BY YearOfDate
<1>3. /\ IsDst(t) <=> a * 1440 <= t /\ t < b * 1440 - 60
      /\ Summer(n) <=> a <= n /\ n < b
      /\ PutBackAt(t) <=> n + 1 = b /\ k >= 1380
  BY DEF IsDst, Summer, PutBackAt, Day
<1> SUFFICES IsDst(t) <=> Summer(n) /\ ~ PutBackAt(t)
  OBVIOUS
<1> HIDE DEF n, k, a, b
<1> QED
  BY <1>1, <1>2, <1>3

LEMMA AbroadIs ==
  ASSUME NEW where, ~ where.inIsrael, NEW n
  PROVE  /\ OffsetForDate(where, n) = where.offset
         /\ \A minute : OffsetForLocal(where, n, minute) = where.offset
BY DEF OffsetForDate, OffsetForLocal, HasDst

LEMMA DaysAround ==
  ASSUME NEW t \in Int, InTables(t)
  PROVE  DayOf(t) \in Span /\ DayOf(t) + 1 \in Span /\ DayOf(t) - 1 \in Span
<1>1. DayOf(t) \in Int
  BY TimeOfDay
<1>2. \A n \in (DayOf(t) - 4) .. (DayOf(t) + 5) : n \in Span
  BY TablesAround
<1> QED
  BY <1>1, <1>2

LEMMA LocalInIs ==
  ASSUME NEW where \in Places, where.inIsrael, NEW t \in Int, DayOf(t) \in Span
  PROVE  LocalIn(where, t) = t + (IF Summer(DayOf(t)) /\ ~ PutBackAt(t) THEN 180 ELSE 120)
BY DstIs DEF LocalIn

(* The home screen.                                                        *)
LEMMA HomeIsRight ==
  ASSUME NEW where \in Places, NEW t \in Int, InTables(t)
  PROVE  /\ LocalToday(where, t) = DayOf(LocalIn(where, t))
         /\ \/ HomeClock(where, t) = LocalIn(where, t) % Day
            \/ MovesIn(where, LocalToday(where, t), LocalIn(where, t) % Day)
<1>1. CASE ~ where.inIsrael
  BY <1>1, AbroadIs DEF LocalToday, HomeClock, LocalIn
<1>2. CASE where.inIsrael
  <2> DEFINE n == DayOf(t)
  <2> DEFINE k == t % Day
  <2> DEFINE o == OffsetForDate(where, n)
  <2> DEFINE p == OffsetForDate(where, n + 1)
  <2> DEFINE l == IF Summer(n) /\ ~ PutBackAt(t) THEN 180 ELSE 120
  <2> DEFINE moved == MovesIn(where, n + 1, (t + l) % Day)
  <2>1. n \in Span /\ n + 1 \in Span /\ n \in Int
    BY DaysAround, SpanKnown
  <2>2. k \in Int /\ 0 <= k /\ k <= 1439 /\ t = 1440 * n + k
    BY TimeOfDay
  <2>3. /\ o = IF Summer(n) THEN 180 ELSE 120
        /\ p = IF Summer(n + 1) THEN 180 ELSE 120
    BY <1>2, <2>1, OffsetIs
  <2>4. /\ Summer(n) /\ ~ Summer(n + 1) => n + 1 = DstEnd(Date[n + 1][1])
        /\ ~ Summer(n) /\ Summer(n + 1) => n + 1 = DstStart(Date[n + 1][1])
        /\ Summer(n) /\ PutBackAt(t) => ~ Summer(n + 1) /\ k >= 1380
    BY <2>1, SummerGoesOn DEF PutBackAt
  <2>5. LocalIn(where, t) = t + l
    BY <1>2, <2>1, LocalInIs
  <2>6. LocalToday(where, t) = DayOf(t + o)
    BY DEF LocalToday
  <2>7. HomeClock(where, t) = (t + OffsetForDate(where, DayOf(t + o))) % Day
    BY <2>6 DEF HomeClock
  <2>8. moved <=> /\ n + 1 = DstStart(Date[n + 1][1]) \/ n + 1 = DstEnd(Date[n + 1][1])
                  /\ (t + l) % Day < 180
    BY <1>2 DEF MovesIn
  <2>9. l = IF Summer(n) /\ ~ PutBackAt(t) THEN 180 ELSE 120
    OBVIOUS
  <2>10. /\ k + o < 1440 => DayOf(t + o) = n
         /\ k + l < 1440 => DayOf(t + l) = n
         /\ k + o >= 1440 => DayOf(t + o) = n + 1
         /\ k + l >= 1440 => DayOf(t + l) = n + 1 /\ (t + l) % Day = (k + l) - 1440
    <3>1. o \in {120, 180} /\ l \in {120, 180}
      BY <2>3, <2>9
    <3> HIDE DEF n, k, o, l
    <3>2. ASSUME NEW x, x = 120 \/ x = 180
          PROVE  /\ k + x < 1440 => DayOf(t + x) = n
                 /\ k + x >= 1440 => DayOf(t + x) = n + 1 /\ (t + x) % Day = (k + x) - 1440
      <4> DEFINE u == t + x
      <4> DEFINE j == k + x
      <4>1. j \in Int /\ u = 1440 * n + j /\ j = k + x
        BY <2>1, <2>2, <3>2
      <4> SUFFICES /\ j < 1440 => DayOf(u) = n
                   /\ j >= 1440 => DayOf(u) = n + 1 /\ u % Day = j - 1440
        OBVIOUS
      <4> HIDE DEF u, j
      <4>2. CASE j < 1440
        <5>1. 0 <= j /\ j <= 1439
          BY <2>2, <3>2, <4>1, <4>2
        <5>2. DayOf(u) = n
          BY <2>1, <4>1, <5>1, DayAndMinute
        <5> QED
          BY <4>1, <4>2, <5>2
      <4>3. CASE j >= 1440
        <5>1. 1440 <= j /\ j <= 2879 /\ n \in Int
          BY <2>1, <2>2, <3>2, <4>1, <4>3
        <5>2. DayOf(u) = n + 1 /\ u % Day = j - 1440
          BY <4>1, <5>1 DEF DayOf, Day
        <5> QED
          BY <4>1, <4>3, <5>2
      <4> QED
        BY <4>1, <4>2, <4>3
    <3>3. (o = 120 \/ o = 180) /\ (l = 120 \/ l = 180)
      BY <3>1
    <3> QED
      BY <3>2, <3>3
  <2>11. HomeClock(where, t) = (t + (IF DayOf(t + o) = n THEN o ELSE OffsetForDate(where, DayOf(t + o)))) % Day
    BY <2>7
  <2>12. DayOf(t + o) = n + 1 => HomeClock(where, t) = (t + p) % Day
    BY <2>7
  <2>13. DayOf(t + o) = n + 1 => (MovesIn(where, LocalToday(where, t), (t + l) % Day) <=> moved)
    BY <2>6
  <2> HIDE DEF n, k, o, p, l, moved
  <2> SUFFICES /\ DayOf(t + o) = DayOf(t + l)
               /\ \/ HomeClock(where, t) = (t + l) % Day
                  \/ MovesIn(where, LocalToday(where, t), (t + l) % Day)
    BY <2>5, <2>6
  <2>14. CASE k + o < 1440
    <3>1. o = l
      BY <2>2, <2>3, <2>4, <2>9, <2>14
    <3> QED
      BY <2>10, <2>11, <2>14, <3>1
  <2>15. CASE k + o >= 1440
    <3>1. k + l >= 1440 /\ (k + l) - 1440 < 180
      BY <2>2, <2>3, <2>4, <2>9, <2>15
    <3>2. p = l \/ moved
      BY <2>3, <2>4, <2>8, <2>9, <2>10, <3>1
    <3> QED
      BY <2>10, <2>12, <2>13, <2>15, <3>1, <3>2
  <2> QED
    BY <2>2, <2>3, <2>14, <2>15
<1> QED
  BY <1>1, <1>2

(* A time that is entered.                                                 *)
LEMMA EnteredIs ==
  ASSUME NEW where \in Places, NEW n \in Span, NEW minute \in Int, 0 <= minute, minute <= 1439,
         NEW t \in Int, InTables(t), t = (1440 * n + minute) - OffsetForDate(where, n)
  PROVE  Agrees(where, t, 1440 * n + minute)
<1> DEFINE local == 1440 * n + minute
<1>1. n \in Int
  BY SpanKnown
<1>2. DayOf(local) = n /\ local % Day = minute
  <2>1. local = 1440 * n + minute
    OBVIOUS
  <2> HIDE DEF local
  <2> QED
    BY <1>1, <2>1, DayAndMinute
<1>3. CASE ~ where.inIsrael
  <2>1. LocalIn(where, t) = t + where.offset /\ t = local - where.offset
    <3>1. OffsetForDate(where, n) = where.offset
      BY <1>3, AbroadIs
    <3> QED
      BY <1>3, <3>1 DEF LocalIn
  <2>2. where.offset \in Int
    BY PlacesAssumption DEF SettingsNear, UtcOffsets
  <2>3. local \in Int
    BY <1>1
  <2> HIDE DEF local
  <2>4. LocalIn(where, t) = local
    BY <2>1, <2>2, <2>3
  <2> QED
    BY <2>4 DEF Agrees, local
<1>4. CASE where.inIsrael
  <2> DEFINE q == DayOf(t)
  <2> DEFINE k == t % Day
  <2> DEFINE o == OffsetForDate(where, n)
  <2> DEFINE l == IF Summer(q) /\ ~ PutBackAt(t) THEN 180 ELSE 120
  <2>1. q \in Span /\ q \in Int
    BY DaysAround, SpanKnown
  <2>2. k \in Int /\ 0 <= k /\ k <= 1439 /\ t = 1440 * q + k
    BY TimeOfDay
  <2>3. o = IF Summer(n) THEN 180 ELSE 120
    BY <1>4, OffsetIs
  <2>4. q = n - 1 =>
        /\ Summer(q) /\ ~ Summer(n) => n = DstEnd(Date[n][1])
        /\ ~ Summer(q) /\ Summer(n) => n = DstStart(Date[n][1])
        /\ Summer(q) /\ PutBackAt(t) => ~ Summer(n)
    <3> SUFFICES ASSUME q = n - 1
                 PROVE  /\ Summer(q) /\ ~ Summer(n) => n = DstEnd(Date[n][1])
                        /\ ~ Summer(q) /\ Summer(n) => n = DstStart(Date[n][1])
                        /\ Summer(q) /\ PutBackAt(t) => ~ Summer(n)
      OBVIOUS
    <3>1. q + 1 = n
      BY <1>1
    <3>2. /\ Summer(q) /\ ~ Summer(q + 1) => q + 1 = DstEnd(Date[q + 1][1])
          /\ ~ Summer(q) /\ Summer(q + 1) => q + 1 = DstStart(Date[q + 1][1])
          /\ Summer(q) /\ q + 1 = DstEnd(Date[q][1]) => ~ Summer(q + 1)
      BY <2>1, <3>1, SummerGoesOn
    <3>3. PutBackAt(t) => q + 1 = DstEnd(Date[q][1])
      BY DEF PutBackAt
    <3> HIDE DEF q
    <3> QED
      BY <3>1, <3>2, <3>3
  <2>5. PutBackAt(t) => k >= 1380
    BY DEF PutBackAt
  <2>6. LocalIn(where, t) = t + l
    BY <1>4, <2>1, LocalInIs
  <2>7. Agrees(where, t, local) <=>
          \/ LocalIn(where, t) = local
          \/ (n = DstStart(Date[n][1]) \/ n = DstEnd(Date[n][1])) /\ minute < 180
    BY <1>2, <1>4 DEF Agrees, MovesIn
  <2>8. l = IF Summer(q) /\ ~ PutBackAt(t) THEN 180 ELSE 120
    OBVIOUS
  <2>9. t = local - o /\ local = 1440 * n + minute
    OBVIOUS
  <2> SUFFICES Agrees(where, t, local)
    OBVIOUS
  <2> HIDE DEF q, k, o, l, local
  <2>10. o \in {120, 180}
    BY <2>3
  <2>11. local \in Int /\ (q = n \/ q = n - 1)
    BY <1>1, <2>1, <2>2, <2>9, <2>10
  <2>12. CASE q = n
    <3>1. k + o < 1440
      BY <1>1, <2>2, <2>9, <2>10, <2>12
    <3>2. l = o
      BY <2>2, <2>3, <2>5, <2>8, <2>12, <3>1
    <3> QED
      BY <2>6, <2>7, <2>9, <2>10, <2>11, <3>2
  <2>13. CASE q = n - 1
    <3>1. minute < 180
      BY <1>1, <2>2, <2>9, <2>10, <2>13
    <3>2. l = o \/ n = DstStart(Date[n][1]) \/ n = DstEnd(Date[n][1])
      BY <2>3, <2>4, <2>8, <2>13
    <3>3. l = o => LocalIn(where, t) = local
      BY <2>6, <2>9, <2>10, <2>11
    <3> QED
      BY <2>7, <3>1, <3>2, <3>3
  <2> QED
    BY <2>11, <2>12, <2>13
<1> QED
  BY <1>3, <1>4

(* A zman is shown as the local time at which it happens.                  *)
LEMMA ZmanShown ==
  ASSUME NEW where \in Places, NEW n \in Span, NEW key \in ZmanKeys,
         NEW t, t \in ZmanMinute(key, 0, Sun(where, n), n)
  PROVE  t + OffsetForDate(where, n) = LocalIn(where, t)
<1> DEFINE z == ZmanOf(key, Sun(where, n)) \div Minute
<1>1. CASE ~ where.inIsrael
  BY <1>1, AbroadIs DEF LocalIn
<1>2. CASE where.inIsrael
  <2>1. t = n * Day + z + 0 /\ Needs(key) \subseteq DOMAIN Sun(where, n)
    <3> DEFINE S == {k \in {key} : Needs(k) \subseteq DOMAIN Sun(where, n)}
    <3>1. ZmanMinute(key, 0, Sun(where, n), n)
            = {n * Day + ZmanOf(k, Sun(where, n)) \div Minute + 0 : k \in S}
      BY DEF ZmanMinute
    <3>2. PICK k \in S : t = n * Day + ZmanOf(k, Sun(where, n)) \div Minute + 0
      BY <3>1
    <3>3. k = key /\ Needs(key) \subseteq DOMAIN Sun(where, n)
      OBVIOUS
    <3> QED
      BY <3>2, <3>3
  <2>2. z \in 0 .. 1379
    BY <1>2, <2>1, PlacesAssumption DEF SunNear
  <2> HIDE DEF z
  <2>3. n \in Int /\ z \in Int /\ 0 <= z /\ z <= 1379 /\ t = 1440 * n + z
    BY <2>1, <2>2, SpanKnown DEF Day
  <2>4. DayOf(t) = n /\ t % Day = z /\ t \in Int
    BY <2>3 DEF DayOf, Day
  <2>5. ~ PutBackAt(t)
    BY <2>3, <2>4 DEF PutBackAt
  <2>6. LocalIn(where, t) = t + (IF Summer(n) THEN 180 ELSE 120)
    BY <1>2, <2>4, <2>5, LocalInIs
  <2> QED
    BY <1>2, <2>6, OffsetIs
<1> QED
  BY <1>1, <1>2

(* A fixed time in the preview.                                            *)
LEMMA PreviewIs ==
  ASSUME NEW where \in Places, NEW n \in Span, NEW s, ValidTrigger(s.trigger),
         s.trigger.type = "fixed_time", NEW t \in DueMinute(s, n, where), NEW id
  PROVE  LET x == Shown(<<id, n, t>>, where)
         IN  \/ x.day = n /\ x.minute = LocalMinute(s)
             \/ MovesIn(where, n, LocalMinute(s))
<1> DEFINE k == LocalMinute(s)
<1> DEFINE o == OffsetForLocal(where, n, k)
<1> DEFINE p == OffsetForDate(where, n)
<1> DEFINE local == t + p
<1>1. t = (n * Day + k) - o
  <2>1. DueMinute(s, n, where) = {n * Day + k - o}
    BY DEF DueMinute
  <2>2. t = n * Day + k - o
    BY <2>1
  <2>3. k \in MinutesOfDay
    BY MinuteOfDay DEF ValidTrigger, LocalMinute
  <2>4. where.offset \in UtcOffsets
    BY PlacesAssumption DEF SettingsNear
  <2>5. o \in {120, 180, where.offset}
    BY DEF OffsetForLocal, IsraelOffset
  <2> HIDE DEF k, o
  <2>6. k \in Int
    BY <2>3 DEF MinutesOfDay
  <2>7. where.offset \in Int
    BY <2>4 DEF UtcOffsets
  <2>8. o \in Int
    BY <2>5, <2>7
  <2>9. n \in Int
    BY SpanKnown
  <2>10. n * Day \in Int
    BY <2>9 DEF Day
  <2> QED
    BY <2>2, <2>6, <2>8, <2>10
<1>2. k \in Int /\ 0 <= k /\ k <= 1439
  <2>1. k \in MinutesOfDay
    BY MinuteOfDay DEF ValidTrigger, LocalMinute
  <2> QED
    BY <2>1 DEF MinutesOfDay
<1>3. n \in Int
  BY SpanKnown
<1>4. o = p \/ MovesIn(where, n, k)
  <2>1. k \in Int
    BY <1>2
  <2> HIDE DEF k
  <2> QED
    BY <2>1, OffsetIs
<1>5. o \in Int
  <2>1. where.offset \in UtcOffsets
    BY PlacesAssumption DEF SettingsNear
  <2>2. o \in {120, 180, where.offset}
    BY DEF OffsetForLocal, IsraelOffset
  <2> QED
    BY <2>1, <2>2 DEF UtcOffsets
<1>6. /\ Shown(<<id, n, t>>, where).day = DayOf(local)
      /\ Shown(<<id, n, t>>, where).minute = local % Day
  BY DEF Shown
<1> SUFFICES ASSUME o = p
             PROVE  DayOf(local) = n /\ local % Day = k
  BY <1>4, <1>6
<1>7. local = t + p
  OBVIOUS
<1> HIDE DEF k, o, p, local
<1>8. local = 1440 * n + k
  BY <1>1, <1>2, <1>3, <1>5, <1>7 DEF Day
<1> QED
  BY <1>2, <1>3, <1>8 DEF DayOf, Day

\* A member of a preview, whatever its window.
PreviewedBy(x, b, where) ==
  \E i \in DOMAIN b :
    Valid(b[i]) /\ \E n \in Span : \E t \in DueMinute(b[i], n, where) :
                     x = Shown(<<b[i].id, n, t>>, where)

(* The clock stays in the tables, a planner that knows the revision has the *)
(* schedules, the clock agrees with what was entered, and the preview is   *)
(* by the settings and the schedules of now.                               *)
PlannerInv ==
  /\ now \in Int /\ InTables(now) /\ last \in Int
  /\ place \in Places /\ book \in Books \cup {FirstBook} /\ revision \in Nat
  /\ memory = [who \in {"scheduler", "views"} |-> memory[who]]
  /\ Remembers(memory["scheduler"]) /\ Remembers(memory["views"])
  /\ entered # 0 => Agrees(place, now, entered)
  /\ \A x \in shown : PreviewedBy(x, book, place)

LEMMA InitPlanner == Init => PlannerInv
<1> SUFFICES ASSUME Init
             PROVE  PlannerInv
  OBVIOUS
<1>1. now \in Int /\ InTables(now) /\ last \in Int
  <2>1. DayOf(Start) \in Int /\ EndDay \in Int /\ DayOf(Start) <= EndDay
    BY ClockAssumption, TimeOfDay
  <2>2. DayOf(Start) \in (DayOf(Start) - 7) .. (EndDay + 2)
    BY <2>1
  <2> QED
    BY <2>2, ClockAssumption DEF Init, InTables
<1>2. place \in Places /\ book \in Books \cup {FirstBook} /\ revision \in Nat
  BY PlacesAssumption DEF Init
<1>3. /\ memory = [who \in {"scheduler", "views"} |-> memory[who]]
      /\ memory["scheduler"] = NoPlanner /\ memory["views"] = NoPlanner
  BY DEF Init
<1>4. Remembers(NoPlanner)
  BY DEF Init, Remembers, NoPlanner
<1> QED
  BY <1>1, <1>2, <1>3, <1>4 DEF Init, PlannerInv

LEMMA DaysLeft ==
  ASSUME NEW m, m.days \subseteq Int, NEW lo \in Int, NEW hi \in Int
  PROVE  EventsBetween(m, lo, hi, place).days \subseteq Int
<1> DEFINE scan == FirstDay(lo) .. LastDay(hi)
<1>1. EventsBetween(m, lo, hi, place).days \in {m.days, Kept(m.days \cup scan)}
  BY DEF EventsBetween
<1>2. scan \subseteq Int
  OBVIOUS
<1>3. Kept(m.days \cup scan) \subseteq m.days \cup scan
  BY DEF Kept
<1> QED
  BY <1>1, <1>2, <1>3

(* A planner that was asked remembers what it found.                       *)
LEMMA AskedRemembers ==
  ASSUME revision \in Nat, NEW m, Remembers(m), NEW lo \in Int, NEW hi \in Int
  PROVE  Remembers([Asked(m) EXCEPT !.days = EventsBetween(Asked(m), lo, hi, place).days])
<1> DEFINE days == EventsBetween(Asked(m), lo, hi, place).days
<1>1. PICK k : Asked(m) = [key |-> k, days |-> Asked(m).days, book |-> book, revision |-> revision]
  BY AskedIs
<1>2. days \subseteq Int
  BY AskedIs, DaysLeft
<1> HIDE DEF days
<1>3. [Asked(m) EXCEPT !.days = days] = [key |-> k, days |-> days, book |-> book, revision |-> revision]
  BY <1>1
<1>4. Remembers([key |-> k, days |-> days, book |-> book, revision |-> revision])
  BY <1>2 DEF Remembers
<1> QED
  BY <1>3, <1>4 DEF days

LEMMA TickKeeps ==
  ASSUME PlannerInv, NEW w \in Nat, Tick(w)
  PROVE  PlannerInv'
<1> DEFINE m == memory["scheduler"]
<1> DEFINE window == PlanWindow(last, now + w)
<1>1. /\ now \in Int /\ last \in Int /\ revision \in Nat /\ Remembers(m) /\ Remembers(memory["views"])
      /\ memory = [who \in {"scheduler", "views"} |-> memory[who]]
  BY DEF PlannerInv
<1>2. /\ now' \in Int /\ InTables(now') /\ last' \in Int
      /\ place' \in Places /\ book' \in Books \cup {FirstBook} /\ revision' \in Nat
      /\ entered' = 0 /\ shown' = {}
      /\ book' = book /\ revision' = revision
  BY DEF Tick, PlannerInv
<1>3. PlanTick(Asked(m), window)
  BY DEF Tick, Asked
<1>4. /\ memory' = [who \in {"scheduler", "views"} |-> memory'[who]]
      /\ Remembers(memory'["scheduler"]) /\ Remembers(memory'["views"])
  <2>1. CASE window = <<>>
    <3>1. memory' = memory
      BY <1>3, <2>1 DEF PlanTick
    <3> QED
      BY <1>1, <3>1
  <2>2. CASE window # <<>>
    <3>1. PICK lo \in Int : window = <<lo, now + w>>
      <4>1. now + w \in Int
        BY <1>1
      <4> QED
        BY <1>1, <2>2, <4>1, WindowIs
    <3>2. memory' = [memory EXCEPT !["scheduler"] =
                       [Asked(m) EXCEPT !.days = EventsBetween(Asked(m), lo, now + w, place).days]]
      BY <1>3, <2>2, <3>1 DEF PlanTick
    <3> DEFINE left == [Asked(m) EXCEPT !.days = EventsBetween(Asked(m), lo, now + w, place).days]
    <3>3. Remembers(left)
      <4>1. now + w \in Int
        BY <1>1
      <4> QED
        BY <1>1, <3>1, <4>1, AskedRemembers
    <3>4. memory' = [memory EXCEPT !["scheduler"] = left]
      BY <3>2
    <3> HIDE DEF left
    <3> QED
      BY <1>1, <3>3, <3>4
  <2> QED
    BY <2>1, <2>2
<1>5. Remembers(memory["scheduler"])' /\ Remembers(memory["views"])'
  BY <1>2, <1>4 DEF Remembers
<1> QED
  BY <1>2, <1>4, <1>5 DEF PlannerInv

LEMMA PreviewKeeps ==
  ASSUME PlannerInv, NEW days \in 1 .. MaxPreviewDays, Preview(days)
  PROVE  PlannerInv'
<1> DEFINE m == memory["views"]
<1> DEFINE hi == now + days * Day
<1> DEFINE r == EventsBetween(Asked(m), now, hi, place)
<1>1. /\ now \in Int /\ revision \in Nat /\ Remembers(m) /\ Remembers(memory["scheduler"])
      /\ memory = [who \in {"scheduler", "views"} |-> memory[who]]
      /\ InTables(now)
  BY DEF PlannerInv
<1>2. UNCHANGED <<now, last, entered, place, book, revision>>
  BY DEF Preview
<1>3. /\ memory' = [memory EXCEPT !["views"] = [Asked(m) EXCEPT !.days = r.days]]
      /\ shown' = {Shown(e, place) : e \in Events(r.results)}
  BY DEF Preview, PreviewBy, Asked
<1>4. hi \in Int /\ hi <= now + 10080
  BY <1>1 DEF MaxPreviewDays, Day
<1>5. /\ memory' = [who \in {"scheduler", "views"} |-> memory'[who]]
      /\ Remembers(memory'["scheduler"]) /\ Remembers(memory'["views"])
  <2> DEFINE left == [Asked(m) EXCEPT !.days = r.days]
  <2>1. Remembers(left)
    BY <1>1, <1>4, AskedRemembers
  <2>2. memory' = [memory EXCEPT !["views"] = left]
    BY <1>3
  <2> HIDE DEF left
  <2> QED
    BY <1>1, <2>1, <2>2
<1>6. Remembers(memory["scheduler"])' /\ Remembers(memory["views"])'
  BY <1>2, <1>5 DEF Remembers
<1>7. ASSUME NEW x \in shown'
      PROVE  PreviewedBy(x, book, place)
  <2>1. PICK e \in Events(r.results) : x = Shown(e, place)
    BY <1>3
  <2>2. Asked(m).book = book
    BY <1>1, AskedIs
  <2>3. \E i \in PlannedOf : \E n, t :
          Succeeds(Asked(m), i, n, t, now, hi) /\ e = <<book[i].id, n, t>>
    BY <2>1, <2>2, EventsAndErrors
  <2>4. PICK i \in PlannedOf : \E n, t :
          Succeeds(Asked(m), i, n, t, now, hi) /\ e = <<book[i].id, n, t>>
    BY <2>3
  <2>5. PICK n, t : Succeeds(Asked(m), i, n, t, now, hi) /\ e = <<book[i].id, n, t>>
    BY <2>4
  <2>6. n \in Span
    <3>1. n \in Scan(now, hi)
      BY <2>5 DEF Succeeds
    <3>2. DayOf(now) \in Int /\ DayOf(hi) \in Int /\ DayOf(hi) <= DayOf(now) + 7
      BY <1>1, <1>4 DEF DayOf, Day
    <3> HIDE DEF hi
    <3>3. FirstDay(now) \in Int /\ DayOf(now) - 3 <= FirstDay(now)
      BY <3>2, MaxOfTwo DEF FirstDay
    <3>4. n \in Int /\ DayOf(now) - 3 <= n /\ n <= DayOf(now) + 10
      BY <3>1, <3>2, <3>3 DEF Scan, LastDay
    <3>5. DayOf(Start) \in Int /\ EndDay \in Int
      BY ClockAssumption, TimeOfDay
    <3>6. DayOf(Start) - 7 <= DayOf(now) /\ DayOf(now) <= EndDay + 2
      BY <1>1, <3>2, <3>5 DEF InTables
    <3> QED
      BY <3>2, <3>4, <3>5, <3>6 DEF Span
  <2>7. i \in DOMAIN book /\ Valid(book[i]) /\ t \in DueMinute(book[i], n, place)
    BY <2>5 DEF PlannedOf, Succeeds
  <2> QED
    BY <2>1, <2>5, <2>6, <2>7 DEF PreviewedBy
<1> QED
  BY <1>1, <1>2, <1>5, <1>6, <1>7 DEF PlannerInv

LEMMA SettingsKeep ==
  ASSUME PlannerInv, NEW where \in Places, ChangeSettings(where)
  PROVE  PlannerInv'
<1>1. Remembers(memory["scheduler"])' /\ Remembers(memory["views"])'
  BY DEF PlannerInv, ChangeSettings, Remembers
<1> QED
  BY <1>1 DEF PlannerInv, ChangeSettings

LEMMA EditKeeps ==
  ASSUME PlannerInv, NEW stored \in Books, EditSchedules(stored)
  PROVE  PlannerInv'
<1>1. revision \in Nat /\ revision' = revision + 1 /\ memory' = memory
  BY DEF PlannerInv, EditSchedules
<1>2. ASSUME NEW who \in {"scheduler", "views"}
      PROVE  Remembers(memory[who])'
  <2>1. Remembers(memory[who])
    BY DEF PlannerInv
  <2> QED
    BY <1>1, <2>1 DEF Remembers
<1> QED
  BY <1>1, <1>2 DEF PlannerInv, EditSchedules

LEMMA SetKeeps ==
  ASSUME PlannerInv, NEW n, NEW minute, SetClock(n, minute)
  PROVE  PlannerInv'
<1> DEFINE o == OffsetForDate(place, n)
<1> DEFINE t == LocalToUtc(Date[n], minute, o)
<1>1. /\ n \in Span /\ Confirms(Date[n], minute)
      /\ now' = MinuteOf(t) /\ InTables(now')
      /\ entered' = n * Day + minute /\ shown' = {}
      /\ UNCHANGED <<last, place, book, revision, memory>>
  BY DEF SetClock
<1>2. /\ n \in Int /\ Date[n] = <<Date[n][1], Date[n][2], Date[n][3]>>
      /\ IsGregorianDate(Date[n][1], Date[n][2], Date[n][3])
      /\ GregorianDay(Date[n][1], Date[n][2], Date[n][3]) = n
  BY <1>1, SpanKnown, GregorianIs DEF Date
<1>3. Date[n][1] # 1
  BY <1>1, YearOfDate
<1>4. minute \in 0 .. 1439
  BY <1>1 DEF Confirms
<1>5. place \in Places
  BY DEF PlannerInv
<1>6. o \in -840 .. 840
  <2>1. place.offset \in -840 .. 840
    BY <1>5, PlacesAssumption DEF SettingsNear, UtcOffsets
  <2>2. o \in {120, 180, place.offset}
    BY DEF OffsetForDate, OffsetForLocal, IsraelOffset
  <2> HIDE DEF o
  <2> QED
    BY <2>1, <2>2
<1> HIDE DEF o
<1>7. /\ t.minute \in 0 .. 1439
      /\ IsGregorianDate(t.date[1], t.date[2], t.date[3])
      /\ GregorianDay(t.date[1], t.date[2], t.date[3]) * 1440 + t.minute = (n * 1440 + minute) - o
  <2> DEFINE y == Date[n][1]
  <2> DEFINE m == Date[n][2]
  <2> DEFINE d == Date[n][3]
  <2> DEFINE u == LocalToUtc(<<y, m, d>>, minute, o)
  <2>1. /\ Date[n] = <<y, m, d>> /\ IsGregorianDate(y, m, d) /\ GregorianDay(y, m, d) = n
        /\ y # 1
    BY <1>2, <1>3
  <2>2. t = u
    BY <2>1
  <2> HIDE DEF y, m, d
  <2>3. /\ u.minute \in 0 .. 1439
        /\ IsGregorianDate(u.date[1], u.date[2], u.date[3])
        /\ GregorianDay(u.date[1], u.date[2], u.date[3]) * 1440 + u.minute
             = GregorianDay(y, m, d) * 1440 + (minute - o)
    <3>1. InDay(minute) /\ AnOffset(o)
      BY <1>4, <1>6 DEF InDay, AnOffset
    <3> QED
      BY <2>1, <3>1, LocalToUtcIs
  <2> HIDE DEF t, u
  <2> QED
    BY <1>2, <1>4, <1>6, <2>1, <2>2, <2>3
<1> HIDE DEF t
<1>8. now' = (1440 * n + minute) - o /\ now' \in Int
  BY <1>1, <1>2, <1>4, <1>6, <1>7 DEF MinuteOf, Day
<1>9. Agrees(place, now', 1440 * n + minute)
  <2>1. minute \in Int /\ 0 <= minute /\ minute <= 1439
    BY <1>4
  <2>2. now' = (1440 * n + minute) - OffsetForDate(place, n)
    BY <1>8 DEF o
  <2> QED
    BY <1>1, <1>5, <1>8, <2>1, <2>2, EnteredIs
<1>10. entered' = 1440 * n + minute
  BY <1>1, <1>2, <1>4 DEF Day
<1>11. Remembers(memory["scheduler"])' /\ Remembers(memory["views"])'
  BY <1>1 DEF PlannerInv, Remembers
<1> QED
  BY <1>1, <1>8, <1>9, <1>10, <1>11 DEF PlannerInv

LEMMA RestartKeeps ==
  ASSUME PlannerInv, Restart
  PROVE  PlannerInv'
<1> DEFINE date == Date[DayOf(now)]
<1> DEFINE k == now % Day
<1>1. PICK t \in SyncToSystem(Registers([date |-> date, minute |-> k])) :
        InTables(MinuteOf(t)) /\ now' = MinuteOf(t)
  BY DEF Restart
<1>2. now \in Int /\ DayOf(now) \in Span
  BY DaysAround DEF PlannerInv
<1>3. date = <<date[1], date[2], date[3]>> /\ IsGregorianDate(date[1], date[2], date[3])
  BY <1>2, SpanKnown, GregorianIs DEF Date
<1>4. k \in Int /\ 0 <= k /\ k <= 1439
  BY <1>2, TimeOfDay
<1> DEFINE y == date[1]
<1> DEFINE m == date[2]
<1> DEFINE d == date[3]
<1> DEFINE c == 2000 + (y % 100)
<1>5. date = <<y, m, d>> /\ IsGregorianDate(y, m, d)
  BY <1>3
<1>6. t = ReadChip(Registers(TimeOf(y, m, d, k)))
  BY <1>1, <1>5 DEF SyncToSystem, TimeOf
<1> HIDE DEF k, y, m, d
<1>7. y \in Nat /\ m \in 1 .. 12 /\ d \in Int
  <2>1. y \in Nat \ {0} /\ m \in 1 .. 12 /\ d \in 1 .. GregorianMonth(y, m)
    BY <1>5 DEF IsGregorianDate
  <2>2. GregorianMonth(y, m) \in 28 .. 31
    BY <2>1, MonthsAre, LeapBoolean, MonthTable
  <2> QED
    BY <2>1, <2>2
<1>8. t = TimeOf(c, m, d, k)
  <2>1. c = 2000 + (y % 100)
    OBVIOUS
  <2> HIDE DEF c
  <2> QED
    BY <1>4, <1>5, <1>6, <1>7, <2>1, ChipReads
<1>9. MinuteOf(t) = GregorianDay(c, m, d) * 1440 + k
  BY <1>8 DEF MinuteOf, TimeOf, Day
<1>10. GregorianDay(c, m, d) \in Int
  <2>1. c \in Int
    BY <1>7
  <2> HIDE DEF c
  <2>2. DaysBefore(c, m) \in Int
    BY <1>7, MonthsAre, LeapBoolean, MonthTable
  <2> QED
    BY <1>7, <2>1, <2>2 DEF GregorianDay
<1>11. now' \in Int /\ InTables(now')
  BY <1>1, <1>4, <1>9, <1>10
<1>12. /\ last' = 0 /\ entered' = 0 /\ shown' = {}
       /\ memory' = [who \in DOMAIN memory |-> NoPlanner]
       /\ UNCHANGED <<place, book, revision>>
  BY DEF Restart
<1>13. DOMAIN memory = {"scheduler", "views"} /\ revision \in Nat
  BY DEF PlannerInv
<1>14. /\ memory' = [who \in {"scheduler", "views"} |-> memory'[who]]
       /\ memory'["scheduler"] = NoPlanner /\ memory'["views"] = NoPlanner
  BY <1>12, <1>13
<1>15. Remembers(memory["scheduler"])' /\ Remembers(memory["views"])'
  BY <1>12, <1>13, <1>14 DEF Remembers, NoPlanner
<1> QED
  BY <1>11, <1>12, <1>14, <1>15 DEF PlannerInv

LEMMA NextPlanner == PlannerInv /\ [Next]_vars => PlannerInv'
<1> SUFFICES ASSUME PlannerInv, [Next]_vars
             PROVE  PlannerInv'
  OBVIOUS
<1>1. CASE QuietDay
  <2>1. Day \in Nat
    BY DEF Day
  <2> QED
    BY <1>1, <2>1, TickKeeps DEF QuietDay
<1>2. CASE Regular
  <2>1. CatchUp \in Nat
    BY DEF CatchUp
  <2> QED
    BY <1>2, <2>1, TickKeeps DEF Regular
<1>3. CASE Irregular
  <2>1. PICK w \in {0, 1, CatchUp + 7} : Tick(w)
    BY <1>3 DEF Irregular
  <2>2. w \in Nat
    BY DEF CatchUp
  <2> QED
    BY <2>1, <2>2, TickKeeps
<1>4. CASE \E days \in 1 .. MaxPreviewDays : Preview(days)
  BY <1>4, PreviewKeeps
<1>5. CASE \E where \in Places : ChangeSettings(where)
  BY <1>5, SettingsKeep
<1>6. CASE \E stored \in Books : EditSchedules(stored)
  BY <1>6, EditKeeps
<1>7. CASE \E k \in {-10, -1, 1}, minute \in EnteredMinutes : SetClock(DayOf(now) + k, minute)
  BY <1>7, SetKeeps
<1>8. CASE Restart
  BY <1>8, RestartKeeps
<1>9. CASE UNCHANGED vars
  <2>1. Remembers(memory["scheduler"])' /\ Remembers(memory["views"])'
    BY <1>9 DEF PlannerInv, Remembers, vars
  <2> QED
    BY <1>9, <2>1 DEF PlannerInv, vars
<1> QED
  BY <1>1, <1>2, <1>3, <1>4, <1>5, <1>6, <1>7, <1>8, <1>9 DEF Next

THEOREM PlannerInductive == Spec => []PlannerInv
<1>1. Init => PlannerInv
  BY InitPlanner
<1>2. PlannerInv /\ [Next]_vars => PlannerInv'
  BY NextPlanner
<1> QED
  BY <1>1, <1>2, PTL DEF Spec

LEMMA TickPlans ==
  ASSUME PlannerInv, NEW w \in Nat, Tick(w), plan'.window # <<>>
  PROVE  WindowPlanned(Occurrences(plan'.window[1], plan'.window[2]), plan',
                       memory["scheduler"].days)
<1> DEFINE m == memory["scheduler"]
<1> DEFINE hi == now + w
<1> DEFINE window == PlanWindow(last, hi)
<1>1. /\ now \in Int /\ last \in Int /\ revision \in Nat /\ Remembers(m)
      /\ place \in Places /\ book \in Books \cup {FirstBook}
  BY DEF PlannerInv
<1>2. PlanTick(Asked(m), window) /\ InTables(hi)
  BY DEF Tick, Asked
<1>3. window # <<>>
  BY <1>2 DEF PlanTick, NoPlan
<1>4. hi \in Int
  BY <1>1
<1> HIDE DEF hi
<1>5. PICK lo \in Int : window = <<lo, hi>> /\ hi - 120 <= lo /\ lo <= hi
  BY <1>1, <1>3, <1>4, WindowIs
<1>6. plan' = [window |-> <<lo, hi>>, results |-> EventsBetween(Asked(m), lo, hi, place).results]
  BY <1>2, <1>3, <1>5 DEF PlanTick
<1>7. /\ plan'.window = <<lo, hi>> /\ plan'.window[1] = lo /\ plan'.window[2] = hi
      /\ plan'.results = EventsBetween(Asked(m), lo, hi, place).results
  BY <1>6
<1>8. Looked(lo, hi)
  BY <1>2, <1>4, <1>5 DEF Looked
<1>9. Asked(m).book = book /\ Asked(m).days \subseteq Int /\ Asked(m).days \subseteq m.days
  BY <1>1, AskedIs
<1>10. WindowPlanned(Occurrences(lo, hi), plan', m.days)
  BY <1>1, <1>7, <1>8, <1>9, WindowIsPlanned
<1> QED
  BY <1>7, <1>10

(* A tick plans what is due in its window, as the property says, for every *)
(* sun, every book of schedules and every walk through the calendar.       *)
THEOREM WindowsPlanned == Spec => PlansWindow
<1> DEFINE Planning == plan' # plan /\ plan'.window # <<>> =>
                         WindowPlanned(Occurrences(plan'.window[1], plan'.window[2]), plan',
                                       memory["scheduler"].days)
<1>1. PlannerInv /\ [Next]_vars => [Planning]_vars
  <2> SUFFICES ASSUME PlannerInv, Next, plan' # plan, plan'.window # <<>>
               PROVE  WindowPlanned(Occurrences(plan'.window[1], plan'.window[2]), plan',
                                    memory["scheduler"].days)
    BY DEF vars
  <2>1. NoPlan.window = <<>>
    BY DEF NoPlan
  <2>2. CASE QuietDay
    <3>1. Day \in Nat
      BY DEF Day
    <3> QED
      BY <2>2, <3>1, TickPlans DEF QuietDay
  <2>3. CASE Regular
    <3>1. CatchUp \in Nat
      BY DEF CatchUp
    <3> QED
      BY <2>3, <3>1, TickPlans DEF Regular
  <2>4. CASE Irregular
    <3>1. PICK w \in {0, 1, CatchUp + 7} : Tick(w)
      BY <2>4 DEF Irregular
    <3>2. w \in Nat
      BY DEF CatchUp
    <3> QED
      BY <3>1, <3>2, TickPlans
  <2>5. CASE \E days \in 1 .. MaxPreviewDays : Preview(days)
    BY <2>5 DEF Preview
  <2>6. CASE \E where \in Places : ChangeSettings(where)
    BY <2>1, <2>6 DEF ChangeSettings
  <2>7. CASE \E stored \in Books : EditSchedules(stored)
    BY <2>1, <2>7 DEF EditSchedules
  <2>8. CASE \E k \in {-10, -1, 1}, minute \in EnteredMinutes : SetClock(DayOf(now) + k, minute)
    BY <2>1, <2>8 DEF SetClock
  <2>9. CASE Restart
    BY <2>1, <2>9 DEF Restart
  <2> QED
    BY <2>2, <2>3, <2>4, <2>5, <2>6, <2>7, <2>8, <2>9 DEF Next
<1> QED
  BY <1>1, PlannerInductive, PTL DEF Spec, PlansWindow

LEMMA TodayShown ==
  ASSUME PlannerInv, NEW key \in ZmanKeys
  PROVE  TodayView(place, Today).zmanim[key]
           = {LocalTime(t) % Day : t \in ZmanMinute(key, 0, Sun(place, Today), Today)}
<1> DEFINE Z == ZmanMinute(key, 0, Sun(place, Today), Today)
<1>1. place \in Places /\ Today \in Span
  BY DaysAround DEF PlannerInv, Today
<1>2. TodayView(place, Today).zmanim[key] = {(t + OffsetForDate(place, Today)) % Day : t \in Z}
  BY DEF TodayView
<1>3. \A t : LocalTime(t) = LocalIn(place, t)
  BY DEF LocalTime, LocalIn
<1>4. \A t \in Z : t + OffsetForDate(place, Today) = LocalTime(t)
  BY <1>1, <1>3, ZmanShown
<1> HIDE DEF Z
<1>5. {(t + OffsetForDate(place, Today)) % Day : t \in Z} = {LocalTime(t) % Day : t \in Z}
  BY <1>4
<1> QED
  BY <1>2, <1>5 DEF Z

LEMMA ShownRight ==
  ASSUME PlannerInv, NEW x \in shown, ById(x.event[1]).trigger.type = "fixed_time"
  PROVE  LET s == ById(x.event[1])
         IN  \/ x.day = x.event[2] /\ x.minute = LocalMinute(s)
             \/ ClockMoves(x.event[2], LocalMinute(s))
<1>1. PreviewedBy(x, book, place) /\ book \in Books \cup {FirstBook} /\ place \in Places
  BY DEF PlannerInv
<1>2. PICK i \in DOMAIN book :
        Valid(book[i]) /\ \E n \in Span : \E t \in DueMinute(book[i], n, place) :
                            x = Shown(<<book[i].id, n, t>>, place)
  BY <1>1 DEF PreviewedBy
<1>3. PICK n \in Span : \E t \in DueMinute(book[i], n, place) :
                            x = Shown(<<book[i].id, n, t>>, place)
  BY <1>2
<1>4. PICK t \in DueMinute(book[i], n, place) : x = Shown(<<book[i].id, n, t>>, place)
  BY <1>3
<1>5. x.event = <<book[i].id, n, t>> /\ x.event[1] = book[i].id /\ x.event[2] = n
  BY <1>4 DEF Shown
<1>6. ById(x.event[1]) = book[i]
  <2>1. \A s \in {book[j] : j \in DOMAIN book} : s.id = book[i].id <=> s = book[i]
    BY <1>1, <1>2, BooksAssumption
  <2>2. book[i] \in {book[j] : j \in DOMAIN book}
    BY <1>2
  <2> QED
    BY <1>5, <2>1, <2>2 DEF ById
<1> DEFINE s == book[i]
<1>7. ValidTrigger(s.trigger) /\ s.trigger.type = "fixed_time"
  BY <1>2, <1>6 DEF Valid
<1>8. t \in DueMinute(s, n, place) /\ x = Shown(<<s.id, n, t>>, place)
  BY <1>4
<1>9. \A k : ClockMoves(n, k) <=> MovesIn(place, n, k)
  BY DEF ClockMoves, MovesIn
<1>10. \/ x.day = n /\ x.minute = LocalMinute(s)
       \/ MovesIn(place, n, LocalMinute(s))
  <2> DEFINE z == Shown(<<s.id, n, t>>, place)
  <2> HIDE DEF s
  <2>1. \/ z.day = n /\ z.minute = LocalMinute(s)
        \/ MovesIn(place, n, LocalMinute(s))
    BY <1>1, <1>7, <1>8, PreviewIs
  <2> QED
    BY <1>8, <2>1
<1> QED
  BY <1>5, <1>6, <1>9, <1>10

(* What is set is what is shown, as the property says, for every place,    *)
(* every sun and every clock that stays in the tables.                     *)
THEOREM ShowsWhatIsSet == Spec => []ShownAsSet
<1>1. PlannerInv => ShownAsSet
  <2> SUFFICES ASSUME PlannerInv
               PROVE  ShownAsSet
    OBVIOUS
  <2>1. /\ \A t : LocalTime(t) = LocalIn(place, t)
        /\ \A n, k : ClockMoves(n, k) <=> MovesIn(place, n, k)
    BY DEF LocalTime, LocalIn, ClockMoves, MovesIn
  <2>2. /\ LocalToday(place, now) = DayOf(LocalTime(now))
        /\ \/ HomeClock(place, now) = LocalTime(now) % Day
           \/ ClockMoves(LocalToday(place, now), LocalTime(now) % Day)
    BY <2>1, HomeIsRight DEF PlannerInv
  <2>3. entered # 0 => LocalTime(now) = entered \/ ClockMoves(DayOf(entered), entered % Day)
    BY <2>1 DEF PlannerInv, Agrees
  <2>4. \E view \in {TodayView(place, Today)} :
          \A k \in ZmanKeys :
            view.zmanim[k] = {LocalTime(t) % Day :
                               t \in ZmanMinute(k, 0, Sun(place, Today), Today)}
    BY TodayShown
  <2>5. \A x \in shown :
          LET s == ById(x.event[1])
          IN  s.trigger.type = "fixed_time" =>
                \/ x.day = x.event[2] /\ x.minute = LocalMinute(s)
                \/ ClockMoves(x.event[2], LocalMinute(s))
    BY ShownRight
  <2> QED
    BY <2>2, <2>3, <2>4, <2>5 DEF ShownAsSet
<1> QED
  BY <1>1, PlannerInductive, PTL

(* A day that the tables cover has a date in them.                         *)
LEMMA HebrewIs ==
  ASSUME NEW n, KnownDay(n), NEW from, NEW to, from <= to, Covers(from, to, n)
  PROVE  LET y == YearOf(n)
         IN  /\ InTable(from, to, y) /\ NewYear[y] <= n /\ n < NewYear[y + 1]
             /\ \E m, d : /\ DayIn(IsLeap(y), Kind(y), m, d)
                          /\ n = HebrewDay(y, m, d) /\ Hebrew(n) = HebrewDate(y, m, d)
<1> DEFINE y == YearOf(n)
<1>1. /\ y \in Int /\ from <= y /\ y + 1 <= to
      /\ NewYear[y] = NewYearOf(y) /\ NewYear[y + 1] = NewYearOf(y + 1)
      /\ NewYearOf(y) <= n /\ n < NewYearOf(y + 1)
  BY YearOfIs
<1>2. n \in Int
  BY DEF KnownDay
<1> DEFINE leap == IsLeap(y)
<1> DEFINE u == Kind(y)
<1> DEFINE k == n - NewYear[y]
<1>3. InTable(from, to, y)
  <2> HIDE DEF y
  <2>1. from \in Nat /\ to \in Nat /\ HebrewYears = from .. to
    BY DEF Covers
  <2>2. y \in from .. (to - 1)
    BY <1>1, <2>1
  <2> QED
    BY <2>1, <2>2 DEF InTable
<1> SUFFICES /\ InTable(from, to, y) /\ NewYear[y] <= n /\ n < NewYear[y + 1]
             /\ \E m, d : /\ DayIn(leap, u, m, d)
                          /\ n = HebrewDay(y, m, d) /\ Hebrew(n) = HebrewDate(y, m, d)
  OBVIOUS
<1>4. Hebrew(n) = HebrewIn(y, n)
  BY DEF Hebrew
<1> HIDE DEF y
<1>5. /\ AYear(leap, u) /\ NewYear[y] \in Int
      /\ NewYear[y + 1] = NewYear[y] + YearTotal(leap, u)
  BY <1>3, YearIs
<1>6. YearTotal(leap, u) \in Int
  BY <1>5 DEF AYear, YearTotal, ToNisan, Cheshvan, Kislev
<1> HIDE DEF leap, u
<1>7. k \in Int /\ 0 <= k /\ k < YearTotal(leap, u) /\ n = NewYear[y] + k
  BY <1>1, <1>2, <1>5, <1>6
<1> HIDE DEF k
<1>8. PICK m : /\ AMonth(leap, m) /\ ToMonth(leap, u, m) <= k
               /\ k < ToMonth(leap, u, m) + HebrewLength(leap, u, m)
  BY <1>5, <1>7, MonthOfTheYear
<1> DEFINE d == k - ToMonth(leap, u, m) + 1
<1>9. ToMonth(leap, u, m) \in Int /\ HebrewLength(leap, u, m) \in Int
  BY <1>5, <1>8, MonthsInOrder
<1>10. /\ d \in Int /\ 1 <= d /\ d <= HebrewLength(leap, u, m)
       /\ n = (NewYear[y] + (ToMonth(leap, u, m) + d)) - 1
  BY <1>5, <1>7, <1>8, <1>9
<1> HIDE DEF d
<1>11. DayIn(leap, u, m, d)
  BY <1>8, <1>10 DEF DayIn
<1>12. n = HebrewDay(y, m, d)
  <2>1. HebrewDay(y, m, d) = (NewYear[y] + (ToMonth(leap, u, m) + d)) - 1
    BY <1>3, <1>8, <1>10, HebrewDayIs DEF leap, u
  <2> QED
    BY <1>10, <2>1
<1>13. InYear(from, to, y, m, d)
  BY <1>3, <1>11 DEF InYear, leap, u
<1>14. HebrewIn(y, n) = HebrewDate(y, m, d)
  BY <1>12, <1>13, HebrewInIs
<1> QED
  BY <1>1, <1>3, <1>4, <1>11, <1>12, <1>14

\* A date in the table lies between the new years of its year.
LEMMA DayInYear ==
  ASSUME NEW from, NEW to, NEW y, NEW m, NEW d, InYear(from, to, y, m, d)
  PROVE  /\ NewYear[y] <= HebrewDay(y, m, d) /\ HebrewDay(y, m, d) < NewYear[y + 1]
         /\ NewYearOf(y) <= HebrewDay(y, m, d) /\ HebrewDay(y, m, d) < NewYearOf(y + 1)
         /\ HebrewDay(y, m, d) \in Int /\ y \in Int
<1> DEFINE leap == IsLeap(y)
<1> DEFINE u == Kind(y)
<1> DEFINE n == HebrewDay(y, m, d)
<1> DEFINE a == ToMonth(leap, u, m)
<1> DEFINE l == HebrewLength(leap, u, m)
<1> DEFINE b == NewYear[y]
<1> DEFINE e == NewYear[y + 1]
<1> DEFINE t == YearTotal(leap, u)
<1>1. /\ InTable(from, to, y) /\ AMonth(leap, m) /\ d \in Int /\ 1 <= d /\ d <= l
  BY DEF InYear, DayIn
<1>2. AYear(leap, u) /\ b \in Int /\ e = b + t
  BY <1>1, YearIs
<1>3. a \in Int /\ l \in Int /\ 0 <= a /\ a + l <= t
  BY <1>1, <1>2, MonthsInOrder
<1>4. t \in Int
  BY <1>2 DEF AYear, YearTotal, ToNisan, Cheshvan, Kislev
<1>5. n = (b + (a + d)) - 1
  BY <1>1, HebrewDayIs
<1>6. y \in HebrewYears /\ y + 1 \in HebrewYears /\ y \in Int
  BY <1>1, YearsOfTable
<1>7. b = NewYearOf(y) /\ e = NewYearOf(y + 1)
  BY <1>6, NewYearIs
<1> SUFFICES b <= n /\ n < e /\ NewYearOf(y) <= n /\ n < NewYearOf(y + 1) /\ n \in Int /\ y \in Int
  OBVIOUS
<1> HIDE DEF leap, u, n, a, l, b, e, t
<1>8. b <= n /\ n < e /\ n \in Int
  BY <1>1, <1>2, <1>3, <1>4, <1>5
<1> QED
  BY <1>6, <1>7, <1>8

LEMMA HebrewOfDate ==
  ASSUME NEW from, NEW to, from <= to, NEW y, NEW m, NEW d, InYear(from, to, y, m, d),
         KnownDay(HebrewDay(y, m, d)), Covers(from, to, HebrewDay(y, m, d))
  PROVE  Hebrew(HebrewDay(y, m, d)) = HebrewDate(y, m, d)
<1> DEFINE n == HebrewDay(y, m, d)
<1> DEFINE z == YearOf(n)
<1>1. /\ NewYearOf(y) <= n /\ n < NewYearOf(y + 1) /\ n \in Int /\ y \in Int
  BY DayInYear
<1>2. /\ z \in Int /\ NewYearOf(z) <= n /\ n < NewYearOf(z + 1)
  BY YearOfIs
<1>3. z = y
  <2> HIDE DEF z, n
  <2> QED
    BY <1>1, <1>2, OneYear
<1>4. HebrewIn(y, n) = HebrewDate(y, m, d)
  BY HebrewInIs
<1> QED
  BY <1>3, <1>4 DEF Hebrew

\* The day after a date: in the month, in the next, in the next year.
LEMMA NextHebrewIs ==
  ASSUME NEW n, KnownDay(n), KnownDay(n + 1), NEW from, NEW to, from <= to,
         Covers(from, to, n), Covers(from, to, n + 1)
  PROVE  NextHebrew(Hebrew(n + 1), Hebrew(n))
<1> DEFINE y == YearOf(n)
<1>1. /\ InTable(from, to, y) /\ NewYear[y] <= n /\ n < NewYear[y + 1]
      /\ \E m, d : /\ DayIn(IsLeap(y), Kind(y), m, d)
                   /\ n = HebrewDay(y, m, d) /\ Hebrew(n) = HebrewDate(y, m, d)
  BY HebrewIs
<1> HIDE DEF y
<1>2. PICK m, d : /\ DayIn(IsLeap(y), Kind(y), m, d)
                  /\ n = HebrewDay(y, m, d) /\ Hebrew(n) = HebrewDate(y, m, d)
  BY <1>1
<1> DEFINE leap == IsLeap(y)
<1> DEFINE u == Kind(y)
<1> DEFINE a == ToMonth(leap, u, m)
<1> DEFINE l == HebrewLength(leap, u, m)
<1> DEFINE b == NewYear[y]
<1> DEFINE t == YearTotal(leap, u)
<1>3. AMonth(leap, m) /\ d \in Int /\ 1 <= d /\ d <= l
  BY <1>2 DEF DayIn
<1>4. AYear(leap, u) /\ b \in Int /\ NewYear[y + 1] = b + t
  BY <1>1, YearIs
<1>5. /\ a \in Int /\ l \in {29, 30} /\ a + l <= t /\ (m = 6 => a + l = t)
  BY <1>3, <1>4, MonthsInOrder
<1>6. n = (b + (a + d)) - 1 /\ n \in Int
  BY <1>1, <1>2, <1>3, HebrewDayIs
<1>7. CASE d < l
  <2>1. DayIn(leap, u, m, d + 1)
    <3> HIDE DEF l, leap, u
    <3> QED
      BY <1>3, <1>5, <1>7 DEF DayIn, l
  <2>2. HebrewDay(y, m, d + 1) = (b + (a + (d + 1))) - 1
    <3>1. d + 1 \in Int
      BY <1>3
    <3> QED
      BY <1>1, <1>3, <3>1, HebrewDayIs
  <2>3. HebrewDay(y, m, d + 1) = n + 1
    <3> HIDE DEF a, b
    <3> QED
      BY <1>3, <1>4, <1>5, <1>6, <2>2
  <2>4. InYear(from, to, y, m, d + 1)
    BY <1>1, <2>1 DEF InYear
  <2>5. Hebrew(n + 1) = HebrewDate(y, m, d + 1)
    BY <2>3, <2>4, HebrewOfDate
  <2> QED
    BY <1>2, <2>5 DEF NextHebrew, HebrewDate
<1>8. CASE d = l /\ m # 6
  <2> DEFINE k == NextMonth(leap, m)
  <2>1. AMonth(leap, k) /\ ToMonth(leap, u, k) = a + l
    BY <1>3, <1>4, <1>8, NextMonthBegins
  <2> HIDE DEF k
  <2>2. HebrewLength(leap, u, k) \in {29, 30}
    BY <1>4, <2>1, MonthsInOrder
  <2>3. DayIn(leap, u, k, 1)
    <3> HIDE DEF leap, u
    <3> QED
      BY <2>1, <2>2 DEF DayIn
  <2>4. HebrewDay(y, k, 1) = (b + (ToMonth(leap, u, k) + 1)) - 1
    BY <1>1, <2>1, HebrewDayIs
  <2>5. HebrewDay(y, k, 1) = n + 1
    <3> HIDE DEF a, b, l, leap, u
    <3> QED
      BY <1>3, <1>4, <1>5, <1>6, <1>8, <2>1, <2>4
  <2>6. InYear(from, to, y, k, 1)
    BY <1>1, <2>3 DEF InYear
  <2>7. Hebrew(n + 1) = HebrewDate(y, k, 1)
    BY <2>5, <2>6, HebrewOfDate
  <2>8. leap \in BOOLEAN /\ Len(Months(y)) = IF leap THEN 13 ELSE 12
    BY <1>4, MonthsOfYear DEF AYear
  <2>9. d \in {29, 30}
    BY <1>5, <1>8
  <2>10. \/ k = m + 1 \/ (k = 1 /\ m = Len(Months(y)))
    BY <2>8 DEF NextMonth, k
  <2>11. /\ HebrewDate(y, k, 1).day = 1 /\ HebrewDate(y, k, 1).year = y /\ HebrewDate(y, k, 1).month = k
         /\ HebrewDate(y, m, d).day = d /\ HebrewDate(y, m, d).year = y /\ HebrewDate(y, m, d).month = m
    BY DEF HebrewDate
  <2> QED
    BY <1>2, <1>8, <2>7, <2>9, <2>10, <2>11 DEF NextHebrew
<1>9. CASE d = l /\ m = 6
  <2> DEFINE z == y + 1
  <2>1. n + 1 = NewYear[z]
    <3>1. NewYear[z] = b + t
      BY <1>4
    <3>2. a + l = t
      BY <1>5, <1>9
    <3> HIDE DEF a, b, l, t, z
    <3> QED
      BY <1>4, <1>5, <1>6, <1>9, <3>1, <3>2
  <2>2. y \in Int /\ z \in Int
    BY <1>1, YearsOfTable
  <2>3. InTable(from, to, z)
    <3>1. from \in Nat /\ to \in Nat /\ HebrewYears = from .. to /\ y \in from .. (to - 1)
      BY <1>1 DEF InTable
    <3>2. z # to
      <4>1. n + 1 < NewYear[to]
        BY DEF Covers
      <4> QED
        BY <1>6, <2>1, <4>1
    <3>3. z \in from .. (to - 1)
      BY <2>2, <3>1, <3>2
    <3> QED
      BY <3>1, <3>3 DEF InTable
  <2> HIDE DEF z
  <2>4. AYear(IsLeap(z), Kind(z)) /\ NewYear[z] \in Int
    BY <2>3, YearIs
  <2>5. AMonth(IsLeap(z), 7)
    BY DEF AMonth
  <2>6. HebrewLength(IsLeap(z), Kind(z), 7) = 30 /\ ToMonth(IsLeap(z), Kind(z), 7) = 0
    BY DEF HebrewLength, ToMonth
  <2>7. InYear(from, to, z, 7, 1)
    BY <2>3, <2>5, <2>6 DEF InYear, DayIn
  <2>8. HebrewDay(z, 7, 1) = (NewYear[z] + (0 + 1)) - 1
    BY <2>3, <2>5, <2>6, HebrewDayIs
  <2>9. HebrewDay(z, 7, 1) = n + 1
    BY <2>1, <2>4, <2>8
  <2>10. Hebrew(n + 1) = HebrewDate(z, 7, 1)
    BY <2>7, <2>9, HebrewOfDate
  <2>11. d \in {29, 30}
    BY <1>5, <1>9
  <2>12. /\ HebrewDate(z, 7, 1).day = 1 /\ HebrewDate(z, 7, 1).year = y + 1 /\ HebrewDate(z, 7, 1).month = 7
         /\ HebrewDate(y, m, d).day = d /\ HebrewDate(y, m, d).year = y /\ HebrewDate(y, m, d).month = m
    BY DEF HebrewDate, z
  <2> QED
    BY <1>2, <1>9, <2>10, <2>11, <2>12 DEF NextHebrew
<1> QED
  <2>1. d < l \/ d = l
    BY <1>3, <1>5
  <2> QED
    BY <1>7, <1>8, <1>9, <2>1

-----------------------------------------------------------------------------
(* From a day to the next                                                  *)

LEMMA Covered ==
  \E from, to \in Nat :
    /\ from <= to
    /\ \A n \in Span : Covers(from, to, n) /\ Covers(from, to, n + 1)
<1>1. PICK from \in HebrewYears, to \in HebrewYears :
        /\ HebrewYears = from .. to
        /\ NewYear[from] <= DayOf(Start) - 12 /\ EndDay + 13 < NewYear[to]
  BY TablesAssumption
<1>2. from \in Nat /\ to \in Nat /\ from <= to
  BY <1>1, YearsAssumption
<1>3. NewYear[from] \in Int /\ NewYear[to] \in Int
  BY NewYearIs, DechiyosIs
<1>4. DayOf(Start) \in Int /\ EndDay \in Int
  BY ClockAssumption DEF DayOf, Day
<1>5. ASSUME NEW n \in Span
      PROVE  Covers(from, to, n) /\ Covers(from, to, n + 1)
  <2>1. n \in Int /\ DayOf(Start) - 12 <= n /\ n <= EndDay + 12
    BY <1>4 DEF Span
  <2>2. /\ NewYear[from] <= n /\ n < NewYear[to]
        /\ NewYear[from] <= n + 1 /\ n + 1 < NewYear[to]
    BY <1>1, <1>3, <1>4, <2>1
  <2> QED
    BY <1>1, <1>2, <2>2 DEF Covers
<1> QED
  BY <1>2, <1>5

LEMMA NextDateIs ==
  ASSUME NEW n \in Span, n + 1 \in Span
  PROVE  NextDate(Gregorian(n + 1), Gregorian(n))
<1>1. KnownDay(n) /\ KnownDay(n + 1)
  BY SpanKnown
<1>2. PICK y \in Nat \ {0}, m \in 1 .. 12 : \E d \in 1 .. GregorianMonth(y, m) :
        Gregorian(n) = <<y, m, d>> /\ GregorianDay(y, m, d) = n
  BY <1>1, DateOfDay
<1>3. PICK d \in 1 .. GregorianMonth(y, m) :
        Gregorian(n) = <<y, m, d>> /\ GregorianDay(y, m, d) = n
  BY <1>2
<1>4. y \in Int
  OBVIOUS
<1>5. /\ d + 1 \in 1 .. GregorianMonth(y, m) => GregorianDay(y, m, d + 1) = n + 1
      /\ d = GregorianMonth(y, m) /\ m < 12 =>
           /\ m + 1 \in 1 .. 12 /\ 1 \in 1 .. GregorianMonth(y, m + 1)
           /\ GregorianDay(y, m + 1, 1) = n + 1
      /\ d = GregorianMonth(y, m) /\ m = 12 =>
           /\ d = 31 /\ 1 \in 1 .. GregorianMonth(y + 1, 1)
           /\ GregorianDay(y + 1, 1, 1) = n + 1
  BY <1>3, <1>4, NextDay
<1>6. CASE d + 1 \in 1 .. GregorianMonth(y, m)
  <2>1. IsGregorianDate(y, m, d + 1)
    BY <1>6 DEF IsGregorianDate
  <2>2. Gregorian(n + 1) = <<y, m, d + 1>>
    BY <1>1, <1>5, <1>6, <2>1, DateOfIs
  <2> QED
    BY <1>3, <2>1, <2>2 DEF NextDate
<1>7. CASE d = GregorianMonth(y, m) /\ m < 12
  <2>1. IsGregorianDate(y, m + 1, 1)
    BY <1>5, <1>7 DEF IsGregorianDate
  <2>2. Gregorian(n + 1) = <<y, m + 1, 1>>
    BY <1>1, <1>5, <1>7, <2>1, DateOfIs
  <2> QED
    BY <1>3, <1>7, <2>1, <2>2 DEF NextDate
<1>8. CASE d = GregorianMonth(y, m) /\ m = 12
  <2>1. IsGregorianDate(y + 1, 1, 1)
    BY <1>5, <1>8 DEF IsGregorianDate
  <2>2. Gregorian(n + 1) = <<y + 1, 1, 1>>
    BY <1>1, <1>5, <1>8, <2>1, DateOfIs
  <2> QED
    BY <1>3, <1>5, <1>8, <2>1, <2>2 DEF NextDate
<1> QED
  <2>1. GregorianMonth(y, m) \in Int
    BY MonthsAre, LeapBoolean, MonthTable
  <2> QED
    BY <1>6, <1>7, <1>8, <2>1

LEMMA NextDayIsSound ==
  ASSUME NEW n \in Span, n + 1 \in Span
  PROVE  /\ NextDate(Gregorian(n + 1), Gregorian(n))
         /\ NextHebrew(Hebrew(n + 1), Hebrew(n))
         /\ DaysInYear(YearOf(n)) \in {353, 354, 355, 383, 384, 385}
         /\ DayOfWeek(NewYear[YearOf(n)]) \in {2, 3, 5, 7}
         /\ \E g \in {Gregorian(n)} : GregorianDay(g[1], g[2], g[3]) = n
<1>1. KnownDay(n) /\ KnownDay(n + 1)
  BY SpanKnown
<1>2. PICK from \in Nat, to \in Nat :
        /\ from <= to
        /\ \A k \in Span : Covers(from, to, k) /\ Covers(from, to, k + 1)
  BY Covered
<1>3. Covers(from, to, n) /\ Covers(from, to, n + 1)
  BY <1>2
<1>4. NextHebrew(Hebrew(n + 1), Hebrew(n))
  BY <1>1, <1>2, <1>3, NextHebrewIs
<1>5. InTable(from, to, YearOf(n))
  BY <1>1, <1>2, <1>3, HebrewIs
<1> DEFINE y == YearOf(n)
<1>6. y \in HebrewYears /\ y + 1 \in HebrewYears /\ y \in Int
  BY <1>5, YearsOfTable
<1>7. DaysInYear(y) \in {353, 354, 355, 383, 384, 385}
  <2>1. NewYear[y] = NewYearOf(y) /\ NewYear[y + 1] = NewYearOf(y + 1)
    BY <1>6, NewYearIs
  <2>2. NewYearOf(y + 1) - NewYearOf(y) \in IF IsLeap(y) THEN {383, 384, 385} ELSE {353, 354, 355}
    BY <1>6, HebrewYearLength
  <2> QED
    BY <2>1, <2>2 DEF DaysInYear
<1>8. DayOfWeek(NewYear[y]) \in {2, 3, 5, 7}
  BY <1>6, NewYearOnFourDays
<1>9. \E g \in {Gregorian(n)} : GregorianDay(g[1], g[2], g[3]) = n
  BY <1>1, GregorianIs
<1> QED
  BY <1>4, <1>7, <1>8, <1>9, NextDateIs

(* Both calendars move from a date to the next, as the property says, over *)
(* every stretch of days that the tables cover: no year, no rule of the    *)
(* postponements and no length of a month makes the formulas skip a date.  *)
THEOREM CalendarSound == Spec => CalendarIsSound
<1> DEFINE Walk == Today' = Today + 1 =>
      /\ NextDate(Gregorian(Today'), Gregorian(Today))
      /\ NextHebrew(Hebrew(Today'), Hebrew(Today))
      /\ DaysInYear(YearOf(Today)) \in {353, 354, 355, 383, 384, 385}
      /\ DayOfWeek(NewYear[YearOf(Today)]) \in {2, 3, 5, 7}
      /\ \E g \in {Gregorian(Today)} : GregorianDay(g[1], g[2], g[3]) = Today
<1>1. PlannerInv /\ [Next]_vars => [Walk]_vars
  <2> SUFFICES ASSUME PlannerInv, Today' = Today + 1
               PROVE  /\ NextDate(Gregorian(Today'), Gregorian(Today))
                      /\ NextHebrew(Hebrew(Today'), Hebrew(Today))
                      /\ DaysInYear(YearOf(Today)) \in {353, 354, 355, 383, 384, 385}
                      /\ DayOfWeek(NewYear[YearOf(Today)]) \in {2, 3, 5, 7}
                      /\ \E g \in {Gregorian(Today)} : GregorianDay(g[1], g[2], g[3]) = Today
    OBVIOUS
  <2>1. Today \in Span /\ Today + 1 \in Span
    BY DaysAround DEF PlannerInv, Today
  <2> QED
    BY <2>1, NextDayIsSound
<1> QED
  BY <1>1, PlannerInductive, PTL DEF Spec, CalendarIsSound

-----------------------------------------------------------------------------
(* What is kept on a day                                                   *)

Adar(leap) == IF leap THEN 13 ELSE 12

\* A fast on its day unless that is Shabbat, else on the day after.
FastKept(m, d, dow, k, e) == m = k /\ ((d = e /\ dow # 7) \/ (d = e + 1 /\ dow = 1))

EstherKept(m, d, dow, leap) ==
  m = Adar(leap) /\ ((d = 13 /\ dow # 7) \/ (d = 11 /\ dow = 5))

FastDay(m, d, dow, leap) ==
  \/ m = 7 /\ d = 10
  \/ m = 10 /\ d = 10
  \/ FastKept(m, d, dow, 7, 3)
  \/ FastKept(m, d, dow, 4, 17)
  \/ FastKept(m, d, dow, 5, 9)
  \/ EstherKept(m, d, dow, leap)

ChanukahDay(m, d, u) ==
  \/ m = 9 /\ d >= 25
  \/ m = 10 /\ d \in (IF u = 3 THEN {1, 2, 3} ELSE {1, 2})

LEMMA KeptIs ==
  ASSUME NEW h, NEW leap \in BOOLEAN, leap = IsLeap(h.year), NEW u, u = Kind(h.year),
         NEW dow, NEW inIsrael \in BOOLEAN,
         h.month \in {1, 2, 3, 4, 5, 6, 7, 8, 9, 10, 11, 12, 13}, h.month = 13 => leap,
         h.day \in Int
  PROVE  LET sig == SignificantDay(h, dow, inIsrael)
         IN  /\ sig \in Taanis <=> FastDay(h.month, h.day, dow, leap)
             /\ sig = "purim" <=> h.month = Adar(leap) /\ h.day = 14
             /\ sig = "chanukah" <=> ChanukahDay(h.month, h.day, u)
<1> DEFINE sig == SignificantDay(h, dow, inIsrael)
<1> DEFINE m == h.month
<1> DEFINE d == h.day
<1> DEFINE Claim == /\ sig \in Taanis <=> FastDay(m, d, dow, leap)
                    /\ sig = "purim" <=> m = Adar(leap) /\ d = 14
                    /\ sig = "chanukah" <=> ChanukahDay(m, d, u)
<1> SUFFICES Claim
  OBVIOUS
<1> DEFINE extra == IF DaysInYear(h.year) % 10 = 3 THEN {1, 2, 3} ELSE {1, 2}
<1>1. extra = IF u = 3 THEN {1, 2, 3} ELSE {1, 2}
  BY DEF Kind
<1> USE DEF Taanis, FastDay, FastKept, EstherKept, ChanukahDay, Adar
<1>2. CASE m = 7
  <2>1. sig = Tishrei(h, dow, inIsrael)
    BY <1>2 DEF SignificantDay
  <2>2. sig \in Taanis <=> d = 10 \/ Fast(h, dow, 3)
    BY <2>1 DEF Tishrei, Fast
  <2>3. sig # "purim" /\ sig # "chanukah"
    BY <2>1 DEF Tishrei
  <2> HIDE DEF sig
  <2> QED
    BY <1>2, <2>2, <2>3 DEF Fast, Shabbat
<1>3. CASE m \in {1, 2, 3, 8, 11}
  <2>1. sig \in {"erev_pesach", "pesach", "chol_hamoed_pesach", "pesach_sheni", "lag_baomer",
                 "erev_shavuos", "shavuos", "tu_beshvat", "none"}
    BY <1>3 DEF SignificantDay, Nisan
  <2> HIDE DEF sig
  <2> QED
    BY <1>3, <2>1
<1>4. CASE m \in {4, 5, 6}
  <2>1. sig = IF m = 4 /\ Fast(h, dow, 17) THEN "seventeen_of_tammuz"
              ELSE IF m = 5 /\ Fast(h, dow, 9) THEN "tisha_beav"
              ELSE IF m = 5 /\ d = 15 THEN "tu_beav"
              ELSE IF m = 6 /\ d = 29 THEN "erev_rosh_hashana" ELSE "none"
    BY <1>4 DEF SignificantDay, Fast
  <2> HIDE DEF sig
  <2> QED
    BY <1>4, <2>1 DEF Fast, Shabbat
<1>5. CASE m \in {9, 10}
  <2>1. sig = IF m = 9 /\ d >= 25 THEN "chanukah"
              ELSE IF m = 10 /\ d \in extra THEN "chanukah"
              ELSE IF m = 10 /\ d = 10 THEN "tenth_of_teves" ELSE "none"
    BY <1>5 DEF SignificantDay
  <2> HIDE DEF sig
  <2> QED
    BY <1>1, <1>5, <2>1
<1>6. CASE m = 12 /\ leap
  <2>1. sig \in {"purim_katan", "shushan_purim_katan", "none"}
    BY <1>6 DEF SignificantDay
  <2> HIDE DEF sig
  <2> QED
    BY <1>6, <2>1
<1>7. CASE m = Adar(leap)
  <2>1. sig = PurimDay(h, dow)
    BY <1>7 DEF SignificantDay
  <2>2. sig = IF (d = 13 /\ dow # 7) \/ (d = 11 /\ dow = 5) THEN "taanis_esther"
              ELSE IF d = 14 THEN "purim" ELSE IF d = 15 THEN "shushan_purim" ELSE "none"
    BY <2>1 DEF PurimDay, Shabbat
  <2> HIDE DEF sig
  <2> QED
    BY <1>7, <2>2
<1> QED
  BY <1>2, <1>3, <1>4, <1>5, <1>6, <1>7

\* A day of the year, counted from 1.
NumberOf(leap, u, m, d) == ToMonth(leap, u, m) + d

LEMMA NumberIs ==
  ASSUME NEW leap, NEW u, AYear(leap, u), NEW m, NEW d, DayIn(leap, u, m, d)
  PROVE  NumberOf(leap, u, m, d) \in Int
<1>1. ToMonth(leap, u, m) \in Int /\ d \in Int
  BY MonthsInOrder DEF DayIn
<1> QED
  BY <1>1 DEF NumberOf

LEMMA NumberedApart ==
  ASSUME NEW leap, NEW u, AYear(leap, u), NEW m, NEW d, DayIn(leap, u, m, d),
         NEW k, NEW e, DayIn(leap, u, k, e)
  PROVE  NumberOf(leap, u, m, d) = NumberOf(leap, u, k, e) <=> m = k /\ d = e
BY DaysApart DEF NumberOf

LEMMA BetweenDays ==
  ASSUME NEW from, NEW to, NEW y, NEW m, NEW d, InYear(from, to, y, m, d),
         NEW k, NEW e, InYear(from, to, y, k, e)
  PROVE  /\ HebrewDay(y, m, d) - HebrewDay(y, k, e)
              = NumberOf(IsLeap(y), Kind(y), m, d) - NumberOf(IsLeap(y), Kind(y), k, e)
         /\ HebrewDay(y, m, d) = HebrewDay(y, k, e) <=> m = k /\ d = e
<1> DEFINE leap == IsLeap(y)
<1> DEFINE u == Kind(y)
<1>1. /\ InTable(from, to, y) /\ DayIn(leap, u, m, d) /\ DayIn(leap, u, k, e)
      /\ AMonth(leap, m) /\ AMonth(leap, k) /\ d \in Int /\ e \in Int
  BY DEF InYear, DayIn
<1>2. AYear(leap, u) /\ NewYear[y] \in Int
  BY <1>1, YearIs
<1> DEFINE p == ToMonth(leap, u, m)
<1> DEFINE q == ToMonth(leap, u, k)
<1> DEFINE b == NewYear[y]
<1>3. p \in Int /\ q \in Int /\ b \in Int
  BY <1>1, <1>2, MonthsInOrder
<1>4. /\ HebrewDay(y, m, d) = (b + (p + d)) - 1
      /\ HebrewDay(y, k, e) = (b + (q + e)) - 1
  BY <1>1, HebrewDayIs
<1>5. NumberOf(leap, u, m, d) = p + d /\ NumberOf(leap, u, k, e) = q + e
  BY DEF NumberOf
<1>6. NumberOf(leap, u, m, d) = NumberOf(leap, u, k, e) <=> m = k /\ d = e
  BY <1>1, <1>2, NumberedApart
<1> HIDE DEF p, q, b, leap, u
<1>7. /\ HebrewDay(y, m, d) - HebrewDay(y, k, e) = (p + d) - (q + e)
      /\ HebrewDay(y, m, d) = HebrewDay(y, k, e) <=> p + d = q + e
  BY <1>1, <1>3, <1>4
<1> QED
  BY <1>5, <1>6, <1>7 DEF leap, u

\* The days that the rules name are in every year.
LEMMA NamedDays ==
  ASSUME NEW leap, NEW u, AYear(leap, u)
  PROVE  /\ DayIn(leap, u, 7, 3) /\ DayIn(leap, u, 7, 4) /\ DayIn(leap, u, 7, 10)
         /\ DayIn(leap, u, 10, 10)
         /\ DayIn(leap, u, 4, 17) /\ DayIn(leap, u, 4, 18)
         /\ DayIn(leap, u, 5, 9) /\ DayIn(leap, u, 5, 10)
         /\ DayIn(leap, u, 9, 25) /\ DayIn(leap, u, 1, 15)
         /\ DayIn(leap, u, Adar(leap), 11) /\ DayIn(leap, u, Adar(leap), 13)
         /\ DayIn(leap, u, Adar(leap), 14)
<1>1. leap \in BOOLEAN
  BY DEF AYear
<1>2. /\ HebrewLength(leap, u, 7) = 30 /\ HebrewLength(leap, u, 10) = 29
      /\ HebrewLength(leap, u, 4) = 29 /\ HebrewLength(leap, u, 5) = 30
      /\ HebrewLength(leap, u, 1) = 30 /\ HebrewLength(leap, u, 9) \in {29, 30}
      /\ HebrewLength(leap, u, Adar(leap)) = 29
  BY <1>1 DEF HebrewLength, Kislev, Adar
<1>3. /\ AMonth(leap, 7) /\ AMonth(leap, 10) /\ AMonth(leap, 4) /\ AMonth(leap, 5)
      /\ AMonth(leap, 1) /\ AMonth(leap, 9) /\ AMonth(leap, Adar(leap))
  BY <1>1 DEF AMonth, Adar
<1> QED
  BY <1>2, <1>3 DEF DayIn

\* Adar is the month before Nisan, with 29 days.
LEMMA BeforePesach ==
  ASSUME NEW leap, NEW u, AYear(leap, u), NEW e \in Int
  PROVE  NumberOf(leap, u, 1, 15) - NumberOf(leap, u, Adar(leap), e) = 44 - e
<1> DEFINE a == Adar(leap)
<1>1. leap \in BOOLEAN
  BY DEF AYear
<1>2. AMonth(leap, a) /\ a # 6 /\ NextMonth(leap, a) = 1 /\ HebrewLength(leap, u, a) = 29
  BY <1>1 DEF AMonth, Adar, NextMonth, HebrewLength
<1>3. ToMonth(leap, u, 1) = ToMonth(leap, u, a) + 29 /\ ToMonth(leap, u, a) \in Int
  BY <1>2, NextMonthBegins, MonthsInOrder
<1> HIDE DEF a
<1> QED
  BY <1>3 DEF NumberOf, a

LEMMA ChanukahIs ==
  ASSUME NEW leap, NEW u, AYear(leap, u), NEW m, NEW d, DayIn(leap, u, m, d)
  PROVE  ChanukahDay(m, d, u)
           <=> NumberOf(leap, u, m, d) - NumberOf(leap, u, 9, 25) \in 0 .. 7
<1> DEFINE c == Cheshvan(u)
<1> DEFINE s == Kislev(u)
<1> DEFINE nisan == IF leap THEN 148 ELSE 118
<1> DEFINE a == ToMonth(leap, u, m)
<1> DEFINE l == HebrewLength(leap, u, m)
<1> DEFINE x == NumberOf(leap, u, m, d)
<1> DEFINE z == NumberOf(leap, u, 9, 25)
<1>1. AMonth(leap, m) /\ d \in Int /\ 1 <= d /\ d <= l
  BY DEF DayIn
<1>2. m \in {1, 2, 3, 4, 5, 6, 7, 8, 9, 10, 11, 12, 13}
  BY <1>1, AMonthIs
<1>3. /\ c \in {29, 30} /\ s \in {29, 30} /\ leap \in BOOLEAN
      /\ m = 7 => a = 0 /\ l = 30
      /\ m = 8 => a = 30 /\ l = c
      /\ m = 9 => a = 30 + c /\ l = s
      /\ m = 10 => a = 30 + c + s /\ l = 29
      /\ m = 11 => a = 59 + c + s /\ l = 30
      /\ m = 12 => a = 89 + c + s
      /\ m = 13 => a = 119 + c + s
      /\ m = 1 => a = nisan + c + s
      /\ m = 2 => a = nisan + c + s + 30
      /\ m = 3 => a = nisan + c + s + 59
      /\ m = 4 => a = nisan + c + s + 89
      /\ m = 5 => a = nisan + c + s + 118
      /\ m = 6 => a = nisan + c + s + 148
  BY <1>1, MonthsBegin
<1>4. x = a + d /\ z = 30 + c + 25
  BY DEF NumberOf, ToMonth
<1>5. u = 3 <=> s = 29
  BY DEF Kislev
<1>6. nisan \in Int /\ 118 <= nisan
  BY <1>3
<1> SUFFICES ChanukahDay(m, d, u) <=> x - z \in 0 .. 7
  OBVIOUS
<1> HIDE DEF c, s, nisan, a, l, x, z
<1>7. CASE m \in {7, 8}
  <2>1. a + l <= 30 + c /\ a \in Int /\ l \in Int
    BY <1>3, <1>7
  <2> QED
    BY <1>1, <1>3, <1>4, <1>7, <2>1 DEF ChanukahDay
<1>8. CASE m = 9
  BY <1>1, <1>3, <1>4, <1>8 DEF ChanukahDay
<1>9. CASE m = 10
  <2>1. x - z = (s + d) - 25
    BY <1>1, <1>3, <1>4, <1>9
  <2>2. CASE s = 29
    BY <1>1, <1>5, <1>9, <2>1, <2>2 DEF ChanukahDay
  <2>3. CASE s = 30
    BY <1>1, <1>5, <1>9, <2>1, <2>3 DEF ChanukahDay
  <2> QED
    BY <1>3, <2>2, <2>3
<1>10. CASE m \in {11, 12, 13, 1, 2, 3, 4, 5, 6}
  <2>1. 59 + c + s <= a /\ a \in Int
    BY <1>3, <1>6, <1>10
  <2> QED
    BY <1>1, <1>3, <1>4, <1>10, <2>1 DEF ChanukahDay
<1> QED
  BY <1>2, <1>7, <1>8, <1>9, <1>10

LEMMA OmerIs ==
  ASSUME NEW leap, NEW u, AYear(leap, u), NEW m, NEW d, DayIn(leap, u, m, d),
         NEW h, h.month = m, h.day = d
  PROVE  LET j == NumberOf(leap, u, m, d) - NumberOf(leap, u, 1, 15)
         IN  DayOfOmer(h) = IF j \in 1 .. 49 THEN j ELSE 0
<1> DEFINE n == ToNisan(leap, u)
<1> DEFINE a == ToMonth(leap, u, m)
<1> DEFINE l == HebrewLength(leap, u, m)
<1> DEFINE j == NumberOf(leap, u, m, d) - NumberOf(leap, u, 1, 15)
<1>1. AMonth(leap, m) /\ d \in Int /\ 1 <= d /\ d <= l
  BY DEF DayIn
<1>2. m \in {1, 2, 3, 4, 5, 6, 7, 8, 9, 10, 11, 12, 13}
  BY <1>1, AMonthIs
<1>3. a \in Int /\ l \in {29, 30} /\ AMonth(leap, 1) /\ leap \in BOOLEAN
  BY <1>1, MonthsInOrder DEF AMonth, AYear
<1>4. j = (a + d) - (n + 15)
  <2>1. NumberOf(leap, u, m, d) = a + d
    BY DEF NumberOf
  <2>2. NumberOf(leap, u, 1, 15) = n + 15
    BY DEF NumberOf, ToMonth
  <2> QED
    BY <2>1, <2>2
<1>5. /\ m = 1 => a = n
      /\ m = 2 => a = n + 30 /\ l = 29
      /\ m = 3 => a = n + 59
      /\ m = 4 => a = n + 89
      /\ m = 5 => a = n + 118
      /\ m = 6 => a = n + 148
  BY DEF ToMonth, HebrewLength
<1>6. n \in Int
  BY <1>3 DEF ToNisan, Cheshvan, Kislev
<1>7. m >= 7 => a + l <= n
  <2> SUFFICES ASSUME m >= 7
               PROVE  a + l <= n
    OBVIOUS
  <2>1. Place(leap, m) < Place(leap, 1)
    BY <1>1, <1>3 DEF Place, AMonth
  <2>2. ToMonth(leap, u, 1) = n
    BY DEF ToMonth
  <2> QED
    BY <1>1, <1>3, <2>1, <2>2, MonthsApart
<1>8. DayOfOmer(h) = IF m = 1 /\ d > 15 THEN d - 15
                     ELSE IF m = 2 THEN d + 15
                     ELSE IF m = 3 /\ d < 6 THEN d + 44 ELSE 0
  BY DEF DayOfOmer
<1> SUFFICES DayOfOmer(h) = IF j \in 1 .. 49 THEN j ELSE 0
  OBVIOUS
<1> HIDE DEF n, a, l, j
<1>9. CASE m = 1
  BY <1>1, <1>3, <1>4, <1>5, <1>6, <1>8, <1>9
<1>10. CASE m = 2
  BY <1>1, <1>3, <1>4, <1>5, <1>6, <1>8, <1>10
<1>11. CASE m = 3
  BY <1>1, <1>3, <1>4, <1>5, <1>6, <1>8, <1>11
<1>12. CASE m \in {4, 5, 6}
  <2>1. n + 89 <= a
    BY <1>5, <1>6, <1>12
  <2>2. j > 49 /\ j \in Int
    BY <1>1, <1>3, <1>4, <1>6, <2>1
  <2> QED
    BY <1>8, <1>12, <2>2
<1>13. CASE m >= 7
  <2>1. j < 1 /\ j \in Int
    BY <1>1, <1>3, <1>4, <1>6, <1>7, <1>13
  <2> QED
    BY <1>2, <1>8, <1>13, <2>1
<1> QED
  BY <1>2, <1>9, <1>10, <1>11, <1>12, <1>13

LEMMA PutOffIs ==
  ASSUME NEW from, NEW to, NEW y, NEW m, NEW d, InYear(from, to, y, m, d),
         NEW k, NEW e, e \in Int, InYear(from, to, y, k, e), InYear(from, to, y, k, e + 1)
  PROVE  LET n == HebrewDay(y, m, d)
             f == HebrewDay(y, k, e)
         IN  n = (IF DayOfWeek(f) = Shabbat THEN f + 1 ELSE f)
               <=> FastKept(m, d, DayOfWeek(n), k, e)
<1> DEFINE n == HebrewDay(y, m, d)
<1> DEFINE f == HebrewDay(y, k, e)
<1> DEFINE g == HebrewDay(y, k, e + 1)
<1>1. n \in Int /\ f \in Int /\ g \in Int
  BY DayInYear
<1>2. /\ n = f <=> m = k /\ d = e
      /\ n = g <=> m = k /\ d = e + 1
  BY BetweenDays
<1>3. g = f + 1
  <2> DEFINE p == NumberOf(IsLeap(y), Kind(y), k, e + 1)
  <2> DEFINE q == NumberOf(IsLeap(y), Kind(y), k, e)
  <2> DEFINE a == ToMonth(IsLeap(y), Kind(y), k)
  <2>1. g - f = p - q
    BY BetweenDays
  <2>2. p = a + (e + 1) /\ q = a + e
    BY DEF NumberOf
  <2>3. a \in Int
    <3>1. AYear(IsLeap(y), Kind(y)) /\ AMonth(IsLeap(y), k)
      BY YearIs DEF InYear, DayIn
    <3> QED
      BY <3>1, MonthsInOrder
  <2> HIDE DEF p, q, a, f, g
  <2> QED
    BY <1>1, <2>1, <2>2, <2>3
<1> SUFFICES n = (IF DayOfWeek(f) = Shabbat THEN f + 1 ELSE f)
               <=> FastKept(m, d, DayOfWeek(n), k, e)
  OBVIOUS
<1> HIDE DEF n, f, g
<1>4. DayOfWeek(f) = 7 <=> DayOfWeek(f + 1) = 1
  BY <1>1 DEF DayOfWeek
<1>5. DayOfWeek(f) = 7 => f + 1 # f
  BY <1>1
<1> QED
  BY <1>1, <1>2, <1>3, <1>4, <1>5 DEF FastKept, Shabbat

\* The Fast of Esther is on 13 Adar, or on the Thursday before it.
LEMMA EstherIs ==
  ASSUME NEW from, NEW to, NEW y, NEW m, NEW d, InYear(from, to, y, m, d)
  PROVE  LET n == HebrewDay(y, m, d)
             pesach == HebrewDay(y, 1, 15)
         IN  /\ n = pesach - (IF DayOfWeek(pesach) = 3 THEN 33 ELSE 31)
                  <=> EstherKept(m, d, DayOfWeek(n), IsLeap(y))
             /\ n = pesach - 30 <=> m = Adar(IsLeap(y)) /\ d = 14
<1> DEFINE leap == IsLeap(y)
<1> DEFINE n == HebrewDay(y, m, d)
<1> DEFINE p == HebrewDay(y, 1, 15)
<1> DEFINE adar == Adar(leap)
<1>1. InTable(from, to, y) /\ AYear(leap, Kind(y))
  BY YearIs DEF InYear
<1>2. /\ InYear(from, to, y, 1, 15) /\ InYear(from, to, y, adar, 11)
      /\ InYear(from, to, y, adar, 13) /\ InYear(from, to, y, adar, 14)
  BY <1>1, NamedDays DEF InYear
<1>3. ASSUME NEW e \in Int, InYear(from, to, y, adar, e)
      PROVE  /\ p - HebrewDay(y, adar, e) = 44 - e
             /\ n = HebrewDay(y, adar, e) <=> m = adar /\ d = e
             /\ HebrewDay(y, adar, e) \in Int
  <2>1. /\ p - HebrewDay(y, adar, e)
             = NumberOf(leap, Kind(y), 1, 15) - NumberOf(leap, Kind(y), adar, e)
        /\ n = HebrewDay(y, adar, e) <=> m = adar /\ d = e
    BY <1>2, <1>3, BetweenDays
  <2>2. NumberOf(leap, Kind(y), 1, 15) - NumberOf(leap, Kind(y), adar, e) = 44 - e
    BY <1>1, BeforePesach
  <2>3. HebrewDay(y, adar, e) \in Int
    BY <1>3, DayInYear
  <2> QED
    BY <2>1, <2>2, <2>3
<1>4. n \in Int /\ p \in Int
  BY <1>2, DayInYear
<1>5. /\ p - HebrewDay(y, adar, 11) = 33 /\ HebrewDay(y, adar, 11) \in Int
      /\ n = HebrewDay(y, adar, 11) <=> m = adar /\ d = 11
  BY <1>2, <1>3
<1>6. /\ p - HebrewDay(y, adar, 13) = 31 /\ HebrewDay(y, adar, 13) \in Int
      /\ n = HebrewDay(y, adar, 13) <=> m = adar /\ d = 13
  BY <1>2, <1>3
<1>7. /\ p - HebrewDay(y, adar, 14) = 30 /\ HebrewDay(y, adar, 14) \in Int
      /\ n = HebrewDay(y, adar, 14) <=> m = adar /\ d = 14
  BY <1>2, <1>3
<1>8. /\ n = p - 33 <=> m = adar /\ d = 11
      /\ n = p - 31 <=> m = adar /\ d = 13
      /\ n = p - 30 <=> m = adar /\ d = 14
  <2> HIDE DEF n, p, adar
  <2> QED
    BY <1>4, <1>5, <1>6, <1>7
<1> SUFFICES /\ n = p - (IF DayOfWeek(p) = 3 THEN 33 ELSE 31)
                  <=> EstherKept(m, d, DayOfWeek(n), leap)
             /\ n = p - 30 <=> m = adar /\ d = 14
  OBVIOUS
<1>9. EstherKept(m, d, DayOfWeek(n), leap)
        <=> m = adar /\ ((d = 13 /\ DayOfWeek(n) # 7) \/ (d = 11 /\ DayOfWeek(n) = 5))
  BY DEF EstherKept
<1> HIDE DEF n, p, adar, leap
<1>10. /\ n = p - 31 => (DayOfWeek(n) = 7 <=> DayOfWeek(p) = 3)
       /\ n = p - 33 => (DayOfWeek(n) = 5 <=> DayOfWeek(p) = 3)
  BY <1>4 DEF DayOfWeek
<1>11. p - 31 # p - 33
  BY <1>4
<1> QED
  BY <1>8, <1>9, <1>10, <1>11

LEMMA InfoMore ==
  ASSUME NEW n \in Span, place.inIsrael \in BOOLEAN
  PROVE  LET sig == SignificantDay(Hebrew(n), DayOfWeek(n), place.inIsrael)
         IN  /\ InfoOf(n).sig = sig
             /\ InfoOf(n).taanis = (sig \in Taanis)
             /\ InfoOf(n).omer = DayOfOmer(Hebrew(n))
<1> DEFINE i == place.inIsrael
<1> DEFINE sig == SignificantDay(Hebrew(n), DayOfWeek(n), i)
<1> DEFINE later == SignificantDay(Hebrew(n + 1), DayOfWeek(n + 1), i)
<1> DEFINE h == Hebrew(n)
<1> DEFINE dow == DayOfWeek(n)
<1> DEFINE info == InfoOf(n)
<1>1. info = InfoBy(h, dow, sig, later)
  BY TablesAre DEF DateInfo, InfoOf
<1> HIDE DEF sig, later, h, dow, info
<1>2. /\ info.sig = sig /\ info.taanis = (sig \in Taanis) /\ info.omer = DayOfOmer(h)
  BY <1>1 DEF InfoBy
<1> QED
  BY <1>2 DEF sig, h, dow, info, i

LEMMA FestivalsOfDay ==
  ASSUME Today \in Span, Today + 1 \in Span, place.inIsrael \in BOOLEAN
  PROVE  FestivalsOf(InfoOf(Today), YearOf(Today), HebrewDay(YearOf(Today), 1, 15))
<1> DEFINE n == Today
<1> DEFINE y == YearOf(n)
<1> DEFINE info == InfoOf(n)
<1> DEFINE pesach == HebrewDay(y, 1, 15)
<1> DEFINE leap == IsLeap(y)
<1> DEFINE u == Kind(y)
<1> DEFINE PutOff(k) == IF DayOfWeek(k) = Shabbat THEN k + 1 ELSE k
<1> DEFINE fasts == {HebrewDay(y, 7, 10), HebrewDay(y, 10, 10),
                     PutOff(HebrewDay(y, 7, 3)), PutOff(HebrewDay(y, 4, 17)),
                     PutOff(HebrewDay(y, 5, 9)),
                     pesach - (IF DayOfWeek(pesach) = 3 THEN 33 ELSE 31)}
<1>1. KnownDay(n)
  BY SpanKnown
<1>2. PICK from \in Nat, to \in Nat :
        /\ from <= to
        /\ \A k \in Span : Covers(from, to, k) /\ Covers(from, to, k + 1)
  BY Covered
<1>3. Covers(from, to, n)
  BY <1>2
<1>4. /\ InTable(from, to, y)
      /\ \E m, d : /\ DayIn(leap, u, m, d)
                   /\ n = HebrewDay(y, m, d) /\ Hebrew(n) = HebrewDate(y, m, d)
  BY <1>1, <1>2, <1>3, HebrewIs
<1>5. PICK m, d : /\ DayIn(leap, u, m, d)
                  /\ n = HebrewDay(y, m, d) /\ Hebrew(n) = HebrewDate(y, m, d)
  BY <1>4
<1> DEFINE h == Hebrew(n)
<1> DEFINE dow == DayOfWeek(n)
<1> DEFINE sig == SignificantDay(h, dow, place.inIsrael)
<1>6. h.year = y /\ h.month = m /\ h.day = d
  BY <1>5 DEF HebrewDate
<1>7. AYear(leap, u) /\ leap \in BOOLEAN
  BY <1>4, YearIs DEF AYear
<1>8. AMonth(leap, m) /\ d \in Int
  BY <1>5 DEF DayIn
<1>9. m \in {1, 2, 3, 4, 5, 6, 7, 8, 9, 10, 11, 12, 13} /\ (m = 13 => leap)
  BY <1>7, <1>8, AMonthIs
<1>10. /\ info.sig = sig /\ info.taanis = (sig \in Taanis) /\ info.omer = DayOfOmer(h)
  BY InfoMore
<1>11. info.assur <=> IsHoly(n)
  BY InfoRules
<1> HIDE DEF h, dow, sig, info, leap, u, y
<1>12. /\ sig \in Taanis <=> FastDay(m, d, dow, leap)
       /\ sig = "purim" <=> m = Adar(leap) /\ d = 14
       /\ sig = "chanukah" <=> ChanukahDay(m, d, u)
  BY <1>6, <1>7, <1>8, <1>9, KeptIs DEF sig, leap, u
<1>13. InYear(from, to, y, m, d)
  BY <1>4, <1>5 DEF InYear, leap, u
<1>14. /\ InYear(from, to, y, 7, 3) /\ InYear(from, to, y, 7, 4) /\ InYear(from, to, y, 7, 10)
       /\ InYear(from, to, y, 10, 10)
       /\ InYear(from, to, y, 4, 17) /\ InYear(from, to, y, 4, 18)
       /\ InYear(from, to, y, 5, 9) /\ InYear(from, to, y, 5, 10)
       /\ InYear(from, to, y, 9, 25) /\ InYear(from, to, y, 1, 15)
  BY <1>4, <1>7, NamedDays DEF InYear, leap, u
<1>15. /\ n = HebrewDay(y, 7, 10) <=> m = 7 /\ d = 10
       /\ n = HebrewDay(y, 10, 10) <=> m = 10 /\ d = 10
  BY <1>5, <1>13, <1>14, BetweenDays
<1>16. n = PutOff(HebrewDay(y, 7, 3)) <=> FastKept(m, d, dow, 7, 3)
  <2>1. 3 + 1 = 4 /\ 3 \in Int
    OBVIOUS
  <2> QED
    BY <1>5, <1>13, <1>14, <2>1, PutOffIs DEF dow
<1>17. n = PutOff(HebrewDay(y, 4, 17)) <=> FastKept(m, d, dow, 4, 17)
  <2>1. 17 + 1 = 18 /\ 17 \in Int
    OBVIOUS
  <2> QED
    BY <1>5, <1>13, <1>14, <2>1, PutOffIs DEF dow
<1>18. n = PutOff(HebrewDay(y, 5, 9)) <=> FastKept(m, d, dow, 5, 9)
  <2>1. 9 + 1 = 10 /\ 9 \in Int
    OBVIOUS
  <2> QED
    BY <1>5, <1>13, <1>14, <2>1, PutOffIs DEF dow
<1>19. /\ n = pesach - (IF DayOfWeek(pesach) = 3 THEN 33 ELSE 31) <=> EstherKept(m, d, dow, leap)
       /\ n = pesach - 30 <=> m = Adar(leap) /\ d = 14
  BY <1>5, <1>13, EstherIs DEF dow, leap
<1>20. n \in fasts <=> FastDay(m, d, dow, leap)
  <2> HIDE DEF n, pesach, PutOff
  <2> QED
    BY <1>15, <1>16, <1>17, <1>18, <1>19 DEF FastDay
<1>21. sig = "chanukah" <=> n - HebrewDay(y, 9, 25) \in 0 .. 7
  <2>1. n - HebrewDay(y, 9, 25) = NumberOf(leap, u, m, d) - NumberOf(leap, u, 9, 25)
    BY <1>5, <1>13, <1>14, BetweenDays DEF leap, u
  <2>2. ChanukahDay(m, d, u) <=> NumberOf(leap, u, m, d) - NumberOf(leap, u, 9, 25) \in 0 .. 7
    BY <1>5, <1>7, ChanukahIs
  <2> QED
    BY <1>12, <2>1, <2>2
<1>22. DayOfOmer(h) = (IF n - pesach \in 1 .. 49 THEN n - pesach ELSE 0)
  <2>1. n - pesach = NumberOf(leap, u, m, d) - NumberOf(leap, u, 1, 15)
    BY <1>5, <1>13, <1>14, BetweenDays DEF leap, u
  <2> DEFINE j == NumberOf(leap, u, m, d) - NumberOf(leap, u, 1, 15)
  <2>2. DayOfOmer(h) = IF j \in 1 .. 49 THEN j ELSE 0
    BY <1>5, <1>6, <1>7, OmerIs
  <2> QED
    BY <2>1, <2>2
<1>23. FestivalsOf(info, y, pesach) <=>
         /\ info.taanis <=> n \in fasts
         /\ info.sig = "purim" <=> n = pesach - 30
         /\ info.sig = "chanukah" <=> n - HebrewDay(y, 9, 25) \in 0 .. 7
         /\ info.omer = (IF n - pesach \in 1 .. 49 THEN n - pesach ELSE 0)
         /\ info.assur <=> IsHoly(n)
  BY DEF FestivalsOf
<1>24. FestivalsOf(info, y, pesach)
  <2> HIDE DEF n, fasts, pesach
  <2> QED
    BY <1>10, <1>11, <1>12, <1>19, <1>20, <1>21, <1>22, <1>23
<1> QED
  BY <1>24 DEF info, y

(* The festivals and the fasts are where the property puts them, on every  *)
(* day of every stretch of days, at home and abroad.                       *)
THEOREM FestivalsAlways == Spec => []FestivalsKept
<1>1. PlannerInv => FestivalsKept
  <2> SUFFICES ASSUME PlannerInv
               PROVE  FestivalsKept
    OBVIOUS
  <2>1. Today \in Span /\ Today + 1 \in Span
    BY DaysAround DEF PlannerInv, Today
  <2>2. place.inIsrael \in BOOLEAN
    BY PlacesAssumption DEF PlannerInv
  <2>3. FestivalsOf(InfoOf(Today), YearOf(Today), HebrewDay(YearOf(Today), 1, 15))
    BY <2>1, <2>2, FestivalsOfDay
  <2> QED
    BY <2>3 DEF FestivalsKept
<1> QED
  BY <1>1, PlannerInductive, PTL
=============================================================================
