--------------------------- MODULE HebrewCalendar ---------------------------
(***************************************************************************)
(* The calendar of brain/zmanim: Gregorian and Hebrew dates as numbered    *)
(* days, the significant days of the Hebrew year, the weekly portion of    *)
(* the Torah and the daylight saving time of Israel.                       *)
(*                                                                         *)
(* A day is the number date.toordinal() gives it.                          *)
(***************************************************************************)
EXTENDS Integers, Sequences, SequencesExt, FiniteSetsExt

CONSTANT HebrewYears    \* the years the instance looks at, an interval

ASSUME YearsAssumption == HebrewYears \subseteq Nat

-----------------------------------------------------------------------------
(* Gregorian dates *)

IsGregorianLeap(y) == (y % 4 = 0 /\ y % 100 # 0) \/ y % 400 = 0

GregorianMonth(y, m) ==
  <<31, IF IsGregorianLeap(y) THEN 29 ELSE 28,
    31, 30, 31, 30, 31, 31, 30, 31, 30, 31>>[m]

DaysBeforeEarly(y, m) ==
  <<0, 31, 59, 90, 120, 151, 181, 212, 243, 273, 304, 334>>[m]
    + (IF m > 1 /\ IsGregorianLeap(y) THEN 1 ELSE 0)

DaysBefore(y, m) ==
  <<0, 31, 59, 90, 120, 151, 181, 212, 243, 273, 304, 334>>[m]
    + (IF m > 2 /\ IsGregorianLeap(y) THEN 1 ELSE 0)

IsGregorianDate(y, m, d) ==
  y \in Nat \ {0} /\ m \in 1 .. 12 /\ d \in 1 .. GregorianMonth(y, m)

GregorianDay(y, m, d) ==
  LET p == y - 1
  IN  p * 365 + p \div 4 - p \div 100 + p \div 400 + DaysBefore(y, m) + d

(* The source corrects its guess of the year in both directions; the years *)
(* looked at here are enough for a KnownDay, until the year 2699.          *)
KnownDay(n) == n \in Int /\ 1 <= n /\ n <= 985500

Gregorian(n) ==
  LET guess == (n - 1) \div 365 + 1
      y == Max({q \in (guess - 2) .. (guess + 1) : GregorianDay(q, 1, 1) <= n})
      doy == n - GregorianDay(y, 1, 1)
      m == Max({k \in 1 .. 12 : DaysBefore(y, k) <= doy})
  IN  <<y, m, doy - DaysBefore(y, m) + 1>>

\* 1 is Sunday, 7 is Shabbat.
DayOfWeek(n) == (n % 7) + 1
Shabbat == 7

-----------------------------------------------------------------------------
(* The Hebrew year *)

HebrewEpoch == -1373429
ChalakimPerDay == 25920

IsLeap(y) == (7 * y + 1) % 19 < 7

MonthsBefore(y) ==
  LET cycles == (y - 1) \div 19
      rest   == (y - 1) % 19
  IN  235 * cycles + 12 * rest + (7 * rest + 1) \div 19

(* The new moon of Tishrei as days and parts.  A month is 765433 parts, or *)
(* 29 days and 13753 parts: the two are added apart to stay within the     *)
(* integers of the model checker.                                          *)
Molad(y) ==
  LET parts == 31524 + 13753 * MonthsBefore(y)
  IN  [days      |-> 29 * MonthsBefore(y) + parts \div ChalakimPerDay,
       remainder |-> parts % ChalakimPerDay]

Postponed(y, molad) ==
  LET dow == (molad.days + 1) % 7
  IN  \/ molad.remainder >= 19440
      \/ dow = 3 /\ molad.remainder >= 9924 /\ ~IsLeap(y)
      \/ dow = 2 /\ molad.remainder >= 16789 /\ IsLeap(y - 1)

Dechiyos(y, molad) ==
  LET first == IF Postponed(y, molad) THEN 1 ELSE 0
      dow   == (molad.days + 1 + first) % 7
  IN  first + (IF dow \in {1, 4, 6} THEN 1 ELSE 0)

\* 1 Tishrei of each year; a table, as the caches of the code are.
NewYear ==
  [y \in HebrewYears |-> Molad(y).days + Dechiyos(y, Molad(y)) + HebrewEpoch + 1]

DaysInYear(y) == NewYear[y + 1] - NewYear[y]

DaysInMonth(m, y) ==
  IF \/ m \in {2, 4, 6, 10, 13}
     \/ m = 8 /\ DaysInYear(y) % 10 # 5
     \/ m = 9 /\ DaysInYear(y) % 10 = 3
     \/ m = 12 /\ ~IsLeap(y)
  THEN 29 ELSE 30

\* Tishrei is first, Elul last.
Months(y) == <<7, 8, 9, 10, 11, 12>> \o (IF IsLeap(y) THEN <<13>> ELSE <<>>)
                                     \o <<1, 2, 3, 4, 5, 6>>

NumberFromTishrei(y, m) ==
  IF IsLeap(y) THEN 1 + ((m + 6) % 13) ELSE 1 + ((m + 5) % 12)

\* The last year of the table only marks the end of the one before.
MonthStart ==
  [y \in Min(HebrewYears) .. (Max(HebrewYears) - 1) |->
     LET start[i \in 1 .. Len(Months(y))] ==
           IF i = 1 THEN NewYear[y]
           ELSE start[i - 1] + DaysInMonth(Months(y)[i - 1], y)
     IN  [m \in 1 .. Len(Months(y)) |-> start[NumberFromTishrei(y, m)]]]

HebrewDay(y, m, d) == MonthStart[y][m] + d - 1

\* Nineteen years have 6939.7 days.
YearOf(n) ==
  LET guess == ((n - HebrewEpoch) * 19) \div 6940
  IN  CHOOSE y \in guess .. (guess + 2) :
        y \in HebrewYears /\ NewYear[y] <= n /\ n < NewYear[y + 1]

HebrewIn(y, n) ==
  CHOOSE h \in {[year |-> y, month |-> m, day |-> n - MonthStart[y][m] + 1] :
                 m \in 1 .. Len(Months(y))} :
    h.day \in 1 .. DaysInMonth(h.month, y)

Hebrew(n) == HebrewIn(YearOf(n), n)

-----------------------------------------------------------------------------
(* Significant days, by month and day of the month *)

\* A fast that falls on Shabbat is put off to Sunday.
FastOnItsDay(h, dow, d) == h.day = d

Fast(h, dow, d) == \/ h.day = d /\ dow # Shabbat
                   \/ h.day = d + 1 /\ dow = 1

PurimDay(h, dow) ==
  CASE (h.day = 13 /\ dow # Shabbat) \/ (h.day = 11 /\ dow = 5) -> "taanis_esther"
    [] h.day = 14 -> "purim"
    [] h.day = 15 -> "shushan_purim"
    [] OTHER -> "none"

Tishrei(h, dow, inIsrael) ==
  CASE h.day \in {1, 2} -> "rosh_hashana"
    [] Fast(h, dow, 3) -> "tzom_gedalyah"
    [] h.day = 9 -> "erev_yom_kippur"
    [] h.day = 10 -> "yom_kippur"
    [] h.day = 14 -> "erev_succos"
    [] h.day = 15 \/ (h.day = 16 /\ ~inIsrael) -> "succos"
    [] h.day \in 17 .. 20 \/ (h.day = 16 /\ inIsrael) -> "chol_hamoed_succos"
    [] h.day = 21 -> "hoshana_rabbah"
    [] h.day = 22 -> "shemini_atzeres"
    [] h.day = 23 /\ ~inIsrael -> "simchas_torah"
    [] OTHER -> "none"

Nisan(h, inIsrael) ==
  CASE h.day = 14 -> "erev_pesach"
    [] h.day \in {15, 21} \/ (h.day \in {16, 22} /\ ~inIsrael) -> "pesach"
    [] h.day \in 17 .. 20 \/ (h.day = 16 /\ inIsrael) -> "chol_hamoed_pesach"
    [] OTHER -> "none"

SignificantDay(h, dow, inIsrael) ==
  LET leap == IsLeap(h.year)
      chanukah == IF DaysInYear(h.year) % 10 = 3 THEN {1, 2, 3} ELSE {1, 2}
  IN  CASE h.month = 7 -> Tishrei(h, dow, inIsrael)
        [] h.month = 6 /\ h.day = 29 -> "erev_rosh_hashana"
        [] h.month = 9 /\ h.day >= 25 -> "chanukah"
        [] h.month = 10 /\ h.day \in chanukah -> "chanukah"
        [] h.month = 10 /\ h.day = 10 -> "tenth_of_teves"
        [] h.month = 11 /\ h.day = 15 -> "tu_beshvat"
        [] h.month = 12 /\ leap /\ h.day = 14 -> "purim_katan"
        [] h.month = 12 /\ leap /\ h.day = 15 -> "shushan_purim_katan"
        [] (h.month = 12 /\ ~leap) \/ h.month = 13 -> PurimDay(h, dow)
        [] h.month = 1 -> Nisan(h, inIsrael)
        [] h.month = 2 /\ h.day = 14 -> "pesach_sheni"
        [] h.month = 2 /\ h.day = 18 -> "lag_baomer"
        [] h.month = 3 /\ h.day = 5 -> "erev_shavuos"
        [] h.month = 3 /\ (h.day = 6 \/ (h.day = 7 /\ ~inIsrael)) -> "shavuos"
        [] h.month = 4 /\ Fast(h, dow, 17) -> "seventeen_of_tammuz"
        [] h.month = 5 /\ Fast(h, dow, 9) -> "tisha_beav"
        [] h.month = 5 /\ h.day = 15 -> "tu_beav"
        [] OTHER -> "none"

YomTovAssur == {"pesach", "shavuos", "rosh_hashana", "yom_kippur", "succos",
                "shemini_atzeres", "simchas_torah"}
Taanis == {"seventeen_of_tammuz", "tisha_beav", "tzom_gedalyah", "yom_kippur",
           "tenth_of_teves", "taanis_esther"}
CholHamoed == {"chol_hamoed_succos", "chol_hamoed_pesach", "hoshana_rabbah"}

IsAssur(dow, sig) == dow = Shabbat \/ sig \in YomTovAssur

IsRoshChodesh(h) == h.day = 30 \/ (h.day = 1 /\ h.month # 7)

\* The day of the count from Pesach to Shavuos, or 0.
DayOfOmer(h) ==
  CASE h.month = 1 /\ h.day > 15 -> h.day - 15
    [] h.month = 2 -> h.day + 15
    [] h.month = 3 /\ h.day < 6 -> h.day + 44
    [] OTHER -> 0

\* date_info: what is known of a day by what is kept on it and on the next.
InfoBy(h, dow, sig, later) ==
  [hebrew |-> h, dow |-> dow, sig |-> sig,
   assur  |-> IsAssur(dow, sig),
   erev   |-> later \in YomTovAssur,
   motzei |-> IsAssur(dow, sig) /\ ~IsAssur((dow % 7) + 1, later),
   cholHamoed  |-> sig \in CholHamoed,
   taanis      |-> sig \in Taanis,
   roshChodesh |-> IsRoshChodesh(h),
   omer        |-> DayOfOmer(h)]

DateInfo(n, inIsrael) ==
  InfoBy(Hebrew(n), DayOfWeek(n),
         SignificantDay(Hebrew(n), DayOfWeek(n), inIsrael),
         SignificantDay(Hebrew(n + 1), DayOfWeek(n + 1), inIsrael))

-----------------------------------------------------------------------------
(* The weekly portion: the year is read from the day after Simchas Torah   *)
(* to the next, a unit a week, and weeks whose Shabbat has a reading of    *)
(* its own are joined to the next.                                         *)

Parshiyot ==
  <<"bereishis", "noach", "lech_lecha", "vayeira", "chayei_sarah", "toldos",
    "vayeitzei", "vayishlach", "vayeishev", "mikeitz", "vayigash", "vayechi",
    "shemos", "vaeirah", "bo", "beshalach", "yisro", "mishpatim", "terumah",
    "tetzaveh", "ki_sisa", "vayakheil", "pekudei", "vayikra", "tzav",
    "shemini", "tazria", "metzora", "acharei", "kedoshim", "emor", "behar",
    "bechukosai", "bamidbar", "naso", "behaalosecha", "shelach", "korach",
    "chukas", "balak", "pinchas", "matos", "masei", "devarim", "vaeschanan",
    "eikev", "reei", "shoftim", "ki_seitzei", "ki_savo", "nitzavim",
    "vayeilech", "haazinu", "vezos_haberacha">>

\* The Shabbatot of the festivals, by month and day.
IsSkipped(h, inIsrael) ==
  LET extra == IF inIsrael THEN 0 ELSE 1
  IN  CASE h.month = 1 -> h.day \in 15 .. (21 + extra)
        [] h.month = 3 -> h.day \in 6 .. (6 + extra)
        [] h.month = 7 -> h.day \in {1, 2, 10} \cup (15 .. (21 + extra))
        [] OTHER -> FALSE

\* The kind of a year: Rosh Hashana, length, Pesach.
Kviah(y) == <<DayOfWeek(NewYear[y]),
              DaysInYear(y) % 10,
              DayOfWeek(HebrewDay(y, 1, 1))>>

(* The portions that are read together, each named by its first, in Israel *)
(* and abroad; 3, 4 and 5 are short, regular and full years.               *)
Early == {"vayakheil", "tazria", "acharei"}
JoinedInIsrael(kviah) ==
  CASE kviah \in {<<2, 3, 5>>, <<7, 3, 3>>, <<7, 5, 5>>} -> {"matos", "nitzavim"}
    [] kviah \in {<<2, 5, 7>>, <<3, 4, 7>>, <<5, 3, 1>>} -> {}
    [] kviah = <<5, 5, 3>> -> {"nitzavim"}
    [] kviah \in {<<2, 3, 3>>, <<2, 5, 5>>, <<3, 4, 5>>} ->
         Early \cup {"behar", "matos", "nitzavim"}
    [] kviah = <<5, 4, 7>> -> Early \cup {"matos"}
    [] kviah = <<5, 5, 1>> -> {"tazria", "acharei", "behar", "matos"}
    [] kviah \in {<<7, 3, 1>>, <<7, 5, 3>>} -> Early \cup {"behar", "matos"}

JoinedAbroadAsInIsrael(kviah) == JoinedInIsrael(kviah)

JoinedAbroad(kviah) ==
  CASE kviah \in {<<2, 3, 5>>, <<7, 5, 5>>} -> {"chukas", "matos", "nitzavim"}
    [] kviah \in {<<2, 5, 7>>, <<3, 4, 7>>} -> {"matos"}
    [] kviah = <<5, 3, 1>> -> {}
    [] kviah = <<5, 5, 3>> -> {"nitzavim"}
    [] kviah = <<7, 3, 3>> -> {"matos", "nitzavim"}
    [] kviah \in {<<2, 3, 3>>, <<7, 5, 3>>} ->
         Early \cup {"behar", "matos", "nitzavim"}
    [] kviah \in {<<2, 5, 5>>, <<3, 4, 5>>} ->
         Early \cup {"behar", "chukas", "matos", "nitzavim"}
    [] kviah \in {<<5, 4, 7>>, <<7, 3, 1>>} -> Early \cup {"behar", "matos"}
    [] kviah = <<5, 5, 1>> -> {"tazria", "acharei", "behar", "matos"}

Joined(y, inIsrael) ==
  IF inIsrael THEN JoinedInIsrael(Kviah(y)) ELSE JoinedAbroad(Kviah(y))

\* The units of a cycle, each named by its first portion.
Units(y, inIsrael) ==
  LET joined == Joined(y, inIsrael)
      second == {i \in 2 .. Len(Parshiyot) : Parshiyot[i - 1] \in joined}
  IN  FoldLeft(LAMBDA u, i : IF i \in second THEN u ELSE Append(u, Parshiyot[i]),
               <<>>, [i \in 1 .. Len(Parshiyot) |-> i])

AnchorDay(inIsrael) == IF inIsrael THEN 23 ELSE 24
CycleStart(y, inIsrael) == HebrewDay(y, 7, AnchorDay(inIsrael))
CycleEnd(y, inIsrael) == CycleStart(y + 1, inIsrael) - 1

\* The first Shabbat from a day on that has no reading of its own.
NextIntervalEnd(start, end, inIsrael) ==
  LET shabbat == start + ((7 - DayOfWeek(start)) % 7)
      Read(k) == \/ shabbat + 7 * k >= end
                 \/ ~IsSkipped(Hebrew(shabbat + 7 * k), inIsrael)
      weeks == CHOOSE k \in 0 .. 4 : Read(k) /\ \A j \in 0 .. (k - 1) : ~Read(j)
  IN  Min({shabbat + 7 * weeks, end})

\* The last day of each unit of a cycle.
Intervals(y, inIsrael) ==
  LET end == CycleEnd(y, inIsrael)
  IN  FoldLeft(LAMBDA days, u : Append(days, NextIntervalEnd(Last(days) + 1, end, inIsrael)),
               <<CycleStart(y, inIsrael) - 1>>, Units(y, inIsrael))

(* parasha: the unit of a day, named by its first portion; none when the   *)
(* units do not last until the day.                                        *)
PortionIn(units, days, n) ==
  LET read == {i \in 1 .. Len(units) : days[i] < n /\ n <= days[i + 1]}
  IN  IF read = {} THEN "none" ELSE units[Min(read)]

CycleOf(n, inIsrael) ==
  IF CycleStart(YearOf(n), inIsrael) > n THEN YearOf(n) - 1 ELSE YearOf(n)

Parasha(n, inIsrael) ==
  PortionIn(Units(CycleOf(n, inIsrael), inIsrael),
            Intervals(CycleOf(n, inIsrael), inIsrael), n)

-----------------------------------------------------------------------------
(* The civil time of Israel *)

LastSunday(y, m) == LET last == GregorianDay(y, m, 31)
                    IN  last - (DayOfWeek(last) - 1)

DstStart(y) == LastSunday(y, 3) - 2
DstEnd(y) == LastSunday(y, 10)

\* Local times that the clock skips when daylight saving starts.
NoSuchTime(n, minute) ==
  n = DstStart(Gregorian(n)[1]) /\ minute \in 120 .. 179

(* The offset of a local time, in minutes.  When the clock is put back, the *)
(* hour that comes twice is taken as the first.                             *)
IsraelOffset(n, minute) ==
  LET start == DstStart(Gregorian(n)[1])
      end   == DstEnd(Gregorian(n)[1])
  IN  IF \/ start < n /\ n < end
         \/ n = start /\ minute >= 180
         \/ n = end /\ minute < 120
      THEN 180 ELSE 120
=============================================================================
