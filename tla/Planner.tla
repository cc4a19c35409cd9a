------------------------------ MODULE Planner -------------------------------
(***************************************************************************)
(* What is due when: the planner (brain/application/planner.py) as the     *)
(* scheduler and the views use it, each with a planner of its own that     *)
(* remembers days and schedules, under changes of the settings, of the     *)
(* schedules and of the clock.                                             *)
(*                                                                         *)
(* Minutes are UTC minutes since day 0; an event is the schedule, its      *)
(* source day and its minute, as in the event id of the code.  Every tick  *)
(* delivers here: retries are the subject of Automation.                   *)
(***************************************************************************)
EXTENDS DeviceClock, Zmanim

CONSTANTS
  Places,          \* settings: [name, inIsrael, offset]
  FirstPlaces,     \* what they are at first
  Books,           \* what the schedules may be: sequences of them
  FirstBook,       \* what they are at first
  Sun(_, _),       \* what the sun does in a place on a day
  Start,           \* the first minute
  EndDay,          \* the walk through the calendar stops here
  EnteredMinutes,  \* times of day that are entered when the clock is set
  BusyDays,        \* days on which the planner is looked at closely
  MaxChanges,      \* bound on the irregular things that happen
  MaxTicks         \* bound on the ticks after the first of them

VARIABLES
  now, last,       \* the clock; the marker of the scheduler, or 0
  entered,         \* the local time that was just entered, or 0
  place,           \* the settings
  book, revision,  \* the stored schedules
  memory,          \* what each planner remembers
  plan,            \* the last window: its bounds, its events and errors
  shown,           \* the last preview
  changes, ticks   \* bounds

vars == <<now, last, entered, place, book, revision, memory, plan, shown, changes, ticks>>

Day == 1440
CatchUp == 120
MaxPreviewDays == 7
CacheLimit == 9

DayOf(minute) == minute \div Day

(* The days of the instance.  The clock of a device knows no earlier year  *)
(* than 2013; while it stays InTables, all that is looked at is in Span.   *)
Span == (DayOf(Start) - 12) .. (EndDay + 12)
InTables(t) == DayOf(t) \in (DayOf(Start) - 7) .. (EndDay + 2)

ASSUME ClockAssumption ==
  /\ Start \in Int /\ EndDay \in Int /\ DayOf(Start) <= EndDay
  /\ GregorianDay(MinYear, 1, 1) <= DayOf(Start) - 12 /\ KnownDay(EndDay + 12)

(* The tables of the Hebrew years have every day that is looked at; the    *)
(* last of the years only marks the end of the one before.                 *)
ASSUME TablesAssumption ==
  \E from, to \in HebrewYears :
    /\ HebrewYears = from .. to
    /\ NewYear[from] <= DayOf(Start) - 12 /\ EndDay + 13 < NewYear[to]

(* What the settings accept as an offset; what no sun exceeds: a zman is at *)
(* most a day before or after its date, and in Israel it is after midnight *)
(* UTC, two or three in the morning, and before eleven in the evening.     *)
UtcOffsets == -840 .. 840
SettingsNear(where) == where.offset \in UtcOffsets

SunNear(where, n) ==
  \A k \in ZmanKeys :
    Needs(k) \subseteq DOMAIN Sun(where, n) =>
      ZmanOf(k, Sun(where, n)) \div Minute
        \in IF where.inIsrael THEN 0 .. 1379 ELSE -1440 .. 2879

ASSUME PlacesAssumption ==
  /\ FirstPlaces \subseteq Places
  /\ \A where \in Places :
       /\ where.inIsrael \in BOOLEAN /\ SettingsNear(where)
       /\ \A n \in Span : SunNear(where, n)

\* A file with two entities of one id is refused.
ASSUME BooksAssumption ==
  \A b \in Books \cup {FirstBook} : \A i, j \in DOMAIN b : b[i].id = b[j].id => i = j

-----------------------------------------------------------------------------
(* Schedules *)

ZmanOffsets == -2880 .. 2880

ValidTrigger(g) ==
  \/ g.type = "fixed_time" /\ g.h \in 0 .. 23 /\ g.m \in 0 .. 59
  \/ g.type = "zman" /\ g.zman \in ZmanKeys
  \/ g.type = "zman_offset" /\ g.zman \in ZmanKeys /\ g.offset \in ZmanOffsets

Plain == {"daily", "assur_bemelacha", "erev_assur_bemelacha",
          "motzei_assur_bemelacha", "chol_hamoed", "rosh_chodesh"}

ValidRecurrence(r) ==
  \/ r.type \in Plain
  \/ r.type = "days_of_week" /\ r.days # {} /\ r.days \subseteq 0 .. 6
  \/ r.type = "hebrew_day_of_month" /\ r.day \in 1 .. 30
  \/ r.type = "hebrew_date" /\ r.month \in 1 .. 13 /\ r.day \in 1 .. 30
  \* 29 February is a date, which most years do not have.
  \/ r.type = "gregorian_date" /\ IsGregorianDate(2000, r.month, r.day)
  \/ r.type = "one_time" /\ IsGregorianDate(r.y, r.m, r.d)

Valid(s) == ValidTrigger(s.trigger) /\ ValidRecurrence(s.recurrence)

\* The days of the instance, their dates and what date_info says of them: tables.
Date == [n \in Span |-> Gregorian(n)]
Info == [inIsrael \in BOOLEAN |-> [n \in Span |-> DateInfo(n, inIsrael)]]

MatchesRecurrence(s, n, info) ==
  LET r == s.recurrence
      date == Date[n]
  IN  CASE r.type = "daily" -> TRUE
        [] r.type = "days_of_week" -> (info.dow - 2) % 7 \in r.days
        [] r.type = "assur_bemelacha" -> info.assur
        [] r.type = "erev_assur_bemelacha" -> info.dow = 6 \/ info.erev
        [] r.type = "motzei_assur_bemelacha" -> info.motzei
        [] r.type = "chol_hamoed" -> info.cholHamoed
        [] r.type = "rosh_chodesh" -> info.roshChodesh
        [] r.type = "hebrew_day_of_month" -> info.hebrew.day = r.day
        [] r.type = "hebrew_date" ->
             info.hebrew.month = r.month /\ info.hebrew.day = r.day
        [] r.type = "gregorian_date" -> date[2] = r.month /\ date[3] = r.day
        [] r.type = "one_time" -> date = <<r.y, r.m, r.d>>

\* offset_resolver: the rules of Israel are known from 2013 on.
HasDst(where, n) == where.inIsrael /\ Date[n][1] >= 2013
OffsetForLocal(where, n, minute) ==
  IF HasDst(where, n) THEN IsraelOffset(n, minute) ELSE where.offset
OffsetForDateAtMidnight(where, n) == OffsetForLocal(where, n, 0)

OffsetForDate(where, n) == OffsetForLocal(where, n, 12 * 60)

LocalMinute(s) == s.trigger.h * 60 + s.trigger.m

\* A fixed time that the clock skips that day is an error.
Raises(s, n, where) ==
  s.trigger.type = "fixed_time" /\ HasDst(where, n) /\ NoSuchTime(n, LocalMinute(s))

\* The minutes, one or none, at which a schedule that matches a day is due.
ZmanMinute(key, offset, sun, n) ==
  {n * Day + ZmanOf(k, sun) \div Minute + offset :
     k \in {k \in {key} : Needs(k) \subseteq DOMAIN sun}}

DueMinute(s, n, where) ==
  IF s.trigger.type = "fixed_time"
  THEN {n * Day + LocalMinute(s) - OffsetForLocal(where, n, LocalMinute(s))}
  ELSE ZmanMinute(s.trigger.zman,
                  IF s.trigger.type = "zman_offset" THEN s.trigger.offset ELSE 0,
                  Sun(where, n), n)

-----------------------------------------------------------------------------
(* A planner *)

NoPlanner == [key |-> "none", days |-> {}, book |-> <<>>, revision |-> -1]

\* The scheduler and the views rebuild their planner when the settings moved.
PlannerFor(m, where) ==
  IF m.key = where.name THEN m ELSE [NoPlanner EXCEPT !.key = where.name]

GetSchedulesOnce(m, stored, current) ==
  IF m.revision >= 0 THEN m ELSE [m EXCEPT !.book = stored, !.revision = current]

GetSchedules(m, stored, current) ==
  IF m.revision = current THEN m ELSE [m EXCEPT !.book = stored, !.revision = current]

(* _day_data: a new day is entered and, when there are too many, the oldest *)
(* is deleted and then the new one looked up.  For the days of a scan, which *)
(* are looked up in their order, the latest of all remain, and the lookup of *)
(* a new day raises KeyError when all the others are later.                  *)
Kept(days) == {n \in days : Cardinality({d \in days : d > n}) < CacheLimit}
Missed(days, scan) ==
  {n \in scan \ days : Cardinality({d \in days : d > n}) >= CacheLimit}

FirstDay(lo) == Max({1, DayOf(lo) - 3})
LastDay(hi) == DayOf(hi) + 3
InWindow(t, lo, hi) == lo < t /\ t <= hi

\* _build_event for each matching day of a scan: its events in the window,
\* or <<s.id, n>> for an error.
EventsOn(s, n, lo, hi, where) ==
  IF Raises(s, n, where) THEN {<<s.id, n>>}
  ELSE {<<s.id, n, t>> : t \in {t \in DueMinute(s, n, where) : InWindow(t, lo, hi)}}

ResultOf(s, days, missed, lo, hi, where) ==
  {<<s.id, n>> : n \in missed} \cup
    UNION {EventsOn(s, n, lo, hi, where) :
             n \in {n \in days \ missed : MatchesRecurrence(s, n, Info[where.inIsrael][n])}}

(* events_between: the events of (lo, hi], the errors, and what is         *)
(* remembered in the end.  The first schedule that is planned finds the    *)
(* days of before, each of the others what the first has left.             *)
Results(bookOf, invalid, planned, days, left, scan, lo, hi, where) ==
  {<<bookOf[i].id>> : i \in invalid} \cup
    UNION {ResultOf(bookOf[i], scan,
                    Missed(IF i = Min(planned) THEN days ELSE left, scan),
                    lo, hi, where) : i \in planned}

EventsBetween(m, lo, hi, where) ==
  LET scan == FirstDay(lo) .. LastDay(hi)
      valid == {i \in DOMAIN m.book : Valid(m.book[i])}
      planned == {i \in valid : m.book[i].enabled}
      left == IF planned = {} THEN m.days ELSE Kept(m.days \cup scan)
      results == Results(m.book, DOMAIN m.book \ valid, planned, m.days, left,
                         scan, lo, hi, where)
  IN  [days |-> left, results |-> results]

Events(results) == {e \in results : Len(e) = 3}
Errors(results) == {e \in results : Len(e) < 3}

PlanWindow(since, t) ==
  CASE since = 0 -> <<t - CatchUp, t>>
    [] since >= t -> <<>>
    [] OTHER -> <<Max({since, t - CatchUp}), t>>

-----------------------------------------------------------------------------
(* What the views show *)

LocalToday(where, t) == DayOf(t + OffsetForDate(where, DayOf(t)))

\* The clock on the home screen of the panel.
HomeClock(where, t) == (t + OffsetForDate(where, LocalToday(where, t))) % Day

\* An event with the local day and minute of the preview.
Shown(e, where) ==
  LET local == e[3] + OffsetForDate(where, e[2])
  IN  [event |-> e, day |-> DayOf(local), minute |-> local % Day]

\* What is shown of a day; only some of it is asked for here.
TodayView(where, n) ==
  [parasha |-> Parasha(n, where.inIsrael),
   zmanim  |-> [k \in ZmanKeys |->
                  {(t + OffsetForDate(where, n)) % Day :
                     t \in ZmanMinute(k, 0, Sun(where, n), n)}]]

-----------------------------------------------------------------------------
NoPlan == [window |-> <<>>, results |-> {}]

Init ==
  /\ now = Start /\ last = 0 /\ entered = 0
  /\ place \in FirstPlaces
  /\ book = FirstBook /\ revision = 0
  /\ memory = [who \in {"scheduler", "views"} |-> NoPlanner]
  /\ plan = NoPlan /\ shown = {}
  /\ changes = 0 /\ ticks = 0

Busy == DayOf(now) \in BusyDays
Change == Busy /\ changes < MaxChanges /\ changes' = changes + 1

(* Time passes and the scheduler ticks: at once, late, or after the device *)
(* was off for most of the day.                                            *)
PlanTick(m, window) ==
  IF window = <<>>
  THEN plan' = NoPlan /\ UNCHANGED memory
  ELSE \E r \in {EventsBetween(m, window[1], window[2], place)} :
         /\ plan' = [window |-> window, results |-> r.results]
         /\ memory' = [memory EXCEPT !["scheduler"] = [m EXCEPT !.days = r.days]]

Tick(w) ==
  /\ InTables(now + w)
  /\ now' = now + w /\ last' = now + w
  /\ PlanTick(GetSchedules(PlannerFor(memory["scheduler"], place), book, revision),
              PlanWindow(last, now + w))
  /\ shown' = {} /\ entered' = 0
  /\ UNCHANGED <<place, book, revision>>

QuietDay == /\ ~Busy /\ changes = 0 /\ DayOf(now) < EndDay
            /\ Tick(Day)
            /\ UNCHANGED <<changes, ticks>>

Regular == /\ Busy \/ changes > 0
           /\ ticks < MaxTicks
           /\ Tick(CatchUp)
           /\ ticks' = IF changes > 0 THEN ticks + 1 ELSE 0
           /\ UNCHANGED changes

Irregular == \E w \in {0, 1, CatchUp + 7} : Change /\ Tick(w) /\ UNCHANGED ticks

PreviewBy(m, days) ==
  \E r \in {EventsBetween(m, now, now + days * Day, place)} :
    /\ memory' = [memory EXCEPT !["views"] = [m EXCEPT !.days = r.days]]
    /\ shown' = {Shown(e, place) : e \in Events(r.results)}

Preview(days) ==
  /\ Change
  /\ PreviewBy(GetSchedules(PlannerFor(memory["views"], place), book, revision), days)
  /\ UNCHANGED <<now, last, entered, place, book, revision, plan, ticks>>

ChangeSettings(where) ==
  /\ Change /\ where # place
  /\ place' = where
  /\ entered' = 0 /\ plan' = NoPlan /\ shown' = {}
  /\ UNCHANGED <<now, last, book, revision, memory, ticks>>

EditSchedules(stored) ==
  /\ Change /\ stored # book
  /\ book' = stored /\ revision' = revision + 1
  /\ plan' = NoPlan /\ shown' = {}
  /\ UNCHANGED <<now, last, entered, place, memory, ticks>>

MinuteOf(t) == GregorianDay(t.date[1], t.date[2], t.date[3]) * Day + t.minute

(* A local time is entered; it is taken by the offset of its date.         *)
SetClock(n, minute) ==
  /\ Change /\ n \in Span
  /\ Confirms(Date[n], minute)
  /\ \E t \in {LocalToUtc(Date[n], minute, OffsetForDate(place, n))} :
       Accepts(t) /\ InTables(MinuteOf(t)) /\ now' = MinuteOf(t)
  /\ entered' = n * Day + minute
  /\ plan' = NoPlan /\ shown' = {}
  /\ UNCHANGED <<last, place, book, revision, memory, ticks>>

(* The time is the chip's, which went on.                                  *)
Restart ==
  /\ Change
  /\ \E t \in SyncToSystem(Registers([date |-> Date[DayOf(now)], minute |-> now % Day])) :
       InTables(MinuteOf(t)) /\ now' = MinuteOf(t)
  /\ last' = 0 /\ entered' = 0
  /\ memory' = [who \in DOMAIN memory |-> NoPlanner]
  /\ plan' = NoPlan /\ shown' = {}
  /\ UNCHANGED <<place, book, revision, ticks>>

Next ==
  \/ QuietDay
  \/ Regular
  \/ Irregular
  \/ \E days \in 1 .. MaxPreviewDays : Preview(days)
  \/ \E where \in Places : ChangeSettings(where)
  \/ \E stored \in Books : EditSchedules(stored)
  \/ \E k \in {-10, -1, 1}, minute \in EnteredMinutes : SetClock(DayOf(now) + k, minute)
  \/ Restart

Spec == Init /\ [][Next]_vars

-----------------------------------------------------------------------------
(* What is true of the calendar, told without the code's case analysis     *)

Today == DayOf(now)
InfoOf(n) == Info[place.inIsrael][n]

\* The festivals on which work is forbidden, by month and day.
Feasts == {<<7, 1>>, <<7, 2>>, <<7, 10>>, <<7, 15>>, <<7, 22>>,
           <<1, 15>>, <<1, 21>>, <<3, 6>>}
            \cup (IF place.inIsrael THEN {}
                  ELSE {<<7, 16>>, <<7, 23>>, <<1, 16>>, <<1, 22>>, <<3, 7>>})

IsFeast(n) == \E h \in {InfoOf(n).hebrew} : <<h.month, h.day>> \in Feasts
IsHoly(n) == DayOfWeek(n) = Shabbat \/ IsFeast(n)

\* Between two feasts of the same month.
IsBetween(n) ==
  ~IsFeast(n) /\ \E h \in {InfoOf(n).hebrew} : h.month \in {1, 7} /\ h.day \in 15 .. 21

\* The days on which a schedule is to be carried out.
ObservedBy(r, h, n) ==
  CASE r.type = "daily" -> TRUE
    [] r.type = "days_of_week" -> \E d \in r.days : DayOfWeek(n) % 7 = (d + 2) % 7
    [] r.type = "assur_bemelacha" -> IsHoly(n)
    [] r.type = "erev_assur_bemelacha" -> DayOfWeek(n + 1) = Shabbat \/ IsFeast(n + 1)
    [] r.type = "motzei_assur_bemelacha" -> IsHoly(n) /\ ~IsHoly(n + 1)
    [] r.type = "chol_hamoed" -> IsBetween(n)
    [] r.type = "rosh_chodesh" -> h.day = 30 \/ (h.day = 1 /\ h.month # 7)
    [] r.type = "hebrew_day_of_month" -> h.day = r.day
    [] r.type = "hebrew_date" -> h.month = r.month /\ h.day = r.day
    [] r.type = "gregorian_date" ->
         \E y \in {Date[n][1]} : /\ IsGregorianDate(y, r.month, r.day)
                                 /\ GregorianDay(y, r.month, r.day) = n
    [] r.type = "one_time" -> GregorianDay(r.y, r.m, r.d) = n

\* The events of a window, from any source day whatever.
OccurrencesOn(s, n, lo, hi) ==
  IF ObservedBy(s.recurrence, InfoOf(n).hebrew, n)
  THEN {<<s.id, n, t>> : t \in {t \in DueMinute(s, n, place) : lo < t /\ t <= hi}}
  ELSE {}

Occurrences(lo, hi) ==
  UNION {OccurrencesOn(s, n, lo, hi) :
           s \in {book[i] : i \in {i \in DOMAIN book : Valid(book[i]) /\ book[i].enabled}},
           n \in (DayOf(lo) - 4) .. (DayOf(hi) + 4)}

ById(id) == CHOOSE s \in {book[i] : i \in DOMAIN book} : s.id = id
SkippedHour(e) == Raises(ById(e[1]), e[2], place)

-----------------------------------------------------------------------------
(* Properties *)

NextDate(f, g) ==
  /\ IsGregorianDate(f[1], f[2], f[3])
  /\ \/ f = <<g[1], g[2], g[3] + 1>>
     \/ f = <<g[1], g[2] + 1, 1>> /\ g[3] = GregorianMonth(g[1], g[2])
     \/ f = <<g[1] + 1, 1, 1>> /\ g[2] = 12 /\ g[3] = 31

NextHebrew(i, h) ==
  \/ i = [h EXCEPT !.day = @ + 1]
  \/ /\ h.day \in {29, 30} /\ i.day = 1
     /\ \/ i.year = h.year /\ i.month = h.month + 1 /\ h.month # 6
        \/ i.year = h.year /\ i.month = 1 /\ h.month = Len(Months(h.year))
        \/ i.year = h.year + 1 /\ h.month = 6 /\ i.month = 7

(* From a day to the next both calendars move to the next date, the Hebrew *)
(* year has one of its six lengths and begins on one of its four days:     *)
(* dates are converted by a formula, never counted.                        *)
CalendarIsSound == [][
  Today' = Today + 1 =>
    /\ NextDate(Gregorian(Today'), Gregorian(Today))
    /\ NextHebrew(Hebrew(Today'), Hebrew(Today))
    /\ DaysInYear(YearOf(Today)) \in {353, 354, 355, 383, 384, 385}
    /\ DayOfWeek(NewYear[YearOf(Today)]) \in {2, 3, 5, 7}
    /\ \E g \in {Gregorian(Today)} : GregorianDay(g[1], g[2], g[3]) = Today ]_vars

FestivalsOf(info, y, pesach) ==
  LET PutOff(n) == IF DayOfWeek(n) = Shabbat THEN n + 1 ELSE n
      fasts == {HebrewDay(y, 7, 10), HebrewDay(y, 10, 10),
                PutOff(HebrewDay(y, 7, 3)), PutOff(HebrewDay(y, 4, 17)),
                PutOff(HebrewDay(y, 5, 9)),
                pesach - (IF DayOfWeek(pesach) = 3 THEN 33 ELSE 31)}
  IN  /\ info.taanis <=> Today \in fasts
      /\ info.sig = "purim" <=> Today = pesach - 30
      /\ info.sig = "chanukah" <=> Today - HebrewDay(y, 9, 25) \in 0 .. 7
      /\ info.omer = (IF Today - pesach \in 1 .. 49 THEN Today - pesach ELSE 0)
      /\ info.assur <=> IsHoly(Today)

(* No fast but Yom Kippur is kept on Shabbat and each is kept, Chanukah    *)
(* lasts eight days, the omer counts the days from Pesach to Shavuos, and  *)
(* the feasts fall where Pesach puts them: month lengths, leap years and   *)
(* postponed fasts interact in significant_day and day_of_omer.            *)
FestivalsKept ==
  \E y \in {YearOf(Today)} : FestivalsOf(InfoOf(Today), y, HebrewDay(y, 1, 15))

\* One unit is read after the other, all of them, until Simchas Torah.
ReadThrough(y, inIsrael) ==
  LET days == Intervals(y, inIsrael)
  IN  /\ \A i \in 2 .. Len(days) : days[i - 1] < days[i]
      /\ Last(days) = CycleEnd(y, inIsrael)

\* On the Shabbat before Shavuos, after Tisha B'Av and before Rosh Hashana.
InSeason(y, n) ==
  LET read == TodayView(place, n).parasha
  IN  /\ HebrewDay(y, 3, 6) - n \in 1 .. 7 => read \in {"bamidbar", "naso"}
      /\ n - HebrewDay(y, 5, 9) \in 1 .. 7 => read = "vaeschanan"
      /\ HebrewDay(y + 1, 7, 1) - n \in 1 .. 7 => read = "nitzavim"

(* The portions of a year: outside Israel, and in Israel in every kind of  *)
(* year but the one whose portions parasha.py does not join.               *)
TorahRead ==
  \E y \in {InfoOf(Today).hebrew.year} :
    (place.inIsrael => Kviah(y) # <<7, 5, 3>>) =>
      /\ Today = HebrewDay(y, 7, 1) => ReadThrough(y, place.inIsrael)
      /\ DayOfWeek(Today) = Shabbat => InSeason(y, Today)

WindowPlanned(due, p, days) ==
  LET Reported(e) == <<e[1], e[2]>> \in Errors(p.results)
  IN  /\ Events(p.results) = {e \in due : ~Reported(e)}
      /\ (\A n \in days : n <= DayOf(p.window[2]) + 3) =>
           \A e \in due : Reported(e) => SkippedHour(e)

(* A tick plans what is due in its window and nothing else, by the         *)
(* settings and the schedules of that moment, and what it leaves out it    *)
(* reports; while the planner remembers no day after those it looks at,    *)
(* it leaves out nothing but times that the clock skips.                   *)
PlansWindow == [][
  plan' # plan /\ plan'.window # <<>> =>
    WindowPlanned(Occurrences(plan'.window[1], plan'.window[2]), plan',
                  memory["scheduler"].days) ]_vars

(* What the planner says of itself: it returns the events of the window.   *)
PlansWholeWindow == [][
  plan' # plan /\ plan'.window # <<>> =>
    \A e \in Occurrences(plan'.window[1], plan'.window[2]) :
      e \in plan'.results \/ SkippedHour(e) ]_vars

(* The clock of Israel, by the two instants at which it is moved.          *)
IsDst(t) ==
  LET y == Date[DayOf(t)][1]
  IN  DstStart(y) * Day <= t /\ t < DstEnd(y) * Day - 60
LocalTime(t) ==
  t + (IF place.inIsrael THEN (IF IsDst(t) THEN 180 ELSE 120) ELSE place.offset)

\* The first hours of the two days on which the clock of Israel is moved.
ClockMoves(n, minute) ==
  place.inIsrael /\ n \in {DstStart(Date[n][1]), DstEnd(Date[n][1])} /\ minute < 180

(* What is set is what is shown: it is the local time that was entered,    *)
(* the home screen shows the local time and date, the preview a fixed time *)
(* as its schedule has it, today its zmanim at the local time at which     *)
(* they happen, although all of them convert by one offset for the whole   *)
(* date; the days on which the clock is moved begin with hours that this   *)
(* gets wrong.                                                             *)
ShownAsSet ==
  /\ LocalToday(place, now) = DayOf(LocalTime(now))
  /\ \/ HomeClock(place, now) = LocalTime(now) % Day
     \/ ClockMoves(LocalToday(place, now), LocalTime(now) % Day)
  /\ entered # 0 => LocalTime(now) = entered \/ ClockMoves(DayOf(entered), entered % Day)
  /\ Busy /\ changes = 0 => \E view \in {TodayView(place, Today)} :
       \A k \in ZmanKeys :
         view.zmanim[k] = {LocalTime(t) % Day :
                            t \in ZmanMinute(k, 0, Sun(place, Today), Today)}
  /\ \A x \in shown :
       LET s == ById(x.event[1])
       IN  s.trigger.type = "fixed_time" =>
             \/ x.day = x.event[2] /\ x.minute = LocalMinute(s)
             \/ ClockMoves(x.event[2], LocalMinute(s))
=============================================================================
