----------------------------- MODULE MCPlanner ------------------------------
(* Twenty years in which every kind of Hebrew year occurs, walked day by    *)
(* day; around a Pesach at which the clock is put forward and in an October *)
(* in which it is put back the planner is looked at closely.                *)
EXTENDS Planner, TLC

MCYears == 5797 .. 5820

Jerusalem == [name |-> "jerusalem", inIsrael |-> TRUE, offset |-> 120]
Abroad    == [name |-> "abroad", inIsrael |-> FALSE, offset |-> -300]
North     == [name |-> "north", inIsrael |-> FALSE, offset |-> 60]
MCPlaces == {Jerusalem, Abroad, North}
MCFirstPlaces == {Jerusalem, Abroad}

(* A sun that keeps rough seasons; in the north it does not set for half a  *)
(* year.                                                                    *)
MCSun(where, n) ==
  LET season == (n + 10) % 365
      depth == IF season < 183 THEN season ELSE 365 - season    \* 0 in December
      noon == 580 - (IF where.name = "abroad" THEN -440 ELSE 0)
      half == IF where.name = "north" THEN 5 * depth ELSE 300 + depth \div 2
      Exact(t) == t * Minute + ((7 * n) % Minute)
      always == [chatzos |-> Exact(noon), chatzos_next |-> Exact(noon + Day)]
  IN  IF where.name = "north" /\ half > 400 THEN always
      ELSE [sr_sea |-> Exact(noon - half), ss_sea |-> Exact(noon + half),
            sr_elev |-> Exact(noon - half - 4), ss_elev |-> Exact(noon + half + 4),
            alot |-> Exact(noon - half - 75), talit |-> Exact(noon - half - 50),
            tzais85 |-> Exact(noon + half + 36)] @@ always

S(id, trigger, recurrence) ==
  [id |-> id, enabled |-> TRUE, trigger |-> trigger, recurrence |-> recurrence]
At(h, m) == [type |-> "fixed_time", h |-> h, m |-> m]
Zman(k) == [type |-> "zman", zman |-> k]
ZmanPlus(k, d) == [type |-> "zman_offset", zman |-> k, offset |-> d]
On(type) == [type |-> type]

MCBook ==
  <<S("boiler", At(2, 30), On("daily")),
    S("candles", Zman("candle_lighting"), On("erev_assur_bemelacha")),
    S("hall", ZmanPlus("sof_zman_shema_gra", -2880), On("assur_bemelacha")),
    S("havdala", Zman("tset_hakohavim_shabbat"), On("motzei_assur_bemelacha")),
    S("old", Zman("tset_hakohavim_tsom"), On("daily")),
    S("week", At(1, 0), [type |-> "days_of_week", days |-> {4, 6}]),
    S("sukka", At(18, 45), On("chol_hamoed")),
    S("moon", ZmanPlus("chatzot_halayla", 2880), On("rosh_chodesh")),
    S("fifteenth", Zman("plag_hamincha"), [type |-> "hebrew_day_of_month", day |-> 15]),
    S("adar", Zman("netz_hachama"), [type |-> "hebrew_date", month |-> 13, day |-> 14]),
    S("leap", At(19, 30), [type |-> "gregorian_date", month |-> 2, day |-> 29]),
    S("once", At(9, 0), [type |-> "one_time", y |-> 2038, m |-> 3, d |-> 26])>>

MCBooks == {MCBook,
            [MCBook EXCEPT ![1].trigger = At(6, 30), ![2].enabled = FALSE]}

\* Late in the afternoon of 8 September 2037, two days before 1 Tishrei 5798.
MCStart == GregorianDay(2037, 9, 8) * Day + 18 * 60

MCEndDay == GregorianDay(2057, 10, 20)

MCEnteredMinutes == {30, 12 * 60, 23 * 60 + 30}

\* The clock is put back on 25 October 2037 and forward on 26 March 2038.
MCBusyDays == {GregorianDay(2037, 10, 24), GregorianDay(2038, 3, 25), GregorianDay(2038, 3, 26)}
=============================================================================
