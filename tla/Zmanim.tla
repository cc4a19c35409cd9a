------------------------------- MODULE Zmanim -------------------------------
(***************************************************************************)
(* The halachic times of a day (brain/zmanim/zmanim.py) as functions of    *)
(* what the sun does on it.  Where the sun stands is the astronomy of      *)
(* astronomy.py, in floating point: here it is a function `sun' from the   *)
(* events of the day that happen at all to their time, in 48ths of a       *)
(* minute from midnight UTC, in which every twelfth of a day has a whole   *)
(* number of parts.                                                        *)
(***************************************************************************)
EXTENDS Integers

Minute == 48
CandleOffset == 18

SunEvents == {"sr_sea", "ss_sea", "sr_elev", "ss_elev", "alot", "talit",
              "tzais85", "chatzos", "chatzos_next"}

ZmanKeys == {"alot_hashachar", "talit_and_tefillin", "netz_hachama",
             "sof_zman_shema_gra", "sof_zman_shema_mga",
             "sof_zman_tfilla_gra", "sof_zman_tfilla_mga", "chatzot_hayom",
             "mincha_gedola", "mincha_gedola_30min", "mincha_ketana",
             "plag_hamincha", "shkia", "tset_hakohavim",
             "tset_hakohavim_shabbat", "tset_hakohavim_rabeinu_tam",
             "chatzot_halayla", "candle_lighting"}

\* What a zman is computed from; without it there is no such zman that day.
Needs(key) ==
  CASE key = "alot_hashachar" -> {"alot"}
    [] key = "talit_and_tefillin" -> {"talit"}
    [] key = "netz_hachama" -> {"sr_elev"}
    [] key = "shkia" -> {"ss_elev"}
    [] key \in {"tset_hakohavim", "tset_hakohavim_shabbat"} -> {"tzais85"}
    [] key \in {"chatzot_hayom", "mincha_gedola_30min"} -> {"chatzos"}
    [] key = "chatzot_halayla" -> {"chatzos", "chatzos_next"}
    [] key \in {"tset_hakohavim_rabeinu_tam", "candle_lighting"} -> {"ss_sea"}
    [] OTHER -> {"sr_sea", "ss_sea"}

\* The time after a number of quarters of the twelve hours of a day.
Shaos(start, end, quarters) == start + (((end - start) * quarters) \div 48)

\* The day is from sunrise to sunset, or longer by 72 minutes at each end.
Alos72(sun) == sun["sr_sea"] - 72 * Minute
Tzais72(sun) == sun["ss_sea"] + 72 * Minute
Gra(sun, quarters) == Shaos(sun["sr_sea"], sun["ss_sea"], quarters)
Mga(sun, quarters) == Shaos(Alos72(sun), Tzais72(sun), quarters)

ZmanOf(key, sun) ==
  CASE key = "alot_hashachar" -> sun["alot"]
    [] key = "talit_and_tefillin" -> sun["talit"]
    [] key = "netz_hachama" -> sun["sr_elev"]
    [] key = "sof_zman_shema_gra" -> Gra(sun, 12)
    [] key = "sof_zman_shema_mga" -> Mga(sun, 12)
    [] key = "sof_zman_tfilla_gra" -> Gra(sun, 16)
    [] key = "sof_zman_tfilla_mga" -> Mga(sun, 16)
    [] key = "chatzot_hayom" -> sun["chatzos"]
    [] key = "mincha_gedola" -> Gra(sun, 26)
    [] key = "mincha_gedola_30min" -> sun["chatzos"] + 30 * Minute
    [] key = "mincha_ketana" -> Gra(sun, 38)
    [] key = "plag_hamincha" -> Gra(sun, 43)
    [] key = "shkia" -> sun["ss_elev"]
    [] key \in {"tset_hakohavim", "tset_hakohavim_shabbat"} -> sun["tzais85"]
    [] key = "tset_hakohavim_rabeinu_tam" -> Tzais72(sun)
    [] key = "chatzot_halayla" ->
         sun["chatzos"] + ((sun["chatzos_next"] - sun["chatzos"]) \div 2)
    [] key = "candle_lighting" -> sun["ss_sea"] - CandleOffset * Minute
=============================================================================
