----------------------------- MODULE DeviceClock -----------------------------
(***************************************************************************)
(* How the clock of the panel is set and kept: the screen takes local time *)
(* and converts it by the offset of the date (settime.py), the service     *)
(* checks what it is given (device_time.py) and the PCF8563 keeps it in    *)
(* BCD registers over a power cut (pcf8563.py).  Seconds are left out.     *)
(***************************************************************************)
EXTENDS HebrewCalendar

MinYear == 2013
MaxYear == 2099

DaysOfMonth(y, m) ==
  CASE m = 2 -> IF (y % 4 = 0 /\ y % 100 # 0) \/ y % 400 = 0 THEN 29 ELSE 28
    [] m \in {1, 3, 5, 7, 8, 10, 12} -> 31
    [] OTHER -> 30

ShiftDay(date, delta) ==
  LET y == date[1]
      m == date[2]
      d == date[3] + delta
  IN  IF d < 1
      THEN IF m = 1 THEN <<y - 1, 12, 31>> ELSE <<y, m - 1, DaysOfMonth(y, m - 1)>>
      ELSE IF d > DaysOfMonth(y, m)
      THEN IF m = 12 THEN <<y + 1, 1, 1>> ELSE <<y, m + 1, 1>>
      ELSE <<y, m, d>>

(* A time is its date and its minute of the day.                           *)
LocalToUtc(date, minute, offset) ==
  LET total == minute - offset
  IN  IF total < 0 THEN [date |-> ShiftDay(date, -1), minute |-> total + 1440]
      ELSE IF total >= 1440 THEN [date |-> ShiftDay(date, 1), minute |-> total - 1440]
      ELSE [date |-> date, minute |-> total]

(* What the screen lets through, and what the service does.                *)
Confirms(date, minute) ==
  /\ date[1] \in MinYear .. MaxYear /\ date[2] \in 1 .. 12 /\ minute \in 0 .. 1439
  /\ date[3] \in 1 .. DaysOfMonth(date[1], date[2])

Accepts(t) ==
  /\ t.date[1] \in MinYear .. MaxYear /\ t.minute \in 0 .. 1439
  /\ IsGregorianDate(t.date[1], t.date[2], t.date[3])

Bcd(v) == (v \div 10) * 16 + (v % 10)
FromBcd(b) == (b \div 16) * 10 + (b % 16)

(* The registers of the chip, and what is read from them: the bits beside  *)
(* the digits are masked.                                                  *)
Registers(t) ==
  [minutes |-> Bcd(t.minute % 60), hours |-> Bcd(t.minute \div 60), days |-> Bcd(t.date[3]),
   months |-> Bcd(t.date[2]), years |-> Bcd(t.date[1] % 100)]

ReadChip(r) ==
  [date |-> <<2000 + FromBcd(r.years), FromBcd(r.months % 32), FromBcd(r.days % 64)>>,
   minute |-> 60 * FromBcd(r.hours % 64) + FromBcd(r.minutes % 128)]

(* At boot the system clock takes the time of the chip, if it was ever set. *)
SyncToSystem(r) == {t \in {ReadChip(r)} : t.date[1] >= MinYear}
=============================================================================
