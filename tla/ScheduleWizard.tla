--------------------------- MODULE ScheduleWizard ---------------------------
(***************************************************************************)
(* The steps of the add-schedule wizard of the wall panel                  *)
(* (schedule_add.py): a stack of steps and a draft that each step fills.   *)
(* A choice is an action; what is typed into a numeric step counts from    *)
(* its last rendering on, which empties the buffer.  The filter by rooms   *)
(* of the target step only hides targets and is left out, and so is the    *)
(* choice between on and off.                                              *)
(***************************************************************************)
EXTENDS Integers, SequencesExt

CONSTANTS
  Zmanim,      \* names of zmanim
  Typed,       \* what may be typed: sequences of digits
  Days,        \* days of the week
  MaxOffset,   \* validate_schedule's bound of an offset
  None

ASSUME TypedAssumption == Typed \subseteq Seq(0 .. 9)
ASSUME NoneAssumption == None \notin Nat \cup BOOLEAN

VARIABLES
  stack,   \* _stack
  draft,   \* _draft; a key that is not set is None or, in `when', missing
  sign     \* _offset_sign

wizard == <<stack, draft, sign>>

NoDraft == [id |-> None, target |-> None, enabled |-> None, type |-> None,
            when |-> [k \in {} |-> 0], recurrence |-> None, days |-> {}]

Step == stack[Len(stack)]
Goto(step) == stack' = Append(stack, step)

(* Padded to the right to four digits, as it is shown while it is typed.   *)
HourMinute(typed) ==
  LET Digit(k) == IF k <= Len(typed) THEN typed[k] ELSE 0
  IN  [h |-> 10 * Digit(1) + Digit(2), m |-> 10 * Digit(3) + Digit(4)]

Number(typed) == FoldLeft(LAMBDA n, digit : 10 * n + digit, 0, typed)

(* Mutant of TimeExists: midnight may also be entered as 24:00.            *)
TimeExistsTo24(t) == t.h <= 24 /\ t.m <= 59

TimeExists(t) == t.h <= 23 /\ t.m <= 59

-----------------------------------------------------------------------------
(* With an existing schedule it edits a copy of it.  The sign is the one   *)
(* chosen last, in any wizard before.                                      *)
OpenWizard(existing) ==
  /\ draft' = existing
  /\ stack' = <<"target">>
  /\ sign' \in {-1, 1}

PickTarget(t) ==
  /\ Step = "target"
  /\ draft' = [draft EXCEPT !.target = t]
  /\ Goto("action") /\ UNCHANGED sign

PickAction ==
  /\ Step = "action"
  /\ Goto("trigger_type") /\ UNCHANGED <<draft, sign>>

PickTriggerType(type) ==
  /\ Step = "trigger_type"
  /\ draft' = [draft EXCEPT !.type = type]
  /\ Goto(IF type = "fixed_time" THEN "fixed_time" ELSE "zman")
  /\ UNCHANGED sign

(* A time that does not exist is refused, and the step stays.              *)
FixedTimeOk(typed) ==
  /\ Step = "fixed_time"
  /\ \E t \in {HourMinute(typed)} :
       /\ TimeExists(t)
       /\ draft' = [draft EXCEPT !.type = "fixed_time", !.when = t]
  /\ Goto("recurrence") /\ UNCHANGED sign

PickZman(z) ==
  /\ Step = "zman"
  /\ draft' = [draft EXCEPT !.when = [zman |-> z]]
  /\ Goto(IF draft.type = "zman_offset" THEN "offset" ELSE "recurrence")
  /\ UNCHANGED sign

ChooseSign(s) ==
  /\ Step = "offset"
  /\ sign' = s
  /\ UNCHANGED <<stack, draft>>

OffsetOk(typed) ==
  /\ Step = "offset"
  /\ draft' = [draft EXCEPT !.when =
                 [zman |-> @["zman"], offset |-> sign * Number(typed)]]
  /\ Goto("recurrence") /\ UNCHANGED sign

PickDaysOfWeek ==
  /\ Step = "recurrence"
  /\ draft' = [draft EXCEPT !.recurrence = "days_of_week"]
  /\ Goto("days") /\ UNCHANGED sign

StepBack ==
  /\ Len(stack) > 1
  /\ stack' = Front(stack)
  /\ UNCHANGED <<draft, sign>>

(* Nothing reads the draft until the wizard is opened again.               *)
Left == stack' = <<>> /\ draft' = NoDraft /\ sign' = -1

LeaveWizard == Len(stack) = 1 /\ Left

(* What a tap on a recurrence or on the button of the days would save.     *)
Finished ==
  {[d EXCEPT !.enabled = IF @ = None THEN TRUE ELSE @] :
     d \in CASE Step = "recurrence" -> {[draft EXCEPT !.recurrence = "plain", !.days = {}]}
            [] Step = "days" -> {[draft EXCEPT !.days = days] : days \in (SUBSET Days) \ {{}}}
            [] OTHER -> {}}

WizardStep(targets) ==
  \/ \E t \in targets : PickTarget(t)
  \/ PickAction
  \/ \E type \in {"fixed_time", "zman", "zman_offset"} : PickTriggerType(type)
  \/ \E typed \in Typed : FixedTimeOk(typed) \/ OffsetOk(typed)
  \/ \E z \in Zmanim : PickZman(z)
  \/ \E s \in {-1, 1} : ChooseSign(s)
  \/ PickDaysOfWeek
  \/ StepBack

-----------------------------------------------------------------------------
(* validate_schedule, for what the wizard can set.                         *)
WhenExists(s) ==
  CASE s.type = "fixed_time" ->
         {"h", "m"} \subseteq DOMAIN s.when /\ s.when["h"] \in 0 .. 23 /\ s.when["m"] \in 0 .. 59
    [] s.type \in {"zman", "zman_offset"} -> "zman" \in DOMAIN s.when
    [] OTHER -> FALSE

OffsetTooFar(s) ==
  /\ s.type = "zman_offset" /\ "offset" \in DOMAIN s.when
  /\ s.when["offset"] \notin -MaxOffset .. MaxOffset

ValidSchedule(s) ==
  /\ s.target # None /\ WhenExists(s) /\ ~OffsetTooFar(s)
  /\ s.recurrence = "days_of_week" => s.days # {}
=============================================================================
