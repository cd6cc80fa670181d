------------------------------ MODULE FullCharge ------------------------------
(***************************************************************************)
(* When the battery is charged to the full: next_full_charge, its seed and *)
(* its rollover (controllers/setpoint.rs), charge_to_full_required, and    *)
(* the target it gives the always-on boost schedule                        *)
(* (controllers/schedules.rs), through weeks of days, dates moved by the   *)
(* user, a switch that forces or forbids the charge, sensors lost and      *)
(* restarts.  That a schedule written reaches the device is the subject of *)
(* ScheduleFeed; what schedule 1 adds, of NightPlan.                       *)
(***************************************************************************)
EXTENDS Integers

CONSTANTS
  None,
  Calendars,  \* pairs of full_charge_snap_back_max_weekday and _defer_to_next_sunday
  UserDates,  \* days ahead a user may move the next full charge to
  MaxEdits,   \* bound: edits of the date or the switch
  MaxRestarts

ASSUME FullChargeAssumption ==
  /\ None \notin Int
  /\ Calendars \subseteq Nat \X BOOLEAN
  /\ UserDates \subseteq 0 .. 13
  /\ MaxEdits \in Nat /\ MaxRestarts \in Nat

\* From 02:00 to 05:00 schedule 0 charges; "Dark" begins at 17:00, "Small" at
\* midnight.
Slots == {"Small", "Boost", "Day", "Dark"}
Following(s) == [Small |-> "Boost", Boost |-> "Day", Day |-> "Dark", Dark |-> "Small"][s]

DebugModes == {"Auto", "Forbid", "Force"}

\* battery_soc under the usual target, at it, and at 99.99 % or more.
Socs == {"Low", "Target", "Full"}
Rank(s) == [Low |-> 0, Target |-> 1, Full |-> 2][s]

VARIABLES
  dow,       \* day of the week, 0 = Sunday
  slot,
  soc,
  debug,     \* debug_full_charge
  due,       \* next_full_charge: days from today, at 17:00; -1: any day before
  ownDue,    \* history: the code chose that date, not a user
  required,  \* charge_to_full_required
  boost,     \* target of schedule 0 on the device
  edits, restarts

bounds == <<edits, restarts>>
vars == <<dow, slot, soc, debug, due, ownDue, required, boost, bounds>>

TypeOK ==
  /\ dow \in 0 .. 6 /\ slot \in Slots /\ soc \in Socs /\ debug \in DebugModes
  /\ due \in {None} \union (-1 .. 13) /\ ownDue \in BOOLEAN /\ required \in BOOLEAN
  /\ boost \in {"Target", "Full"} /\ edits \in 0 .. MaxEdits
  /\ restarts \in 0 .. MaxRestarts

-----------------------------------------------------------------------------
Past(d) == d < 0 \/ (d = 0 /\ slot = "Dark")

\* The knob is clamped to Monday .. Friday.
SnapBack(knob) == IF knob < 1 THEN 1 ELSE IF knob > 5 THEN 5 ELSE knob

\* Variant: the days to the next Sunday are counted from Monday.
NextChargeDateFromMonday(weeks, defined, calendar) ==
  LET push == (dow > SnapBack(calendar[1]) /\ defined) \/ (dow > 0 /\ calendar[2])
      day == weeks * 7 + (IF push THEN 6 ELSE 0) - dow
  IN  IF Past(day) THEN day + 7 ELSE day

\* get_next_charge_date_to_sunday_5pm, in days from today.
NextChargeDate(weeks, defined, calendar) ==
  LET push == (dow > SnapBack(calendar[1]) /\ defined) \/ (dow > 0 /\ calendar[2])
      day == weeks * 7 + (IF push THEN 7 ELSE 0) - dow
  IN  IF Past(day) THEN day + 7 ELSE day

\* The seed takes no account of the knob that defers.
Seeded(date, calendar) ==
  IF date = None THEN NextChargeDate(0, FALSE, <<calendar[1], FALSE>>) ELSE date

\* Variant: a charge counts on the day it is due only.
RequiredOnTheDay(date) == debug' = "Force" \/ (debug' = "Auto" /\ date = 0 /\ Past(date))

Required(date) == debug' = "Force" \/ (debug' = "Auto" /\ Past(date))

\* Variant: the usual target is taken for a full charge.
RolledAtTarget(date, calendar) ==
  IF soc # "Low" THEN NextChargeDate(1, TRUE, calendar) ELSE date

\* At 99.99 % the date moves on, whoever set it.
Rolled(date, calendar) ==
  IF soc = "Full" THEN NextChargeDate(1, TRUE, calendar) ELSE date

\* One event: the setpoint core with its sensors usable, then the schedules
\* core with battery_soc usable, which the setpoint needs too.
Process(date, calendar, sensors) ==
  /\ IF sensors = "All"
     THEN \E next \in {Seeded(date, calendar)} :
            /\ required' = Required(next)
            /\ due' = Rolled(next, calendar)
     ELSE due' = date /\ UNCHANGED required
  /\ boost' = IF sensors = "None" THEN boost
              ELSE IF required' THEN "Full" ELSE "Target"

\* The date now in force is the code's.
Chosen(date, sensors) == sensors = "All" /\ (date = None \/ soc = "Full")

Event(calendar, sensors) ==
  /\ UNCHANGED <<dow, slot, soc, debug, bounds>>
  /\ Process(due, calendar, sensors)
  /\ ownDue' = (ownDue \/ Chosen(due, sensors))

SwitchEvent(mode, calendar, sensors) ==
  /\ edits < MaxEdits /\ mode # debug
  /\ edits' = edits + 1 /\ debug' = mode
  /\ UNCHANGED <<dow, slot, soc, restarts>>
  /\ Process(due, calendar, sensors)
  /\ ownDue' = (ownDue \/ Chosen(due, sensors))

\* SetBookkeeping(NextFullCharge): a date, or None.
DateEvent(date, calendar, sensors) ==
  /\ edits < MaxEdits
  /\ edits' = edits + 1
  /\ UNCHANGED <<dow, slot, soc, debug, restarts>>
  /\ Process(date, calendar, sensors)
  /\ ownDue' = Chosen(date, sensors)

\* The retained date and knobs are back, required is not retained; the schedule
\* stays on the device.  The date may also be lost (see Retained).
Restart ==
  /\ restarts < MaxRestarts
  /\ restarts' = restarts + 1
  /\ required' = FALSE
  /\ UNCHANGED <<due, ownDue>> \/ (due' = None /\ ownDue' = FALSE)
  /\ UNCHANGED <<dow, slot, soc, debug, boost, edits>>

-----------------------------------------------------------------------------
(* The world outside.                                                      *)

\* In its window the inverter charges to the target of the schedule.
GridCharges ==
  /\ slot = "Boost" /\ Rank(soc) < Rank(boost)
  /\ soc' = boost
  /\ UNCHANGED <<dow, slot, debug, due, ownDue, required, boost, bounds>>

\* Sun, grid and house: up by day or by schedule 1, down at any time but in
\* the window.
SocDrifts(v) ==
  /\ v # soc
  /\ Rank(v) > Rank(soc) => slot = "Day"
  /\ Rank(v) < Rank(soc) => slot # "Boost"
  /\ soc' = v
  /\ UNCHANGED <<dow, slot, debug, due, ownDue, required, boost, bounds>>

ClockEnters ==
  /\ slot' = Following(slot)
  /\ IF slot = "Dark"
     THEN /\ dow' = (dow + 1) % 7
          /\ due' = IF due = None \/ due < 0 THEN due ELSE due - 1
     ELSE UNCHANGED <<dow, due>>
  /\ UNCHANGED <<soc, debug, ownDue, required, boost, bounds>>

-----------------------------------------------------------------------------
Init ==
  /\ dow \in 0 .. 6 /\ slot \in Slots /\ soc \in Socs
  /\ debug = "Auto" /\ due = None /\ ownDue = FALSE
  /\ required = FALSE /\ boost = "Target" /\ edits = 0 /\ restarts = 0

Sensors == {"All", "SocOnly", "None"}

Next ==
  \/ \E calendar \in Calendars, sensors \in Sensors :
       \/ Event(calendar, sensors)
       \/ \E mode \in DebugModes : SwitchEvent(mode, calendar, sensors)
       \/ \E date \in UserDates \union {None} : DateEvent(date, calendar, sensors)
  \/ Restart
  \/ GridCharges
  \/ \E v \in Socs : SocDrifts(v)
  \/ ClockEnters

Spec == Init /\ [][Next]_vars

\* Events go on with all sensors there, and so does the clock; the grid charges
\* in some window if the device is asked to in window after window.
Fairness ==
  /\ WF_vars(\E calendar \in Calendars : Event(calendar, "All"))
  /\ WF_vars(ClockEnters)
  /\ SF_vars(GridCharges)

FairSpec == Spec /\ Fairness

-----------------------------------------------------------------------------
\* A date the code has chosen (setpoint.rs 647-664, 1084-1112) is a Sunday no
\* more than 13 days ahead, on whatever weekday the battery fills up.
NextIsASunday ==
  ownDue /\ due \in 0 .. 13 => (dow + due) % 7 = 0

\* The date has gone by.
Overdue == due # None /\ Past(due)

SettledByChargeOrUser ==
  Overdue /\ due' \notin {-1, due, None} =>
    soc = "Full" \/ (edits' # edits /\ debug' = debug)

\* A full charge that is overdue stays so until the battery is full or a user,
\* or a restart that loses the date, moves it: no event, tick of the clock, lost
\* sensor or restart skips it (setpoint.rs 647-664, process.rs 1800-1816).
OnlyFullChargeSettles == [][SettledByChargeOrUser]_vars

\* Unless it is forbidden for good, the battery is filled again and again, on
\* any weekday it was last full and wherever a user has put the date
\* (setpoint.rs 569-573, schedules.rs 118-122).
FullChargeRecurs == <>[](debug # "Forbid") => []<>(soc = "Full")
=============================================================================
