--------------------------- MODULE FullChargeProofs ---------------------------
(***************************************************************************)
(* Theorems about FullCharge, for all settings of the snap-back and the    *)
(* deferral, all dates a user may choose and any number of edits and       *)
(* restarts.  The lemmas say of get_next_charge_date_to_sunday_5pm what    *)
(* the code relies on: a Sunday, still to come, at most 13 days ahead.     *)
(***************************************************************************)
EXTENDS FullCharge, TLAPS

USE DEF Slots

\* NextIsASunday, of any date and whether the code chose it.
SundayIfOwn(own, date) == own /\ date \in 0 .. 13 => (dow + date) % 7 = 0

IInv == TypeOK /\ NextIsASunday

\* The settings a calendar holds.
LEMMA CalendarType ==
  ASSUME NEW calendar \in Calendars
  PROVE  calendar[1] \in Nat /\ calendar[2] \in BOOLEAN
BY FullChargeAssumption

LEMMA NextChargeDateIsASunday ==
  ASSUME dow \in 0 .. 6, NEW weeks \in {0, 1}, NEW defined \in BOOLEAN,
         NEW calendar, calendar[1] \in Nat, calendar[2] \in BOOLEAN
  PROVE  /\ NextChargeDate(weeks, defined, calendar) \in 0 .. 13
         /\ ~ Past(NextChargeDate(weeks, defined, calendar))
         /\ (dow + NextChargeDate(weeks, defined, calendar)) % 7 = 0
<1> DEFINE push == (dow > SnapBack(calendar[1]) /\ defined) \/ (dow > 0 /\ calendar[2])
           day == weeks * 7 + (IF push THEN 7 ELSE 0) - dow
           date == IF Past(day) THEN day + 7 ELSE day
<1>1. NextChargeDate(weeks, defined, calendar) = date
  BY DEF NextChargeDate
<1>2. SnapBack(calendar[1]) \in Int /\ SnapBack(calendar[1]) >= 1
  BY DEF SnapBack
<1>3. push => dow >= 1
  BY <1>2
<1> HIDE DEF push
<1>4. day \in {0 - dow, 7 - dow} \/ (day = 14 - dow /\ dow >= 1)
  BY <1>3
<1> HIDE DEF day
<1>5. /\ date \in {0 - dow, 7 - dow, 14 - dow}
      /\ ~ Past(date) /\ date \in 0 .. 13
  BY <1>4 DEF Past
<1>6. (dow + date) % 7 = 0
  <2>1. dow + date \in {0, 7, 14}
    BY <1>5
  <2> QED
    BY <2>1
<1> QED
  BY <1>1, <1>5, <1>6

\* What one event does to a date, whoever chose it.
LEMMA ProcessStep ==
  ASSUME TypeOK, debug' \in DebugModes,
         NEW date \in {None} \union (-1 .. 13), NEW own \in BOOLEAN,
         SundayIfOwn(own, date),
         NEW calendar \in Calendars, NEW sensors \in Sensors,
         Process(date, calendar, sensors)
  PROVE  /\ due' \in {None} \union (-1 .. 13)
         /\ required' \in BOOLEAN /\ boost' \in {"Target", "Full"}
         /\ SundayIfOwn(own \/ Chosen(date, sensors), due')
         /\ date # None /\ soc # "Full" => due' = date
<1> DEFINE seed == NextChargeDate(0, FALSE, <<calendar[1], FALSE>>)
           roll == NextChargeDate(1, TRUE, calendar)
<1>1. dow \in 0 .. 6 /\ calendar[1] \in Nat /\ calendar[2] \in BOOLEAN
  BY CalendarType DEF TypeOK
<1>2. roll \in 0 .. 13 /\ (dow + roll) % 7 = 0
  BY <1>1, NextChargeDateIsASunday
<1>3. seed \in 0 .. 13 /\ (dow + seed) % 7 = 0
  <2>1. <<calendar[1], FALSE>>[1] \in Nat /\ <<calendar[1], FALSE>>[2] \in BOOLEAN
    BY <1>1
  <2> QED
    BY <1>1, <2>1, NextChargeDateIsASunday
<1> HIDE DEF seed, roll
<1>4. CASE sensors = "All"
  <2> DEFINE next == Seeded(date, calendar)
  <2>1. next = IF date = None THEN seed ELSE date
    BY DEF Seeded, seed
  <2>2. /\ required' = Required(next)
        /\ due' = IF soc = "Full" THEN roll ELSE next
        /\ boost' = IF required' THEN "Full" ELSE "Target"
    BY <1>4 DEF Process, Rolled, roll
  <2>3. Required(next) \in BOOLEAN
    BY DEF Required
  <2>4. Chosen(date, sensors) <=> date = None \/ soc = "Full"
    BY <1>4 DEF Chosen
  <2> HIDE DEF next
  <2>5. due' \in {None} \union (-1 .. 13)
    BY <1>2, <1>3, <2>1, <2>2
  <2>6. SundayIfOwn(own \/ Chosen(date, sensors), due')
    BY <1>2, <1>3, <2>1, <2>2, <2>4 DEF SundayIfOwn
  <2> QED
    BY <2>1, <2>2, <2>3, <2>5, <2>6
<1>5. CASE sensors # "All"
  <2>1. due' = date /\ required' = required /\ ~ Chosen(date, sensors)
    BY <1>5 DEF Process, Chosen
  <2>2. boost' \in {"Target", "Full"}
    BY DEF Process, TypeOK
  <2> QED
    BY <2>1, <2>2 DEF SundayIfOwn, TypeOK
<1> QED
  BY <1>4, <1>5

-----------------------------------------------------------------------------
(* The inductive invariant.                                                *)

LEMMA InitInv == Init => IInv
<1> SUFFICES ASSUME Init PROVE IInv
  OBVIOUS
<1>1. edits \in 0 .. MaxEdits /\ restarts \in 0 .. MaxRestarts
  BY FullChargeAssumption DEF Init
<1>2. TypeOK
  BY <1>1 DEF Init, TypeOK, DebugModes
<1>3. NextIsASunday
  BY DEF Init, NextIsASunday
<1> QED
  BY <1>2, <1>3 DEF IInv

LEMMA EventKeeps ==
  ASSUME IInv, NEW calendar \in Calendars, NEW sensors \in Sensors,
         Event(calendar, sensors)
  PROVE  IInv'
<1>1. /\ UNCHANGED <<dow, slot, soc, debug, bounds>>
      /\ Process(due, calendar, sensors)
      /\ ownDue' = (ownDue \/ Chosen(due, sensors))
  BY DEF Event
<1>2. TypeOK /\ debug' \in DebugModes /\ SundayIfOwn(ownDue, due)
  BY <1>1 DEF IInv, TypeOK, NextIsASunday, SundayIfOwn
<1>3. /\ due' \in {None} \union (-1 .. 13)
      /\ required' \in BOOLEAN /\ boost' \in {"Target", "Full"}
      /\ SundayIfOwn(ownDue \/ Chosen(due, sensors), due')
  BY <1>1, <1>2, ProcessStep DEF TypeOK
<1>4. TypeOK'
  BY <1>1, <1>2, <1>3 DEF TypeOK, bounds, Chosen
<1> QED
  BY <1>1, <1>3, <1>4 DEF IInv, NextIsASunday, SundayIfOwn

LEMMA SwitchKeeps ==
  ASSUME IInv, NEW mode \in DebugModes,
         NEW calendar \in Calendars, NEW sensors \in Sensors,
         SwitchEvent(mode, calendar, sensors)
  PROVE  IInv'
<1>1. /\ edits < MaxEdits /\ edits' = edits + 1 /\ debug' = mode
      /\ UNCHANGED <<dow, slot, soc, restarts>>
      /\ Process(due, calendar, sensors)
      /\ ownDue' = (ownDue \/ Chosen(due, sensors))
  BY DEF SwitchEvent
<1>2. TypeOK /\ debug' \in DebugModes /\ SundayIfOwn(ownDue, due)
  BY <1>1 DEF IInv, TypeOK, NextIsASunday, SundayIfOwn
<1>3. /\ due' \in {None} \union (-1 .. 13)
      /\ required' \in BOOLEAN /\ boost' \in {"Target", "Full"}
      /\ SundayIfOwn(ownDue \/ Chosen(due, sensors), due')
  BY <1>1, <1>2, ProcessStep DEF TypeOK
<1>4. edits' \in 0 .. MaxEdits
  BY <1>1, <1>2, FullChargeAssumption DEF TypeOK
<1>5. TypeOK'
  BY <1>1, <1>2, <1>3, <1>4 DEF TypeOK, Chosen
<1> QED
  BY <1>1, <1>3, <1>5 DEF IInv, NextIsASunday, SundayIfOwn

LEMMA DateKeeps ==
  ASSUME IInv, NEW date \in UserDates \union {None},
         NEW calendar \in Calendars, NEW sensors \in Sensors,
         DateEvent(date, calendar, sensors)
  PROVE  IInv'
<1>1. /\ edits < MaxEdits /\ edits' = edits + 1
      /\ UNCHANGED <<dow, slot, soc, debug, restarts>>
      /\ Process(date, calendar, sensors)
      /\ ownDue' = Chosen(date, sensors)
  BY DEF DateEvent
<1>2. TypeOK /\ debug' \in DebugModes /\ SundayIfOwn(FALSE, date)
  BY <1>1 DEF IInv, TypeOK, SundayIfOwn
<1>3. date \in {None} \union (-1 .. 13)
  BY FullChargeAssumption
<1>4. /\ due' \in {None} \union (-1 .. 13)
      /\ required' \in BOOLEAN /\ boost' \in {"Target", "Full"}
      /\ SundayIfOwn(FALSE \/ Chosen(date, sensors), due')
  BY <1>1, <1>2, <1>3, ProcessStep
<1>5. edits' \in 0 .. MaxEdits
  BY <1>1, <1>2, FullChargeAssumption DEF TypeOK
<1>6. TypeOK'
  BY <1>1, <1>2, <1>4, <1>5 DEF TypeOK, Chosen
<1> QED
  BY <1>1, <1>4, <1>6 DEF IInv, NextIsASunday, SundayIfOwn

LEMMA RestartKeeps == IInv /\ Restart => IInv'
<1> SUFFICES ASSUME IInv, Restart PROVE IInv'
  OBVIOUS
<1>1. restarts' \in 0 .. MaxRestarts
  BY FullChargeAssumption DEF IInv, TypeOK, Restart
<1>2. TypeOK'
  BY <1>1 DEF IInv, TypeOK, Restart
<1> QED
  BY <1>2 DEF IInv, NextIsASunday, Restart

\* At midnight the date comes one day nearer, and stays the same Sunday.
LEMMA ClockKeeps == IInv /\ ClockEnters => IInv'
<1> SUFFICES ASSUME IInv, ClockEnters PROVE IInv'
  OBVIOUS
<1>1. slot' \in Slots
  BY DEF IInv, TypeOK, ClockEnters, Following
<1>2. CASE slot # "Dark"
  BY <1>1, <1>2 DEF IInv, TypeOK, NextIsASunday, ClockEnters, bounds
<1>3. CASE slot = "Dark"
  <2>1. /\ dow' = (dow + 1) % 7 /\ dow \in 0 .. 6
        /\ due' = IF due = None \/ due < 0 THEN due ELSE due - 1
        /\ due \in {None} \union (-1 .. 13)
        /\ ownDue' = ownDue
    BY <1>3 DEF IInv, TypeOK, ClockEnters
  <2>2. dow' \in 0 .. 6 /\ dow' = IF dow = 6 THEN 0 ELSE dow + 1
    BY <2>1
  <2>3. due' \in {None} \union (-1 .. 13)
    BY <2>1
  <2>4. TypeOK'
    BY <1>1, <2>2, <2>3 DEF IInv, TypeOK, ClockEnters, bounds
  <2>5. ASSUME ownDue', due' \in 0 .. 13 PROVE (dow' + due') % 7 = 0
    <3>1. due \in 0 .. 13 /\ due' = due - 1
      BY <2>1, <2>5, FullChargeAssumption
    <3>2. (dow + due) % 7 = 0
      BY <2>1, <2>5, <3>1 DEF IInv, NextIsASunday
    <3>3. dow' + due' = dow + due \/ dow' + due' = dow + due - 7
      BY <2>1, <2>2, <3>1
    <3>4. dow + due \in 0 .. 19 /\ dow' + due' \in 0 .. 19
      BY <2>1, <2>2, <2>5, <3>1
    <3>5. dow + due \in {0, 7, 14}
      BY <3>2, <3>4
    <3>6. dow' + due' \in {0, 7, 14}
      BY <2>1, <2>2, <3>1, <3>3, <3>4, <3>5
    <3> QED
      BY <3>6
  <2>6. NextIsASunday'
    BY <2>5 DEF NextIsASunday
  <2> QED
    BY <2>4, <2>6 DEF IInv
<1> QED
  BY <1>2, <1>3

LEMMA BatteryKeeps ==
  ASSUME IInv, GridCharges \/ \E v \in Socs : SocDrifts(v) PROVE IInv'
BY DEF IInv, TypeOK, NextIsASunday, GridCharges, SocDrifts, Socs, bounds

LEMMA NextInv == IInv /\ [Next]_vars => IInv'
<1> SUFFICES ASSUME IInv, [Next]_vars PROVE IInv'
  OBVIOUS
<1>1. CASE UNCHANGED vars
  BY <1>1 DEF vars, bounds, IInv, TypeOK, NextIsASunday
<1>2. CASE Next
  BY <1>2, EventKeeps, SwitchKeeps, DateKeeps, RestartKeeps, ClockKeeps, BatteryKeeps
     DEF Next
<1> QED
  BY <1>1, <1>2

\* The inductive invariant holds in every behaviour.
THEOREM Invariance == Spec => []IInv
BY InitInv, NextInv, PTL DEF Spec

\* The next full charge stays within two weeks, and the rest is well typed
\* (setpoint.rs 1084-1112).
THEOREM TypeCorrect == Spec => []TypeOK
<1>1. IInv => TypeOK
  BY DEF IInv
<1> QED
  BY <1>1, Invariance, PTL

\* A date the code has chosen is a Sunday, on whatever weekday the battery
\* fills up and however the calendar is set (setpoint.rs 647-664, 1084-1112).
THEOREM NextChargeIsASunday == Spec => []NextIsASunday
<1>1. IInv => NextIsASunday
  BY DEF IInv
<1> QED
  BY <1>1, Invariance, PTL

-----------------------------------------------------------------------------
(* The action property.                                                    *)

LEMMA NextSettles == IInv /\ [Next]_vars => SettledByChargeOrUser
<1> SUFFICES ASSUME IInv, [Next]_vars, Overdue, due' \notin {-1, due, None},
                    soc # "Full"
             PROVE  edits' # edits /\ debug' = debug
  BY DEF SettledByChargeOrUser
<1>1. /\ TypeOK /\ SundayIfOwn(ownDue, due) /\ due # None
      /\ due \in {None} \union (-1 .. 13) /\ ownDue \in BOOLEAN
  BY DEF IInv, TypeOK, NextIsASunday, SundayIfOwn, Overdue
<1>2. ASSUME NEW calendar \in Calendars, NEW sensors \in Sensors,
             Process(due, calendar, sensors), debug' \in DebugModes
      PROVE  FALSE
  BY <1>1, <1>2, ProcessStep
<1>3. ASSUME NEW calendar \in Calendars, NEW sensors \in Sensors,
             Event(calendar, sensors)
      PROVE  FALSE
  BY <1>1, <1>2, <1>3 DEF Event, TypeOK
<1>4. ASSUME NEW mode \in DebugModes,
             NEW calendar \in Calendars, NEW sensors \in Sensors,
             SwitchEvent(mode, calendar, sensors)
      PROVE  FALSE
  BY <1>1, <1>2, <1>4 DEF SwitchEvent
<1>5. ASSUME NEW date, NEW calendar \in Calendars, NEW sensors \in Sensors,
             DateEvent(date, calendar, sensors)
      PROVE  edits' # edits /\ debug' = debug
  BY <1>1, <1>5 DEF DateEvent, TypeOK
<1>6. ASSUME Restart PROVE FALSE
  BY <1>6 DEF Restart
<1>7. ASSUME ClockEnters PROVE FALSE
  <2>1. due = -1 \/ (due = 0 /\ slot = "Dark")
    BY <1>1 DEF Overdue, Past
  <2> QED
    BY <1>1, <1>7, <2>1 DEF ClockEnters
<1>8. ASSUME GridCharges \/ (\E v \in Socs : SocDrifts(v)) \/ UNCHANGED vars
      PROVE  FALSE
  BY <1>8 DEF GridCharges, SocDrifts, vars
<1> QED
  BY <1>3, <1>4, <1>5, <1>6, <1>7, <1>8 DEF Next

\* Only a full battery or a user settles a full charge that is overdue
\* (setpoint.rs 647-664, process.rs 1800-1816).
THEOREM FullChargeSettles == Spec => OnlyFullChargeSettles
<1>1. IInv /\ [Next]_vars => [SettledByChargeOrUser]_vars
  BY NextSettles
<1> QED
  BY <1>1, Invariance, PTL DEF Spec, OnlyFullChargeSettles
=============================================================================
