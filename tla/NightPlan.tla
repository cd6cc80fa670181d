------------------------------ MODULE NightPlan ------------------------------
(***************************************************************************)
(* What the battery is charged to in a night: the weather plan             *)
(* (run_weather_soc, controllers/weather_soc.rs), the rule of the two      *)
(* charge schedules (controllers/schedules.rs) and their per-day latches,  *)
(* round the slots of the day, with forecasts and a sunset that age, and   *)
(* restarts.                                                               *)
(*                                                                         *)
(* Both cores run in every event, after the setpoint core, which says      *)
(* whether a full charge is required (see FullCharge).  Energies are left  *)
(* out: what the planner reads off its table is an input, and a plan       *)
(* remembers for which day's sun it was made.  The four outputs of the     *)
(* planner are used as they are (modes Weather); that a schedule written   *)
(* reaches the device is the subject of ScheduleFeed.                      *)
(***************************************************************************)
EXTENDS Integers

CONSTANTS
  NoDay,
  Inputs,    \* what the cores find in the world, see AllInputs
  MaxEdits   \* bound: changes of charge_battery_extended_mode

\* battery_soc and a temperature usable; the cell the planner's table gives;
\* less energy than the high threshold; charge_to_full_required;
\* charge_car_extended and zappi_active.
AllInputs ==
  [soc : BOOLEAN, temperature : BOOLEAN,
   cell : [extended : BOOLEAN, target : {"Target", "Full"}], dull : BOOLEAN,
   full : BOOLEAN, car : BOOLEAN, zappi : BOOLEAN]

ASSUME NightPlanAssumption == Inputs \subseteq AllInputs /\ MaxEdits \in Nat

\* 00:00-02:00, -05:00, -08:00, -17:00, -24:00; the sun sets at 17:00 too.
Slots == {"Small", "Boost", "Extended", "Day", "Dark"}
Following(s) ==
  [Small |-> "Boost", Boost |-> "Extended", Extended |-> "Day", Day |-> "Dark",
   Dark |-> "Small"][s]

\* battery_soc under the usual target, at it, and at 100 %; and the target of a
\* schedule, 10 % ("Nominal") among them.
Socs == {"Low", "Target", "Full"}
Goals == {"Nominal", "Target", "Full"}
AtLeast(v, goal) == v = "Full" \/ v = goal \/ goal = "Nominal"

CbeModes == {"Auto", "Forced", "Disabled"}

VARIABLES
  slot,
  ticked,     \* a tick has been processed since midnight
  sun,        \* world.sunset: "None", or the day it is for
  forecast,   \* the fused forecast: "None" when stale, or the day it was fetched
  soc,
  cbeMode,    \* charge_battery_extended_mode
  plan,       \* bookkeeping of the planner: see NoPlan
  above,      \* above_soc_date is today
  schedules,  \* target of schedule 0; target of schedule 1 or "Off"
  weighed,    \* history: the last decision of the day weighed the SoC
  edits

env == <<slot, ticked, sun, forecast, soc>>
books == <<plan, above, schedules, weighed>>
vars == <<env, cbeMode, books, edits>>

\* extended: charge_battery_extended_today, made on the day "stamp"; dng:
\* weather_soc_disable_night_grid_discharge; basis: the day whose sun the plan
\* is for, counted from today.
NoPlan == [extended |-> FALSE, dng |-> FALSE, target |-> "Target",
           stamp |-> "Never", basis |-> NoDay]

TypeOK ==
  /\ slot \in Slots /\ ticked \in BOOLEAN /\ soc \in Socs /\ cbeMode \in CbeModes
  /\ sun \in {"None", "Yesterday", "Today"} /\ forecast \in {"None", "Yesterday", "Today"}
  /\ plan \in [extended : BOOLEAN, dng : BOOLEAN, target : {"Target", "Full"},
               stamp : {"Never", "Before", "Today"}, basis : {NoDay, -1, 0, 1}]
  /\ above \in BOOLEAN /\ weighed \in BOOLEAN
  /\ schedules \in [boost : {"Target", "Full"}, extended : Goals \union {"Off"}]
  /\ edits \in 0 .. MaxEdits

-----------------------------------------------------------------------------
(* The planner.                                                            *)

\* A sunset not yet of today is past.
AfterSunset == sun' = "Yesterday" \/ (sun' = "Today" /\ slot = "Dark")

\* The day the column read is for: of a forecast fetched yesterday, "tomorrow"
\* is today.
Basis == (IF AfterSunset THEN 1 ELSE 0) - (IF forecast' = "Yesterday" THEN 1 ELSE 0)

\* Variant: the per-day flag outlives midnight.
KeptOverMidnight(p, tick) == p

\* apply_tick clears the flag of another day.
Cleared(p, tick) ==
  IF tick /\ p.stamp # "Today" THEN [p EXCEPT !.extended = FALSE] ELSE p

\* evaluate_weather_soc on the cell the table gives.  No temperature or no fresh
\* forecast: skipped.
Planned(p, in) ==
  IF ~ in.temperature \/ forecast' = "None" THEN p
  ELSE [extended |-> in.cell.extended \/ (in.full /\ in.dull), dng |-> in.cell.extended,
        target |-> IF in.full /\ in.dull THEN "Full" ELSE in.cell.target,
        stamp |-> "Today", basis |-> Basis]

-----------------------------------------------------------------------------
(* The schedules.                                                          *)

\* cbe_derivation
Cbe(p, in) == cbeMode' = "Forced" \/ (cbeMode' = "Auto" /\ (in.full \/ p.extended))

Selected(p, in) == IF in.full THEN "Full" ELSE p.target

\* The branch of evaluate_schedules that asks whether the target was reached.
Weighs(p, in) == slot = "Extended" /\ Cbe(p, in) /\ ~ p.dng

\* Variant: nothing is latched, the present SoC decides.
ReachedNow(p, in) == Weighs(p, in) /\ AtLeast(soc, Selected(p, in))

Reached(p, in) == Weighs(p, in) /\ (AtLeast(soc, Selected(p, in)) \/ above)

\* evaluate_schedules: schedule 0 is always on.
Rule(p, in) ==
  [boost |-> Selected(p, in),
   extended |->
     IF Cbe(p, in) THEN IF Reached(p, in) THEN "Off" ELSE Selected(p, in)
     ELSE IF slot = "Extended" /\ ~ in.zappi THEN "Off"
     ELSE IF in.car THEN "Nominal" ELSE "Off"]

\* The two cores of one event.
Process(tick, in) ==
  /\ plan' = Planned(Cleared(plan, tick), in)
  /\ IF in.soc
     THEN /\ schedules' = Rule(plan', in)
          /\ above' = (above \/ Reached(plan', in))
          /\ weighed' = Weighs(plan', in)
     ELSE UNCHANGED <<above, schedules, weighed>>

Tick(in) ==
  /\ ticked' = TRUE
  /\ UNCHANGED <<slot, sun, forecast, soc, cbeMode, edits>>
  /\ Process(TRUE, in)

\* A sunset computed, a forecast fetched, or any other event.
InputEvent(s, f, in) ==
  /\ sun' = s /\ forecast' = f
  /\ UNCHANGED <<slot, ticked, soc, cbeMode, edits>>
  /\ Process(FALSE, in)

KnobEvent(mode, in) ==
  /\ edits < MaxEdits
  /\ edits' = edits + 1 /\ cbeMode' = mode
  /\ UNCHANGED env
  /\ Process(FALSE, in)

\* The retained knobs and above_soc_date are back (see Retained), the rest is
\* new; the schedules stay on the device.
Restart ==
  /\ plan' = NoPlan /\ sun' = "None" /\ forecast' = "None" /\ ticked' = FALSE
  /\ UNCHANGED <<slot, soc, cbeMode, above, schedules, weighed, edits>>

-----------------------------------------------------------------------------
(* The world outside.                                                      *)

\* freshness_forecast, four hours, runs out.
Stale ==
  /\ forecast # "None" /\ forecast' = "None"
  /\ UNCHANGED <<slot, ticked, sun, soc, cbeMode, books, edits>>

\* Variant: a forecast fetched yesterday lasts through the night.
FetchedBeforeKept(s) == forecast

\* By 05:00 a forecast fetched before midnight is more than four hours old.
FetchedBefore(s) ==
  IF s = "Extended" /\ forecast = "Yesterday" THEN "None" ELSE forecast

\* Sun, house and grid: the SoC moves either way.
SocDrifts(v) ==
  /\ v # soc /\ soc' = v
  /\ UNCHANGED <<slot, ticked, sun, forecast, cbeMode, books, edits>>

\* A slot lasts for hours, with many a tick, and the sunset is recomputed every
\* 15 minutes.
ClockEnters ==
  /\ ticked
  /\ slot = "Small" => sun # "Yesterday"
  /\ slot' = Following(slot)
  /\ IF slot = "Dark"
     THEN /\ ticked' = FALSE /\ above' = FALSE /\ weighed' = FALSE
          /\ sun' = IF sun = "Today" THEN "Yesterday" ELSE sun
          /\ forecast' = IF forecast = "Today" THEN "Yesterday" ELSE forecast
          /\ plan' = [plan EXCEPT
               !.stamp = IF @ = "Today" THEN "Before" ELSE @,
               !.basis = IF @ \in {1, 0} THEN @ - 1 ELSE @]
     ELSE /\ forecast' = FetchedBefore(slot')
          /\ UNCHANGED <<ticked, above, weighed, sun, plan>>
  /\ UNCHANGED <<soc, cbeMode, schedules, edits>>

-----------------------------------------------------------------------------
Init ==
  /\ slot \in Slots /\ ticked = FALSE
  /\ sun = "None" /\ forecast = "None" /\ soc \in Socs
  /\ cbeMode \in CbeModes /\ plan = NoPlan /\ above = FALSE
  /\ schedules = [boost |-> "Target", extended |-> "Off"]
  /\ weighed = FALSE /\ edits = 0

Next ==
  \/ \E in \in Inputs :
       \/ Tick(in)
       \/ InputEvent("Today", forecast, in) \/ InputEvent(sun, "Today", in)
       \/ InputEvent(sun, forecast, in)
       \/ \E mode \in CbeModes : KnobEvent(mode, in)
  \/ Restart
  \/ Stale
  \/ \E v \in Socs : SocDrifts(v)
  \/ ClockEnters

Spec == Init /\ [][Next]_vars

-----------------------------------------------------------------------------
\* The flag that keeps the extended window open was made on the same day: at
\* midnight a plan of the day before may stand, but by 05:00 a tick has cleared
\* it or a planner run has replaced it, through forecasts lost and restarts
\* (process.rs 1142-1150, 2607-2609).
ExtendedRestsOnToday ==
  slot = "Extended" /\ plan.extended => plan.stamp = "Today"

PlannedForToday ==
  slot = "Extended" /\ plan' # plan /\ plan'.stamp = "Today" => plan'.basis = 0

\* A plan made in the extended window is for the sun of the same day
\* (process.rs 2396-2408 with topology.rs 39): neither a sunset of yesterday nor
\* a forecast fetched before midnight shifts the column that is read.
PlansAreForToday == [][PlannedForToday]_vars

StayedOff ==
  slot = "Extended" /\ weighed /\ weighed' /\ schedules.extended = "Off" =>
    schedules'.extended = "Off"

\* Once the target was reached in the extended window, schedule 1 stays off as
\* long as that question is asked at all: not a dip of the battery, a higher
\* target, a full charge called for or a restart switches it on again
\* (schedules.rs 155-172).
StaysOffOnceReached == [][StayedOff]_vars
=============================================================================
