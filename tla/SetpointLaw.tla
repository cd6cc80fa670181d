------------------------------ MODULE SetpointLaw ------------------------------
(***************************************************************************)
(* evaluate_setpoint (controllers/setpoint.rs): the grid setpoint in watts *)
(* (negative exports) as a function of the sensors, the knobs and the time *)
(* of day.                                                                 *)
(*                                                                         *)
(* `s` is a scene, the inputs that are not fed back: [slot, hours,         *)
(* lastHour, soc, fullChargeDue, solar, soltaro, consumption, zappiActive, *)
(* allowBatteryToCar, forceDisable, curtailed, exportLimit] and what the   *)
(* plant draws.  Watts, watt-hours, percent and hours are integers: a half *)
(* of a percent tells apart no rung of the ladders, and a quotient of      *)
(* reals is only ever floored.                                             *)
(***************************************************************************)
EXTENDS Integers

CONSTANTS
  Idle,              \* hardware.idle_setpoint_w
  Round,             \* prepare_setpoint rounds to it: 50 W
  MaxDischarge,      \* hardware.inverter_max_discharge_w, as a magnitude
  SafeDischarge,     \* hardware.inverter_safe_discharge_w
  SafeDischargeOn,   \* knob inverter_safe_discharge_enable
  BatteryWh,         \* capacity * soh * nominal voltage
  Baseload,          \* hardware.baseload_consumption_w
  ExportSoc, FullChargeExportSoc,        \* the export_soc_threshold knobs
  DischargeSoc, FullChargeDischargeSoc,  \* the discharge_soc_target knobs
  DrainThreshold, RelaxStep, KpPercent, Probe   \* zappi_battery_drain_* knobs

ASSUME SetpointLawAssumption ==
  /\ {Idle, Round, RelaxStep} \subseteq Nat \ {0}
  /\ {MaxDischarge, SafeDischarge, BatteryWh, Baseload, ExportSoc, FullChargeExportSoc,
      DischargeSoc, FullChargeDischargeSoc, DrainThreshold, KpPercent,
      Probe} \subseteq Nat
  /\ SafeDischargeOn \in BOOLEAN
  /\ Idle < Round
  /\ BatteryWh % 100 = 0

\* The slots of the ladder: 23:55-00:00; 17:00-02:00; 08:00-17:00; 02:00-08:00.
Slots == {"Protection", "Evening", "Day", "Night"}

Lower(x, y) == IF x < y THEN x ELSE y
Higher(x, y) == IF x > y THEN x ELSE y

\* A full charge that is due raises both thresholds.
ExportThreshold(s) == IF s.fullChargeDue THEN FullChargeExportSoc ELSE ExportSoc
EndOfDaySoc(s) ==
  IF s.fullChargeDue THEN Higher(FullChargeDischargeSoc, DischargeSoc)
  ELSE DischargeSoc

-----------------------------------------------------------------------------
(* The car is charging and may not be fed from the battery.                *)

\* What the battery gives beyond the loads that are excluded on purpose.
CompensatedDrain(dc, load) == Higher(0, -dc - load)

DrainLoopRuns(s) == s.zappiActive /\ ~ s.allowBatteryToCar /\ ~ s.forceDisable

\* Solar-only export, and the probe's extra while the MPPTs are curtailed.
DrainLoopGoal(s) ==
  Higher(-(s.solar + IF s.curtailed THEN Probe ELSE 0), -s.exportLimit)

\* Variant: a loop that only relaxes.
DrainLoopRelaxes(s, drain, prev) == Higher(prev - RelaxStep, DrainLoopGoal(s))

\* Variant: a loop that only tightens.
DrainLoopTightens(s, drain, prev) ==
  prev + (KpPercent * Higher(0, drain - DrainThreshold)) \div 100

\* Tighten by kp times the excess, or relax by a step towards the goal.
DrainLoop(s, drain, prev) ==
  IF drain > DrainThreshold
  THEN prev + (KpPercent * (drain - DrainThreshold)) \div 100
  ELSE IF prev < DrainLoopGoal(s) THEN Lower(prev + RelaxStep, DrainLoopGoal(s))
                                  ELSE Higher(prev - RelaxStep, DrainLoopGoal(s))

-----------------------------------------------------------------------------
(* Evening: spread what the battery can spare over the hours that remain.  *)
(* `hours` counts to an hour before the end of the discharge, with 3 kWh   *)
(* in hand; in the last hour to the end.  0 is past the end.               *)

\* Eightieths: round((hours / 10 + 1) * 80) / 80, at most 1.8.
Pessimism(hours) == Lower(144, 8 * hours + 80)

\* Eightieths of a watt-hour above the reserve that `draw` watts leave.
Spare(s, draw) ==
  80 * ((BatteryWh * s.soc) \div 100 - (BatteryWh * EndOfDaySoc(s)) \div 100
        - (IF s.lastHour THEN 0 ELSE 3000))
  - Higher(0, draw * s.hours * Pessimism(s.hours))

EveningSolar(s) ==
  IF s.soltaro THEN 10 + s.solar
  ELSE IF s.soc >= ExportThreshold(s) THEN s.solar ELSE 0

Evening(s) ==
  LET preserve == ExportThreshold(s) = 100 \/ Spare(s, Baseload) < 0
      export80h == Higher(0, Spare(s, s.consumption))
                   + 80 * s.hours * (EveningSolar(s) - s.consumption)
  IN  IF s.hours = 0 THEN Idle
      ELSE Lower(IF preserve THEN 10 ELSE -200, (-export80h) \div (80 * s.hours))

-----------------------------------------------------------------------------
(* Daytime: export a multiple of the solar power that grows with the SoC.  *)

\* Tenths of the solar power, by the percent above the balance point.
PvTenths(s) ==
  LET above == s.soc - (ExportThreshold(s) + 3)
  IN  IF ExportThreshold(s) <= 67
      THEN CASE above >= 20        -> 50
             [] above \in 15 .. 19 -> 25
             [] above \in 10 .. 14 -> 20
             [] above \in 5 .. 9   -> 15
             [] above \in 1 .. 4   -> 11
             [] above = 0          -> 10
             [] above = -1         -> 9
             [] above = -2         -> 8
             [] above < -2         -> 0
      ELSE CASE above >= 15        -> 50
             [] above \in 10 .. 14 -> 30
             [] above \in 2 .. 9   -> 25
             [] above = 1          -> 11
             [] above = 0          -> 10
             [] above = -1         -> 9
             [] above = -2         -> 8
             [] above < -2         -> 0

Day(s) ==
  LET badWeather == s.solar <= 1100
      least == IF badWeather THEN 10 ELSE -200
      margin == IF s.soc < ExportThreshold(s) + 3 THEN 100 ELSE 0
      export10 == Higher(0, (IF badWeather THEN 0 ELSE s.solar * PvTenths(s))
                            - 10 * s.consumption)
  IN  IF ExportThreshold(s) = 100 \/ s.soc < ExportThreshold(s) THEN Idle
      ELSE IF s.soc = ExportThreshold(s) THEN least
      ELSE Lower(least, (10 * margin - export10) \div 10)

-----------------------------------------------------------------------------
\* max_discharge, as a magnitude.
DischargeLimit(s) ==
  IF SafeDischargeOn THEN Lower(MaxDischarge, SafeDischarge + s.solar)
  ELSE MaxDischarge

\* Round half away from zero; whatever is not an export is idle.
Prepare(s, w) ==
  LET x == Higher(w, -DischargeLimit(s))
      rounded == -Round * ((-2 * x + Round) \div (2 * Round))
  IN  IF rounded >= 0 THEN Idle ELSE rounded

Evaluate(s, dc, load, prev) ==
  Prepare(s,
    CASE s.forceDisable  -> Idle
      [] DrainLoopRuns(s) -> DrainLoop(s, CompensatedDrain(dc, load), prev)
      [] OTHER ->
           CASE s.slot = "Evening" -> Evening(s)
             [] s.slot = "Day" -> Day(s)
             [] s.slot \in {"Protection", "Night"} -> Idle)
=============================================================================
