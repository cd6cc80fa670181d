-------------------------------- MODULE Setpoint --------------------------------
(***************************************************************************)
(* The grid setpoint: the law of SetpointLaw closed over the battery it    *)
(* steers.  run_setpoint evaluates the law in every event, from the last   *)
(* setpoint, the last reading of the battery power and the last readings   *)
(* of the excluded loads; adds the Fast-mode hard clamp; clips to the grid *)
(* caps; and proposes the result behind the dead-band (process.rs).        *)
(*                                                                         *)
(* Writes are on and none is lost: what a lost, late or suppressed write   *)
(* does is Actuator's subject.  Of the target's phase only Confirmed is    *)
(* told apart.  The heat pump and the cooker are one load.                 *)
(***************************************************************************)
EXTENDS SetpointLaw

CONSTANTS
  None,
  Scenes,           \* the inputs that are not fed back: see SetpointLaw
  HardClamp,        \* knob zappi_battery_drain_hard_clamp_w
  ImportLimit,      \* knob grid_import_limit_w
  ExportMax,        \* hardware.grid_export_knob_max_w
  ImportMax,        \* hardware.grid_import_knob_max_w
  Deadband,         \* setpoint_retarget_deadband_w
  Tolerance         \* setpoint_confirm_tolerance_w

\* A scene also has what the plant draws besides: [car, load].
ASSUME SetpointAssumption ==
  /\ {HardClamp, ImportLimit, ExportMax, ImportMax, Deadband, Tolerance} \subseteq Nat
  /\ \A s \in Scenes :
       /\ {s.hours, s.soc, s.exportLimit, s.solar, s.consumption, s.car,
           s.load} \subseteq Nat
       /\ s.slot \in Slots
  /\ None \notin Int

VARIABLES
  setpoint,    \* world.grid_setpoint.target.value
  confirmed,   \* its phase is Confirmed
  applied,     \* the setpoint the inverter follows
  scene,       \* the other inputs
  usable,      \* the nine required sensors are usable
  dc,          \* sensors.battery_dc_power, the last reading
  load,        \* sensors.heat_pump_power and cooker_power: [value, fresh]
  fast         \* world.zappi_mode.target is Fast

inputs == <<scene, usable, dc, load>>
vars == <<setpoint, confirmed, applied, inputs, fast>>

\* The battery's power when the inverter holds the grid at w: negative drains.
BatteryPower(s, w) == s.solar + w - s.consumption - s.car - s.load

\* What the battery in fact gives to anything but the excluded load.
Drain(s, w) == CompensatedDrain(BatteryPower(s, w), s.load)

-----------------------------------------------------------------------------
(* run_setpoint                                                            *)

\* Variant: the clamp does not ask whether the car is charging.
HardClampEngagedAnyway(s, isFast, drain) ==
  isFast /\ ~ s.allowBatteryToCar /\ drain > HardClamp

HardClampEngaged(s, isFast, drain) ==
  isFast /\ ~ s.allowBatteryToCar /\ s.zappiActive /\ drain > HardClamp

HardClamped(s, isFast, drain, w) ==
  IF HardClampEngaged(s, isFast, drain) THEN w + (drain - HardClamp) ELSE w

ExportCap(s) == Lower(s.exportLimit, ExportMax)
ImportCap == Lower(ImportLimit, ImportMax)

\* Variant: only the export side is clipped.
GridCappedBelow(s, w) ==
  IF Higher(w, -ExportCap(s)) = 0 /\ w < 0 THEN 10 ELSE Higher(w, -ExportCap(s))

\* Clip to the caps; an export that is clipped away becomes the idle command.
GridCapped(s, w) ==
  LET clipped == Lower(Higher(w, -ExportCap(s)), ImportCap)
  IN  IF w < 0 /\ clipped = 0 THEN 10 ELSE clipped

\* Variant: without its sensors the controller holds the last setpoint.
ProposalKept(s, ok, d, l, prev) ==
  IF ok THEN GridCapped(s, HardClamped(s, fast, CompensatedDrain(d, l.value),
                                       Evaluate(s, d, l.value, prev)))
  ELSE prev

\* The last value of the load counts, fresh or not.  apply_setpoint_safety:
\* without its sensors the controller proposes 10 W.
Proposal(s, ok, d, l, prev) ==
  IF ok THEN GridCapped(s, HardClamped(s, fast, CompensatedDrain(d, l.value),
                                       Evaluate(s, d, l.value, prev)))
  ELSE 10

\* Within the dead-band of a confirmed target nothing is proposed.
Keeps(w, c) ==
  \/ w = setpoint
  \/ c /\ w - setpoint < Deadband /\ setpoint - w < Deadband

\* process(): the event has made the inputs s, ok, d and l, and the phase
\* Confirmed if c.  ZappiMode runs after Setpoint, which finds the mode of the
\* event before.
Process(s, ok, d, l, c) ==
  /\ \E w \in {Proposal(s, ok, d, l, IF setpoint = None THEN Idle ELSE setpoint)} :
       /\ setpoint' = IF Keeps(w, c) THEN setpoint ELSE w
       /\ confirmed' = (c /\ Keeps(w, c))
  /\ scene' = s /\ usable' = ok /\ dc' = d /\ load' = l

-----------------------------------------------------------------------------
(* Events.                                                                 *)

\* A tick, or any event that leaves the inputs alone.  The mode moves with the
\* clock and its knobs.
TickEvent ==
  /\ Process(scene, usable, dc, load, confirmed)
  /\ fast' \in BOOLEAN
  /\ UNCHANGED applied

\* The sun, the house, the car, a knob or the time of day.
SceneEvent(s) ==
  /\ s # scene
  /\ Process(s, usable, dc, load, confirmed)
  /\ fast' \in BOOLEAN
  /\ UNCHANGED applied

\* A required sensor goes stale, or all are back.
UsableEvent(ok) ==
  /\ ok # usable
  /\ Process(scene, ok, dc, load, confirmed)
  /\ UNCHANGED <<applied, fast>>

DcReading ==
  /\ Process(scene, usable, BatteryPower(scene, applied), load, confirmed)
  /\ UNCHANGED <<applied, fast>>

LoadReading ==
  /\ Process(scene, usable, dc, [value |-> scene.load, fresh |-> TRUE], confirmed)
  /\ UNCHANGED <<applied, fast>>

\* The bridge is silent for the sensor's staleness threshold: Actual::tick
\* keeps the value.
LoadStale ==
  /\ load.fresh
  /\ Process(scene, usable, dc, [load EXCEPT !.fresh = FALSE], confirmed)
  /\ UNCHANGED <<applied, fast>>

\* GridSetpoint read back: confirms within the tolerance.
SetpointReading ==
  /\ LET close == /\ setpoint # None
                  /\ applied - setpoint <= Tolerance
                  /\ setpoint - applied <= Tolerance
     IN  Process(scene, usable, dc, load, confirmed \/ close)
  /\ UNCHANGED <<applied, fast>>

\* The inverter follows the written setpoint.
Apply ==
  /\ setpoint # None
  /\ applied' = setpoint
  /\ UNCHANGED <<setpoint, confirmed, inputs, fast>>

-----------------------------------------------------------------------------
Init ==
  /\ setpoint = None
  /\ confirmed = FALSE
  /\ applied = Idle
  /\ scene \in Scenes
  /\ usable = FALSE
  /\ dc = 0
  /\ load = [value |-> 0, fresh |-> FALSE]
  /\ fast = FALSE

Next ==
  \/ TickEvent
  \/ \E s \in Scenes : SceneEvent(s)
  \/ \E ok \in BOOLEAN : UsableEvent(ok)
  \/ DcReading
  \/ LoadReading
  \/ LoadStale
  \/ SetpointReading
  \/ Apply

Spec == Init /\ [][Next]_vars

\* The clock ticks, the battery is read again and again (a signal and a poll
\* every few seconds), the inverter takes what is written.
Fairness == WF_vars(TickEvent) /\ WF_vars(DcReading) /\ WF_vars(Apply)

FairSpec == Spec /\ Fairness

-----------------------------------------------------------------------------
(* Properties.                                                             *)

TypeOK ==
  /\ setpoint \in Int \union {None} /\ confirmed \in BOOLEAN
  /\ confirmed => setpoint # None
  /\ applied \in Int /\ dc \in Int
  /\ scene \in Scenes
  /\ usable \in BOOLEAN /\ fast \in BOOLEAN
  /\ load \in [value : Nat, fresh : BOOLEAN]

\* Whatever the ladder, the drain loop and a held target do, the setpoint in
\* force respects the grid caps of the present knobs, up to the dead-band
\* (SPEC 5.11).
CapsHeld ==
  setpoint # None =>
    /\ setpoint >= -ExportCap(scene) - Deadband
    /\ setpoint <= Higher(ImportCap, 10) + Deadband

\* No export survives the loss of a required sensor or the export kill switch,
\* beyond the dead-band: not the last setpoint, nor the loop's memory of it.
ExportStopsWhenTold ==
  (setpoint # None /\ (~ usable \/ scene.forceDisable)) =>
    setpoint >= -Deadband

\* A setpoint above idle has a reason: Fast mode, the car charging, the battery
\* not allowed to it, and a drain above the clamp.
ImportWarranted ==
  (setpoint' # setpoint /\ setpoint' # None /\ setpoint' > Higher(Idle, 10)) =>
    /\ fast
    /\ scene'.zappiActive /\ ~ scene'.allowBatteryToCar
    /\ CompensatedDrain(dc', load'.value) > HardClamp

\* The grid is drawn on to spare the battery in that one case only: not by the
\* soft loop's windup, nor by a clamp left armed (PR-ZD-4).
ImportOnlyByHardClamp == [][ImportWarranted]_vars

\* Rounding and the dead-band swallow corrections below one rounding step.
Slack == (100 * Round) \div KpPercent

SceneSettles == <>[][FALSE]_scene
LoopRunsInformed == usable /\ DrainLoopRuns(scene) /\ load.value = scene.load
CutBack ==
  \/ Drain(scene, applied) <= DrainThreshold + Slack
  \/ applied >= Lower(Idle, ImportCap)

\* With the car charging and nothing else changing, exports are cut back again
\* and again until the battery no longer feeds the car, or to nothing, though
\* the loop runs in every event and on readings older than its last step.
DrainIsCutBack ==
  SceneSettles /\ <>[]LoopRunsInformed => []<>CutBack

\* When solar-only export drains nothing the loop gets there and stays.
SolarIsExported ==
  ( /\ SceneSettles
    /\ <>[]( /\ LoopRunsInformed
             /\ Drain(scene, DrainLoopGoal(scene)) <= Lower(DrainThreshold, HardClamp) ) )
  => <>[](setpoint # None /\ setpoint <= DrainLoopGoal(scene) + Round)

\* The plan of the drain loop (docs/drafts/20260429-1700-m-zappi-drain-plan.md
\* 422): with the loads' bridge dead, stale counts 0, "not last value", and
\* the clamp is tighter: the loop still cuts back whatever the battery gives.
DeadBridgeTightens ==
  ( /\ SceneSettles
    /\ <>[](usable /\ DrainLoopRuns(scene) /\ ~ load.fresh) )
  => []<>CutBack
=============================================================================
