----------------------------- MODULE CurrentLimit -----------------------------
(***************************************************************************)
(* The input current limit (controllers/current_limit.rs,                  *)
(* run_current_limit in process.rs), closed over the breaker: the system   *)
(* draws what the limit lets it, the meters report that one at a time, and *)
(* the law computes the limit anew from what it has of them.               *)
(*                                                                         *)
(* All quantities are currents at the grid's voltage, integers in          *)
(* hundredths of an ampere (round2) or coarser.  That a write reaches the  *)
(* device, in spite of losses and the kill switch, is the subject of       *)
(* Actuator; here it takes a while.                                        *)
(***************************************************************************)
EXTENDS Integers

CONSTANTS
  MaxGrid,    \* hardware.max_grid_current_a, the main breaker
  MinSystem,  \* hardware.min_system_current_a
  Ampere,     \* one ampere, in the unit of this module
  Margin,     \* knob zappi_emergency_margin
  Deadband,   \* current_limit_retarget_deadband_a
  Tolerance,  \* current_limit_confirm_tolerance_a
  Scenes,     \* what is not fed back, see AllScenes
  MaxChanges  \* bound: changes of the scene

\* The window: "Charge" is boost, or extended with a charge required.
\* zappi_active; Zappi in mode Fast; zappi_current_target; the effective
\* disable_night_grid_discharge; then the loads on the grid's side of the
\* inverter, the car, the loads behind it, what the battery would take from
\* the grid, and the PV in excess of the loads behind.
AllScenes ==
  [window : {"Charge", "Extended", "Other"}, active : BOOLEAN, fast : BOOLEAN,
   target : Nat, hold : BOOLEAN, house : Nat, car : Nat, offgrid : Nat,
   demand : Nat, pv : Nat]

\* The last conjunct keeps f64::clamp from panicking; it holds of the default
\* hardware and every target in knob_range.
ASSUME CurrentLimitAssumption ==
  /\ MaxGrid \in Nat /\ MinSystem \in Nat /\ Ampere \in Nat \ {0}
  /\ Margin \in Nat /\ Deadband \in Nat /\ Tolerance \in Nat
  /\ Scenes \subseteq AllScenes /\ MaxChanges \in Nat
  /\ \A s \in Scenes : MinSystem + s.target <= MaxGrid

VARIABLES
  scene,
  limit,      \* world.input_current_limit.target.value
  confirmed,  \* its phase is Confirmed
  applied,    \* the limit the inverter keeps
  readings,   \* world.sensors: the last reading of each meter
  changes

limitVars == <<scene, limit, confirmed, applied, readings, changes>>

Higher(a, b) == IF a > b THEN a ELSE b
Lower(a, b) == IF a < b THEN a ELSE b
Between(low, x, high) == Higher(low, Lower(x, high))

-----------------------------------------------------------------------------
(* The house, outside the program.                                         *)

\* What the inverter takes from the grid: in the charge window the loads behind
\* it and what the battery takes, up to the limit.  At other times the setpoint
\* keeps the grid near idle.
Draw == IF scene.window = "Charge"
        THEN Lower(applied, scene.offgrid + scene.demand) ELSE 0

\* Through the breaker.
Grid == scene.house + scene.car + Draw

Charging == scene.window = "Charge" /\ Draw > scene.offgrid

Meters == {"consumption", "offgrid", "grid", "car", "battery"}

\* power_consumption / v, offgrid_power / v with offgrid_current, grid_power / v,
\* evcharger_ac_current, and the sign of battery_dc_power.
AllReadings ==
  [consumption : Int, offgrid : Int, grid : Int, car : Int, battery : BOOLEAN]

Consumption == scene.house + scene.car + scene.offgrid

Present == [consumption |-> Consumption, offgrid |-> scene.offgrid,
            grid |-> Grid, car |-> scene.car, battery |-> Charging]

\* One meter is read.
Reading(meter) ==
  CASE meter = "consumption" -> [readings EXCEPT !.consumption = Consumption]
    [] meter = "offgrid"     -> [readings EXCEPT !.offgrid = scene.offgrid]
    [] meter = "grid"        -> [readings EXCEPT !.grid = Grid]
    [] meter = "car"         -> [readings EXCEPT !.car = scene.car]
    [] OTHER                 -> [readings EXCEPT !.battery = Charging]

-----------------------------------------------------------------------------
(* evaluate_current_limit on the readings r.                               *)

\* ceil to full amperes
Ceil(x) == -((-x) \div Ampere) * Ampere

Underuse(r) == Higher(Ceil(MaxGrid - r.grid), 0)

Gridside(r) == r.consumption - r.offgrid

\* The car is charging fast, or draws more than an ampere whatever its state.
CarCounts(s, r) == (s.active /\ s.fast) \/ r.car > Ampere

\* The car has not yet reached its target.
Ramping(s, r) == r.car <= s.target - Ampere

\* Variant: the car is taken off and its target is not put in its place.
FitWithoutCar(s, r) ==
  Between(MinSystem, MaxGrid - (Gridside(r) - r.car) + Underuse(r), MaxGrid)

\* fit_current
Fit(s, r) ==
  IF CarCounts(s, r)
  THEN Between(MinSystem,
               MaxGrid - (Gridside(r) - r.car) - s.target
                 - (IF Ramping(s, r) THEN Margin ELSE 0) + Underuse(r),
               MaxGrid - s.target)
  ELSE Between(MinSystem, MaxGrid - Gridside(r) + Underuse(r), MaxGrid)

\* Variant: a battery that does not charge is taken for a full one.
BranchOfFull(s, r) ==
  IF s.window = "Charge"
  THEN IF r.battery THEN Fit(s, r) ELSE r.offgrid
  ELSE IF s.active THEN s.pv
  ELSE IF s.hold /\ s.window = "Extended" THEN r.offgrid
  ELSE MaxGrid

Branch(s, r) ==
  IF s.window = "Charge"
  THEN IF r.battery THEN Fit(s, r)
       ELSE IF s.active \/ s.hold THEN r.offgrid
       ELSE MaxGrid
  ELSE IF s.active THEN s.pv
  ELSE IF s.hold /\ s.window = "Extended" THEN r.offgrid
  ELSE MaxGrid

Evaluate(s, r) == Between(0, Branch(s, r), MaxGrid)

-----------------------------------------------------------------------------
(* run_current_limit: nothing without all sensors, and a confirmed limit   *)
(* stands within the dead-band.                                            *)

Near(a, b, d) == a - b < d /\ b - a < d

\* The core, in an event that left the phase Confirmed or not.
RunCurrentLimit(settled, usable) ==
  LET value == Evaluate(scene, readings')
      stands == settled /\ Near(limit, value, Deadband)
  IN  /\ limit' = IF usable /\ ~ stands THEN value ELSE limit
      /\ confirmed' = (settled /\ limit' = limit)
      /\ UNCHANGED <<scene, applied, changes>>

\* A meter's reading comes; all sensors may be usable then, or some not.
Read(meter, usable) ==
  /\ readings' = Reading(meter)
  /\ RunCurrentLimit(confirmed, usable)

\* The readback of the register, and any other event.
Readback(usable) ==
  /\ readings' = readings
  /\ RunCurrentLimit(confirmed \/ Near(applied, limit, Tolerance + 1), usable)

Tick(usable) ==
  /\ readings' = readings
  /\ RunCurrentLimit(confirmed, usable)

\* The write is executed.
Apply ==
  /\ applied # limit
  /\ applied' = limit
  /\ UNCHANGED <<scene, limit, confirmed, readings, changes>>

\* Loads, knobs, the car and the hour change, all at once.
SceneChanges(s) ==
  /\ s # scene /\ changes < MaxChanges
  /\ scene' = s /\ changes' = changes + 1
  /\ UNCHANGED <<limit, confirmed, applied, readings>>

LimitInit ==
  /\ scene \in Scenes
  /\ limit = MaxGrid /\ applied = MaxGrid /\ confirmed = FALSE
  /\ readings = Present /\ changes = 0

LimitNext ==
  \/ \E usable \in BOOLEAN :
       \/ \E meter \in Meters : Read(meter, usable)
       \/ Readback(usable)
       \/ Tick(usable)
  \/ Apply
  \/ \E s \in Scenes : SceneChanges(s)

LimitSpec == LimitInit /\ [][LimitNext]_limitVars

\* Every meter is read again and again, at times with all sensors usable, and
\* the inverter executes what is written.
LimitFairness ==
  /\ \A meter \in Meters : WF_limitVars(Read(meter, TRUE))
  /\ WF_limitVars(Apply)

LimitFairSpec == LimitSpec /\ LimitFairness

-----------------------------------------------------------------------------
(* Properties.                                                             *)

LimitTypeOK ==
  /\ scene \in Scenes
  /\ limit \in 0 .. MaxGrid /\ applied \in 0 .. MaxGrid
  /\ confirmed \in BOOLEAN
  /\ readings \in AllReadings /\ changes \in 0 .. MaxChanges

\* What is to be left for the car: its target if it counts, or what it draws.
ForCar(s, r) == IF CarCounts(s, r) THEN s.target ELSE r.car

\* What the grid's side takes by the readings r, with the car at its target.
Committed(s, r) == Gridside(r) - r.car + ForCar(s, r)

SeesOverload ==
  /\ \E meter \in Meters : Read(meter, TRUE)
  /\ scene.window = "Charge" /\ readings'.battery
  /\ readings'.grid >= MaxGrid

LimitMakesRoom ==
  SeesOverload /\ Committed(scene, readings') + MinSystem <= MaxGrid =>
    Committed(scene, readings') + limit' <= MaxGrid + Deadband

\* An event that finds the breaker at its rating while the battery is charged
\* leaves a limit under which, by the same readings and with the car taking all
\* of its target, the rating is kept up to the dead-band - unless the floor of
\* the limit forbids it (current_limit.rs 298-330, topology.rs 89-92).
OverloadIsCut == [][LimitMakesRoom]_limitVars

\* The loads of the scene leave room for the loads behind the inverter.
Fits(s) ==
  LET car == IF (s.active /\ s.fast) \/ s.car > Ampere THEN s.target ELSE s.car
  IN  /\ s.car <= car
      /\ s.house + car + Higher(MinSystem, s.offgrid) <= MaxGrid

\* Where the loads fit, the breaker does not stay overloaded, whatever mix of
\* old and new readings the limit was computed from: once they are steady it is
\* kept to its rating up to an ampere (the relaxation is rounded up) and the
\* dead-band (current_limit.rs 298-330 over run_current_limit's dead-band).
OverloadEnds ==
  \A s \in Scenes :
    Fits(s) /\ <>[](scene = s) => <>[](Grid < MaxGrid + Ampere + Deadband)

\* A battery that wants to charge in the window is charged in the end, when no
\* car is active and discharge is not held, however low the limit was: nothing
\* else raises it (current_limit.rs 236-249).
ChargeGoesOn ==
  \A s \in Scenes :
    /\ s.window = "Charge" /\ ~ s.active /\ ~ s.hold /\ s.demand > 0
    /\ Fits([s EXCEPT !.offgrid = @ + 1])
    /\ <>[](scene = s)
    => <>[]Charging

\* The same with the car active.  It fails: one event that finds the battery not
\* charging caps the limit at the current of the loads behind the inverter, and
\* under that limit the battery cannot begin (current_limit.rs 239).
ChargeGoesOnWithCar ==
  \A s \in Scenes :
    /\ s.window = "Charge" /\ s.active /\ s.demand > 0
    /\ Fits([s EXCEPT !.offgrid = @ + 1])
    /\ <>[](scene = s)
    => []<>Charging
=============================================================================
