------------------------------ MODULE MCSetpoint ------------------------------
(* A small instance of Setpoint: the battery, the powers and the knobs are  *)
(* scaled down, the rounding and the dead-band are the program's.           *)
EXTENDS Setpoint

\* The last hour of the evening, with a battery to empty and no car.
MCEvening == [
  slot |-> "Evening", hours |-> 1, lastHour |-> TRUE, soc |-> 60,
  fullChargeDue |-> FALSE, solar |-> 0, soltaro |-> FALSE, consumption |-> 100,
  zappiActive |-> FALSE, allowBatteryToCar |-> FALSE, forceDisable |-> FALSE,
  curtailed |-> FALSE, exportLimit |-> 200, car |-> 0, load |-> 0]

MCCharging == [MCEvening EXCEPT !.zappiActive = TRUE, !.consumption = 0,
                                !.solar = 100, !.car = 250]

MCScenes == {
  MCEvening,
  [MCCharging EXCEPT !.exportLimit = 30],
  [MCCharging EXCEPT !.car = 0, !.load = 100, !.curtailed = TRUE],
  [MCCharging EXCEPT !.forceDisable = TRUE] }

MCBridgeScenes == {MCCharging, [MCCharging EXCEPT !.load = 150]}
=============================================================================
