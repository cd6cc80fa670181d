---------------------------- MODULE MCCurrentLimit ----------------------------
(* A small instance of CurrentLimit, in half amperes.                       *)
EXTENDS CurrentLimit

\* The night without a car, the battery empty.
MCNight == [
  window |-> "Charge", active |-> FALSE, fast |-> FALSE, target |-> 6,
  hold |-> FALSE, house |-> 3, car |-> 0, offgrid |-> 3, demand |-> 30, pv |-> 0]

\* A car charging fast.
MCFast == [MCNight EXCEPT !.active = TRUE, !.fast = TRUE, !.car = 6]

\* A cooker is switched on; the battery is full; the car ramps up, charges in
\* Eco, or draws more than its target; night discharge is held; the day, with
\* PV for the car.
MCScenes == {
  MCNight, MCFast,
  [MCNight EXCEPT !.house = 12],
  [MCNight EXCEPT !.demand = 0],
  [MCNight EXCEPT !.car = 5],
  [MCFast EXCEPT !.car = 1],
  [MCFast EXCEPT !.car = 9, !.house = 6],
  [MCNight EXCEPT !.hold = TRUE, !.window = "Extended"],
  [MCFast EXCEPT !.window = "Other", !.pv = 5] }
=============================================================================
