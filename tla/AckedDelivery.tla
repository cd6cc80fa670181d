--------------------------- MODULE AckedDelivery ----------------------------
(***************************************************************************)
(* What an actuator promises to the rest of the controller, without        *)
(* phases, retries or clocks: at-least-once delivery of the latest goal.   *)
(* A goal stays open until a report of the device matches it; while it is  *)
(* open it may be ordered any number of times; an order always carries the *)
(* goal that is open; nothing else is ever ordered.                        *)
(***************************************************************************)
EXTENDS Integers

CONSTANTS Values, Owners, None, Tol

VARIABLES
  goal,    \* the goal in force, or None
  open,    \* TRUE until a report has matched the goal
  order,   \* the order on its way to the device, or None
  report   \* the value the device last reported, or None

vars == <<goal, open, order, report>>

Goals == [value : Values, owner : Owners]

Matches(v, r) == v - r <= Tol /\ r - v <= Tol

Init == goal = None /\ open = FALSE /\ order = None /\ report = None

\* A goal comes into force, new or asked for once more (a retry, or a closed
\* goal that the kill switch reopens), and is ordered at once or not.
Ask(g) ==
  /\ order = None
  /\ goal' = g
  /\ open' = TRUE
  /\ order' \in {None, g.value}
  /\ report' \in Values \union {None}

\* A report arrives that matches the open goal: it is done.
Acknowledge ==
  /\ open
  /\ order = None
  /\ report' \in Values
  /\ Matches(goal.value, report')
  /\ open' = FALSE
  /\ UNCHANGED <<goal, order>>

\* A report that changes nothing.
Report ==
  /\ order = None
  /\ report' \in Values
  /\ UNCHANGED <<goal, open, order>>

\* The order leaves, whatever becomes of it.
Leave ==
  /\ order # None
  /\ order' = None
  /\ UNCHANGED <<goal, open, report>>

\* The goal is withdrawn (kill-switch edge without a controller output, or a
\* restart); only a restart forgets the report and the order with it.
Withdraw ==
  /\ goal' = None
  /\ open' = FALSE
  /\ order' = None
  /\ report' \in {report, None}

Next ==
  \/ \E g \in Goals : Ask(g)
  \/ Acknowledge
  \/ Report
  \/ Leave
  \/ Withdraw

Spec == Init /\ [][Next]_vars
=============================================================================
