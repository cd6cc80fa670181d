----------------------------- MODULE MCActuator -----------------------------
(* Small instances of Actuator.                                            *)
EXTENDS Actuator

\* 0 and 1 lie inside one dead-band; 1 and 4 inside one confirm tolerance but not
\* inside one dead-band, as 50 W and 25 W allow; 0 and 4 inside neither.
MCValues == {0, 1, 4}
=============================================================================
