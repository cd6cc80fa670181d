---------------------------- MODULE MCScheduleFeed ----------------------------
(* Small instances of ScheduleFeed: two fields are enough to mix two        *)
(* schedules.  The SoC is 80 %, 88 %, or 87.5 %, which is rounded to 88.     *)
EXTENDS ScheduleFeed

MCFieldOrder == <<"start", "soc">>
Schedule(start, soc) == [start |-> start, soc |-> soc]
MCValues == {Schedule(start, soc) : start \in {0, 1}, soc \in {160, 175, 176}}

\* A goal, and another one that is the same on the bus.
MCTwins == {Schedule(0, 175), Schedule(0, 176)}
MCSpecs == {Schedule(0, 160), Schedule(0, 176), Schedule(1, 176)}
MCFraction == {Schedule(0, 175)}
=============================================================================
