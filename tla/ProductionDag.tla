---------------------------- MODULE ProductionDag ----------------------------
(***************************************************************************)
(* The dependency graph the program ships with (core_dag/cores.rs), next   *)
(* to the reads the cores really make: a core reads another core's output  *)
(* when it uses a field of the world that the other one assigns, declared  *)
(* as an edge or not.                                                      *)
(***************************************************************************)
EXTENDS CoreDag

ZappiActive == 0
Setpoint == 1
CurrentLimit == 2
Schedules == 3
ZappiMode == 4
EddiMode == 5
WeatherSoc == 6
EssStateOverride == 7
SensorBroadcast == 8

ProductionIds == ZappiActive .. SensorBroadcast

\* production_cores registers them by discriminant; any other way round must
\* not matter.
Rotation(k) == [i \in 1 .. 9 |-> (i + k) % 9]
ProductionRegistrations ==
  UNION {{Rotation(k), [i \in 1 .. 9 |-> Rotation(k)[10 - i]]} : k \in 0 .. 8}

\* Variant: the schedules no longer wait for the weather plan.
SchedulesDepsBeforeAudit == {ZappiActive, Setpoint}

\* depends_on of every core that has edges.
SetpointDeps == {ZappiActive}
CurrentLimitDeps == {ZappiActive, Setpoint, Schedules}
SchedulesDeps == {ZappiActive, Setpoint, WeatherSoc}
WeatherSocDeps == {Setpoint}
EssStateOverrideDeps == {Setpoint}
SensorBroadcastDeps == ProductionIds \ {SensorBroadcast}

Declared ==
  [c \in ProductionIds |->
     CASE c = Setpoint -> SetpointDeps
       [] c = CurrentLimit -> CurrentLimitDeps
       [] c = Schedules -> SchedulesDeps
       [] c = WeatherSoc -> WeatherSocDeps
       [] c = EssStateOverride -> EssStateOverrideDeps
       [] c = SensorBroadcast -> SensorBroadcastDeps
       [] OTHER -> {}]

\* What each core reads of what another one writes.  The setpoint takes its
\* export and discharge thresholds from the weather plan (weather_soc_*) and
\* arms its hard clamp on the zappi target; the current limit's night rule
\* comes from the weather plan.
SetpointReads == {ZappiActive, WeatherSoc, ZappiMode}
CurrentLimitReads == {ZappiActive, Setpoint, Schedules, WeatherSoc}
SchedulesReads == {ZappiActive, Setpoint, WeatherSoc}

Reads == [Declared EXCEPT ![Setpoint] = SetpointReads,
                          ![CurrentLimit] = CurrentLimitReads,
                          ![Schedules] = SchedulesReads]

\* The reads that go against the order: the setpoint runs before both.
Lagging == {<<Setpoint, WeatherSoc>>, <<Setpoint, ZappiMode>>}

\* In the graph the program ships every core reads what the others wrote for
\* the same event, declared or not, except that the setpoint sees the weather
\* plan and the zappi target of exactly one event ago (process.rs 1386-1486).
ReadsAreCurrent ==
  deps = Declared /\ Ids = ProductionIds =>
    \A c \in ProductionIds : stamp[c] = tick =>
      \A d \in Reads[c] :
        seen[c][d] = IF <<c, d>> \in Lagging THEN tick - 1 ELSE tick
=============================================================================
