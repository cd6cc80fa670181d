------------------------------ MODULE EssState ------------------------------
(***************************************************************************)
(* The daytime ESS-state actuator: the override controller                 *)
(* (controllers/ess_state_override.rs), the core that proposes and writes  *)
(* its target (EssStateOverrideCore in core_dag/cores.rs), its readback    *)
(* and the kill switch (process.rs), and the sunrise/sunset scheduler that *)
(* feeds it (shell/src/forecast/sunrise_sunset.rs).                        *)
(*                                                                         *)
(* It differs from the actuators of module Actuator in what it leaves out: *)
(* the core returns when the target did not change, so nothing is retried, *)
(* and the kill-switch edge does not reset this target.  Nothing reads the *)
(* ages of its record, so they stay 0.  As there, the program may start    *)
(* with any value in the register, be restarted, lose writes, and find the *)
(* register changed by others.                                             *)
(***************************************************************************)
EXTENDS Integers, Sequences, Tass

CONSTANTS
  DayLength,   \* slots of a day; the clock is a slot
  Offset,      \* knob sunrise_sunset_offset_min, in slots
  Days,        \* the <<sunrise, sunset>> pairs the season can bring
  SunFresh,    \* SUNRISE_SUNSET_FRESHNESS, in slots
  MaxLost,     \* bound: writes that never reach the register
  MaxForeign,  \* bound: changes of the register by others
  MaxFlips,    \* bound: kill-switch commands between two restarts
  InboxCap     \* bound: readbacks waiting in the event channel

Keep == 9          \* ESS_STATE_KEEP_BATTERIES_CHARGED
Optimized == 10    \* ESS_STATE_OPTIMIZED

Controller == "EssStateOverrideController"

ASSUME EssAssumption ==
  /\ {Keep, Optimized} \subseteq Values
  /\ Controller \in Owners
  /\ DayLength \in Nat \ {0}
  /\ Offset \in Nat /\ SunFresh \in Nat
  /\ MaxLost \in Nat /\ MaxForeign \in Nat /\ MaxFlips \in Nat /\ InboxCap \in Nat
  /\ Days \subseteq (0 .. DayLength - 1) \X (0 .. DayLength - 1)

VARIABLES
  target, actual,   \* world.ess_state_target
  writesEnabled,    \* world.knobs.writes_enabled
  enabled,          \* knob keep_batteries_charged_during_full_charge
  required,         \* bookkeeping.charge_to_full_required
  sun,              \* world.sunrise/sunset/updated_at, or None
  now,              \* local time of day
  reported,         \* phase of the last ActuatedPhase publish
  outbox,           \* the WriteDbus being dispatched, or None
  device,           \* the ESS state of the hub4 service
  inbox,            \* readbacks on their way to the core
  lost, foreign, flips,   \* how often each bounded thing happened
  lastWrite,        \* history: the last value written since boot, or None
  observed          \* history: writes were off at some time since lastWrite

inputs == <<writesEnabled, enabled, required, sun>>
core == <<target, actual, reported, lastWrite, observed>>
vars == <<core, inputs, now, outbox, device, inbox, lost, foreign, flips>>

Suns == [rise : Int, set : Int, age : 0 .. SunFresh + 1]

-----------------------------------------------------------------------------
\* Variant: the daylight window is not checked.
OverrideDayAndNight(k, req, s, t) ==
  IF k /\ req /\ s # None /\ s.age <= SunFresh THEN Keep ELSE Optimized

\* evaluate_ess_state_override: 9 on a full-charge day inside the fresh and
\* non-empty daylight window, 10 otherwise.
Override(k, req, s, t) ==
  IF /\ k /\ req
     /\ s # None /\ s.age <= SunFresh
     /\ s.rise + Offset < s.set - Offset
     /\ s.rise + Offset <= t /\ t < s.set - Offset
  THEN Keep ELSE Optimized

\* Variant: proposing again counts as a change.
ActsAlways(t, w) == TRUE

\* Variant: a target is not superseded while its write is unconfirmed.
ActsUnlessCommanded(t, w) ==
  ProposeChanges(t, w, Controller) /\ t.phase # "Commanded"

Acts(t, w) == ProposeChanges(t, w, Controller)

\* EssStateOverrideCore::run on the entity <<t, a>> that the event left behind;
\* `rep` is the phase published so far, `live` the kill switch.
Process(t, a, live, k, req, s, rep) ==
  LET w == Override(k, req, s, now)
      proposed == ProposeTarget(t, w, Controller)
      writes == Acts(t, w) /\ live
  IN  /\ outbox = None
      /\ target' = IF writes THEN MarkCommanded(proposed) ELSE proposed
      /\ actual' = IF writes THEN MarkCommandedActual(proposed, a) ELSE a
      /\ outbox' = IF writes THEN w ELSE None
      /\ lastWrite' = IF writes THEN w ELSE lastWrite
      /\ observed' = (~ live \/ (observed /\ ~ writes))
      /\ reported' = IF Acts(t, w) THEN target'.phase ELSE rep
      /\ writesEnabled' = live
      /\ enabled' = k
      /\ required' = req
      /\ sun' = s

-----------------------------------------------------------------------------
\* Event::Tick, and every event that leaves this actuator's inputs alone.
Tick ==
  /\ Process(target, actual, writesEnabled, enabled, required, sun, reported)
  /\ UNCHANGED <<now, device, inbox, lost, foreign, flips>>

\* The knob, or the setpoint core's charge_to_full_required, changes.
Decide(k, req) ==
  /\ Process(target, actual, writesEnabled, k, req, sun, reported)
  /\ UNCHANGED <<now, device, inbox, lost, foreign, flips>>

\* Event::SunriseSunset for the current day.
SunEvent(d) ==
  /\ LET s == [rise |-> d[1], set |-> d[2], age |-> 0]
     IN  Process(target, actual, writesEnabled, enabled, required, s, reported)
  /\ UNCHANGED <<now, device, inbox, lost, foreign, flips>>

\* Event::Sensor(EssState): record, confirm on equality, publish.
ReadingEvent ==
  /\ inbox # <<>>
  /\ LET a == OnReading(Head(inbox), 0)
         t == ConfirmIf(target, a, target.value = a.value, 0)
         rep == IF t.phase # target.phase THEN t.phase ELSE reported
     IN  Process(t, a, writesEnabled, enabled, required, sun, rep)
  /\ inbox' = Tail(inbox)
  /\ UNCHANGED <<now, device, lost, foreign, flips>>

\* Command::KillSwitch: this target is not among those the edge resets.
KillSwitch(live) ==
  /\ flips < MaxFlips
  /\ flips' = flips + 1
  /\ Process(target, actual, live, enabled, required, sun, reported)
  /\ UNCHANGED <<now, device, inbox, lost, foreign>>

WriteOk ==
  /\ outbox # None
  /\ device' = outbox
  /\ outbox' = None
  /\ UNCHANGED <<core, inputs, now, inbox, lost, foreign, flips>>

\* Throttled, refused, timed out or dry run.
WriteLost ==
  /\ outbox # None
  /\ lost < MaxLost
  /\ lost' = lost + 1
  /\ outbox' = None
  /\ UNCHANGED <<core, inputs, now, device, inbox, foreign, flips>>

Readback ==
  /\ Len(inbox) < InboxCap
  /\ inbox' = Append(inbox, device)
  /\ UNCHANGED <<core, inputs, now, outbox, device, lost, foreign, flips>>

\* The GX console or another program sets the ESS state.
ForeignWrite(v) ==
  /\ foreign < MaxForeign
  /\ foreign' = foreign + 1
  /\ device' = v
  /\ UNCHANGED <<core, inputs, now, outbox, inbox, lost, flips>>

\* Time passes; at midnight yesterday's sun moves a day back.
Elapse ==
  /\ now' = (now + 1) % DayLength
  /\ sun' = IF sun = None THEN None
            ELSE LET shift == IF now' = 0 THEN DayLength ELSE 0
                 IN  IF sun.age > SunFresh THEN sun
                     ELSE [rise |-> sun.rise - shift, set |-> sun.set - shift,
                           age |-> sun.age + 1]
  /\ UNCHANGED <<core, writesEnabled, enabled, required, outbox, device, inbox,
                 lost, foreign, flips>>

-----------------------------------------------------------------------------
\* World::fresh_boot: observer mode, nothing known and nothing proposed; the
\* register holds whatever it holds.
Init ==
  /\ target = UnsetTarget
  /\ actual = UnknownActual
  /\ writesEnabled = FALSE
  /\ enabled = FALSE
  /\ required = FALSE
  /\ sun = None
  /\ now = 0
  /\ reported = "Unset"
  /\ outbox = None
  /\ device \in Values
  /\ inbox = <<>>
  /\ lost = 0 /\ foreign = 0 /\ flips = 0
  /\ lastWrite = None
  /\ observed = TRUE

\* The supervisor starts the program anew, with a fresh world: a write being
\* dispatched dies with it, the register and the time of day stay.  What MQTT
\* retained (the switch, the knob) comes back as events.
Reboot ==
  /\ target' = UnsetTarget
  /\ actual' = UnknownActual
  /\ writesEnabled' = FALSE
  /\ enabled' = FALSE
  /\ required' = FALSE
  /\ sun' = None
  /\ reported' = "Unset"
  /\ outbox' = None
  /\ inbox' = <<>>
  /\ flips' = 0
  /\ lastWrite' = None
  /\ observed' = TRUE
  /\ UNCHANGED <<now, device, lost, foreign>>

Next ==
  \/ Tick
  \/ \E k, req \in BOOLEAN : Decide(k, req)
  \/ \E d \in Days : SunEvent(d)
  \/ ReadingEvent
  \/ \E live \in BOOLEAN : KillSwitch(live)
  \/ WriteOk
  \/ WriteLost
  \/ Readback
  \/ \E v \in Values : ForeignWrite(v)
  \/ Elapse
  \/ Reboot

\* The interval timer keeps ticking, time passes, the reseed scheduler polls
\* the hub4 service, and the runtime takes every event it is sent; a write
\* that is not lost is applied.
Fairness ==
  /\ SF_vars(Tick)
  /\ SF_vars(ReadingEvent)
  /\ WF_vars(Readback)
  /\ WF_vars(Elapse)
  /\ WF_vars(WriteOk)

Spec == Init /\ [][Next]_vars
FairSpec == Spec /\ Fairness

-----------------------------------------------------------------------------
(* Properties.                                                             *)

TypeOK ==
  /\ target \in Targets({0})
  /\ actual \in Actuals({0})
  /\ writesEnabled \in BOOLEAN /\ enabled \in BOOLEAN /\ required \in BOOLEAN
  /\ sun # None => sun \in Suns
  /\ now \in 0 .. DayLength - 1
  /\ reported \in Phases
  /\ outbox \in {None, Keep, Optimized}
  /\ device \in Values
  /\ inbox \in Seq(Values) /\ Len(inbox) <= InboxCap
  /\ lost \in 0 .. MaxLost /\ foreign \in 0 .. MaxForeign /\ flips \in 0 .. MaxFlips
  /\ lastWrite \in {None, Keep, Optimized}
  /\ observed \in BOOLEAN

WriteDiffers ==
  (outbox = None /\ outbox' # None) => (observed \/ outbox' # lastWrite)

\* In an uninterrupted live run the writes alternate between 9 and 10: the
\* core writes on a change of target and on nothing else, so the ESS mode is
\* not rewritten on every tick, sensor reading or sun update.
WritesAlternate == [][WriteDiffers]_vars

\* While writes have been on since the last write, that write is the target:
\* the goal never moves without an order going out.
TargetIsLastWrite == ~ observed => target.value = lastWrite

Wanted == Override(enabled, required, sun, now)

\* A battery held charged is let go again: once writes are on for good, the
\* register returns to Optimized again and again, (1) if the override goes on
\* asking for Keep now and then, whatever was lost, changed by others or
\* restarted before; (2) if it does not, once this life of the program has
\* written at all and provided nothing was lost or changed by others.  What the
\* register held when the program was started matters to neither.
KeptBatteryReleased ==
  /\ <>[]writesEnabled /\ []<>(Wanted = Keep) => []<>(device = Optimized)
  /\ [](lost = 0 /\ foreign = 0) /\ <>[](~ observed) => []<>(device = Optimized)

-----------------------------------------------------------------------------
(* Claims of the code's comments that this actuator does not keep.         *)

\* writer.rs: a failed write is "not retried - the controller will re-propose
\* on its next tick": a steady target that has been written in the present
\* live run is in the end delivered.
FailedWriteIsReproposed ==
  \A v \in {Keep, Optimized} :
    <>[](~ observed /\ Wanted = v) => <>[](device = v)

\* process.rs: the kill switch's false -> true edge "invalidates every
\* actuated target so the controllers are forced to re-propose + emit a fresh
\* WriteDbus".
EdgeForcesWrite ==
  [][ (~ writesEnabled /\ writesEnabled') => outbox' = Wanted' ]_vars

\* The same sentence over time: with nothing lost or changed by others, writes
\* switched on for good put a register found at Keep back to Optimized.  It is
\* not: the first event after a restart proposes Optimized in observer mode,
\* and what is proposed already is not written.
SwitchReleases ==
  [](lost = 0 /\ foreign = 0) /\ <>[]writesEnabled => []<>(device = Optimized)
=============================================================================
