-------------------------------- MODULE Eddi --------------------------------
(***************************************************************************)
(* The Eddi diverter: the mode controller (controllers/eddi_mode.rs), the  *)
(* actuation around it (run_eddi_mode in process.rs), the CallMyenergi     *)
(* effects that the runtime spawns and does not wait for                   *)
(* (shell/src/runtime.rs), the device behind the vendor's cloud and the    *)
(* poller that reads it back (shell/src/myenergi/mod.rs).                  *)
(*                                                                         *)
(* SoC is kept as its place relative to the two thresholds, the time of    *)
(* day as the tariff window.  Whether a reading has passed its staleness   *)
(* threshold is the environment's choice at a tick.  The actual side of    *)
(* world.eddi_mode is compared with the target only in the event that has  *)
(* just set it, so it is not a variable; `seen` is typed_sensors.eddi_mode *)
(* which the controller reads back.                                        *)
(***************************************************************************)
EXTENDS Integers, Sequences

CONSTANTS
  None,
  RetryAge,     \* knob actuator_retry_s, in time units
  Dwell,        \* knob eddi_dwell_s, in time units
  CallTimeout,  \* the runtime's 20 s on a spawned call, in time units
  MaxCalls,     \* bound: calls in flight
  MaxForeign    \* bound: mode changes made in the vendor's own app

Modes == {"Stopped", "Normal"}
Owner == "EddiController"

INSTANCE Tass WITH Values <- Modes, Owners <- {Owner}

ASSUME EddiAssumption ==
  /\ None \notin Int /\ None \notin Modes
  /\ RetryAge \in Nat /\ Dwell \in Nat /\ CallTimeout \in Nat
  /\ MaxCalls \in Nat /\ MaxForeign \in Nat

\* Unknown, stale or missing; at or below eddi_disable_soc; in between; at or
\* above eddi_enable_soc.
Socs == {"NotFresh", "Low", "Band", "High"}

\* The mode eddi_schedule_override forces, if any.
Windows == Modes \union {"Open"}

VARIABLES
  target,          \* world.eddi_mode.target
  seen,            \* typed_sensors.eddi_mode: the value, and is it Fresh
  soc,             \* sensors.battery_soc, as one of Socs
  window,          \* the tariff window the clock is in
  lastTransition,  \* time since bookkeeping.eddi_last_transition_at, or None
  writesEnabled,   \* the kill switch
  calls,           \* spawned SetEddiMode calls without an answer, oldest first
  device,          \* the mode the Eddi is in
  poll,            \* a poll's answer on its way to the core, or None
  foreign,         \* mode changes made by somebody else
  lastCall         \* history: time since the last call was spawned, or None

core == <<target, seen, soc, window, lastTransition, writesEnabled>>
vars == <<core, calls, device, poll, foreign, lastCall>>

AgeCap == IF RetryAge > Dwell THEN RetryAge ELSE Dwell
Ages == 0 .. AgeCap

-----------------------------------------------------------------------------
(* evaluate_eddi_mode                                                      *)

\* The last observed mode, however old; Stopped when there is none.
Current(s) == IF s.value = None THEN "Stopped" ELSE s.value

\* Variant: the tariff window is consulted before the SoC's freshness.
DesiredWindowFirst(q, w, cur) ==
  CASE w # "Open"     -> w
    [] w = "Open" /\ q \in {"NotFresh", "Low"} -> "Stopped"
    [] w = "Open" /\ q = "High" -> "Normal"
    [] OTHER          -> cur

Desired(q, w, cur) ==
  CASE q = "NotFresh"                -> "Stopped"
    [] q # "NotFresh" /\ w # "Open"  -> w
    [] q = "High" /\ w = "Open"      -> "Normal"
    [] q = "Low" /\ w = "Open"       -> "Stopped"
    [] q = "Band" /\ w = "Open"      -> cur

\* Only Normal waits for the dwell timer.
DwellMet(d, lt) == d = "Stopped" \/ lt = None \/ lt >= Dwell

\* EddiModeAction: `set` is Set(mode), its absence Leave(mode).
Decision(q, w, cur, lt) ==
  LET d == Desired(q, w, cur)
  IN  [set |-> d # cur /\ DwellMet(d, lt),
       mode |-> IF DwellMet(d, lt) THEN d ELSE cur]

-----------------------------------------------------------------------------
(* run_eddi_mode                                                           *)

\* Variant: a lost call is never repeated.
FiresOnce(t, dec) == dec.set /\ ProposeChanges(t, dec.mode, Owner)

\* A call is due: the decision is Set, and its target is new or overdue.
Fires(t, dec) ==
  /\ dec.set
  /\ \/ ProposeChanges(t, dec.mode, Owner)
     \/ NeedsActuation(t, RetryAge)

\* Variant: a retry does not restart the dwell clock.
TransitionClockOnChange(t, dec, lt) ==
  IF dec.set /\ ProposeChanges(t, dec.mode, Owner) THEN 0 ELSE lt

\* Recorded before the kill switch is looked at.
TransitionClock(t, dec, lt) == IF Fires(t, dec) THEN 0 ELSE lt

\* process(): the event has made the inputs t, s, q, w and `enabled`.
Process(t, s, q, w, enabled) ==
  LET dec      == Decision(q, w, Current(s), lastTransition)
      proposed == ProposeTarget(t, dec.mode, Owner)
      calling  == Fires(t, dec) /\ enabled
  IN  /\ calling => Len(calls) < MaxCalls
      /\ target' = IF calling THEN MarkCommanded(proposed) ELSE proposed
      /\ seen' = s
      /\ soc' = q
      /\ window' = w
      /\ writesEnabled' = enabled
      /\ lastTransition' = TransitionClock(t, dec, lastTransition)
      /\ calls' = IF calling
                  THEN Append(calls, [mode |-> dec.mode, age |-> 0])
                  ELSE calls
      /\ lastCall' = IF calling THEN 0 ELSE lastCall

-----------------------------------------------------------------------------
(* Events of the runtime loop.                                             *)

\* Event::Tick: readings may be found stale, the clock may enter a window.
TickEvent(q, w, fresh) ==
  /\ q \in {soc, "NotFresh"}
  /\ fresh => seen.fresh
  /\ Process(target, [seen EXCEPT !.fresh = fresh], q, w, writesEnabled)
  /\ UNCHANGED <<device, poll, foreign>>

\* Event::Sensor for the battery SoC.
SocEvent(q) ==
  /\ q # "NotFresh"
  /\ Process(target, seen, q, window, writesEnabled)
  /\ UNCHANGED <<device, poll, foreign>>

\* Event::TypedSensor: the poll's answer is recorded and may confirm.
ReadingEvent ==
  /\ poll # None
  /\ poll' = None
  /\ LET reading == [value |-> poll, freshness |-> "Fresh", age |-> 0]
     IN  Process(ConfirmIf(target, reading, target.value = poll, 0),
                 [value |-> poll, fresh |-> TRUE], soc, window, writesEnabled)
  /\ UNCHANGED <<device, foreign>>

\* Command::KillSwitch; its rising edge unsets the target.
KillSwitchEvent(on) ==
  /\ Process(IF on /\ ~ writesEnabled THEN UnsetTarget ELSE target,
             seen, soc, window, on)
  /\ UNCHANGED <<device, poll, foreign>>

-----------------------------------------------------------------------------
(* The spawned calls, the poller, the device and time.                     *)

Without(i) == SubSeq(calls, 1, i - 1) \o SubSeq(calls, i + 1, Len(calls))

\* The device takes the mode of any call in flight, in any order.
CallLands(i) ==
  /\ i \in DOMAIN calls
  /\ device' = calls[i].mode
  /\ calls' = Without(i)
  /\ UNCHANGED <<core, poll, foreign, lastCall>>

\* An error, a rejection (esh # 0) or the timeout: logged and forgotten.
CallFails(i) ==
  /\ i \in DOMAIN calls
  /\ calls' = Without(i)
  /\ UNCHANGED <<core, device, poll, foreign, lastCall>>

\* poll_once got an answer; one that fails sends nothing.
PollerPoll ==
  /\ poll = None
  /\ poll' = device
  /\ UNCHANGED <<core, calls, device, foreign, lastCall>>

ForeignChange(v) ==
  /\ foreign < MaxForeign
  /\ v # device
  /\ device' = v
  /\ foreign' = foreign + 1
  /\ UNCHANGED <<core, calls, poll, lastCall>>

OlderOrNone(age) ==
  IF age = None THEN None ELSE IF age < AgeCap THEN age + 1 ELSE age

\* One time unit passes; no call outlives its timeout.
Elapse ==
  /\ \A i \in DOMAIN calls : calls[i].age < CallTimeout
  /\ target' = Older(target, AgeCap)
  /\ lastTransition' = OlderOrNone(lastTransition)
  /\ lastCall' = OlderOrNone(lastCall)
  /\ calls' = [i \in DOMAIN calls |->
                 [calls[i] EXCEPT !.age = calls[i].age + 1]]
  /\ UNCHANGED <<seen, soc, window, writesEnabled, device, poll, foreign>>

-----------------------------------------------------------------------------

Init ==
  /\ target = UnsetTarget
  /\ seen = [value |-> None, fresh |-> FALSE]
  /\ soc = "NotFresh"
  /\ window \in Windows
  /\ lastTransition = None
  /\ writesEnabled = FALSE
  /\ calls = <<>>
  /\ device \in Modes
  /\ poll = None
  /\ foreign = 0
  /\ lastCall = None

Next ==
  \/ \E q \in Socs, w \in Windows, fresh \in BOOLEAN : TickEvent(q, w, fresh)
  \/ \E q \in Socs : SocEvent(q)
  \/ ReadingEvent
  \/ \E on \in BOOLEAN : KillSwitchEvent(on)
  \/ \E i \in 1 .. MaxCalls : CallLands(i) \/ CallFails(i)
  \/ PollerPoll
  \/ \E v \in Modes : ForeignChange(v)
  \/ Elapse

Spec == Init /\ [][Next]_vars

\* The runtime ticks, the poller polls and its answers reach the core, time
\* passes, and a call that is made again and again does get through.
Fairness ==
  /\ WF_vars(TickEvent(soc, window, seen.fresh))
  /\ WF_vars(PollerPoll)
  /\ WF_vars(ReadingEvent)
  /\ WF_vars(Elapse)
  /\ WF_vars(\E i \in 1 .. MaxCalls : CallLands(i) \/ CallFails(i))
  /\ SF_vars(\E i \in 1 .. MaxCalls : CallLands(i))

FairSpec == Spec /\ Fairness

-----------------------------------------------------------------------------
(* Properties.                                                             *)

TypeOK ==
  /\ target \in Targets(Ages)
  /\ target.value = None <=> target.phase = "Unset"
  /\ seen \in [value : Modes \union {None}, fresh : BOOLEAN]
  /\ soc \in Socs /\ window \in Windows
  /\ lastTransition \in Ages \union {None}
  /\ lastCall \in Ages \union {None}
  /\ writesEnabled \in BOOLEAN
  /\ calls \in Seq([mode : Modes, age : 0 .. CallTimeout])
  /\ Len(calls) <= MaxCalls
  /\ device \in Modes
  /\ poll \in Modes \union {None}
  /\ foreign \in 0 .. MaxForeign

\* A step that spawns a call for mode v.
Spawns(v) == Len(calls') > Len(calls) /\ calls'[Len(calls')].mode = v

\* However the target got there (held in the band, confirmed, retried, reset
\* by the kill switch), the Eddi is only ever told to divert on a fresh SoC,
\* in a Normal window or, outside the windows, at the enable threshold
\* (eddi_mode.rs 4-7 and 83-95).
NormalIsAuthorised ==
  [][Spawns("Normal") =>
       /\ soc' # "NotFresh"
       /\ window' = "Normal" \/ (window' = "Open" /\ soc' = "High")]_vars

\* No flapping: the Eddi is told to divert no sooner than the dwell time after
\* any earlier call, first attempt or retry (eddi_mode.rs 14-15).
DwellKept ==
  [][Spawns("Normal") => lastCall = None \/ lastCall >= Dwell]_vars

\* The core asks for v and goes on asking.
Steady(v) == writesEnabled /\ Desired(soc, window, Current(seen)) = v
                           /\ soc # "Band"

\* A steady wish is carried out, through calls lost and calls reordered, unless
\* the target was confirmed from an answer that predates a late call: a
\* confirmed target is not retried.
WishCarriedOut ==
  \A v \in Modes :
    <>[]Steady(v) =>
      []<>(device = v \/ (target.value = v /\ target.phase = "Confirmed"))

\* The safety direction: with no usable SoC the Eddi ends up stopped
\* (eddi_mode.rs 4-7, "default target is `Stopped`").
StopsWhenBlind ==
  <>[](soc = "NotFresh" /\ writesEnabled) => []<>(device = "Stopped")
=============================================================================
