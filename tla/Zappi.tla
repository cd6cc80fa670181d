------------------------------- MODULE Zappi -------------------------------
(***************************************************************************)
(* The Zappi charger through the tariff day: the mode rule                 *)
(* (controllers/zappi_mode.rs), its actuation (run_zappi_mode in           *)
(* process.rs), the 04:30 verdict on extended charging                     *)
(* (maybe_evaluate_auto_extended), the spawned calls, the polls            *)
(* (shell/src/myenergi/mod.rs) and restarts.                               *)
(*                                                                         *)
(* The clock is one of the slots the code's comparisons of the local time  *)
(* cut the day into, and goes round for ever.  A time unit is long enough  *)
(* for any call to end: the runtime gives one 20 s.  A slot sees a tick    *)
(* and then a time unit: the shortest, the stop window, is five minutes,   *)
(* and a tick is 15 s.                                                     *)
(*                                                                         *)
(* Eco and Eco+ are left out: no rule sets them and every rule asks only   *)
(* whether the mode is Off.  A poll is answered and taken by the core in   *)
(* one step (Eddi.tla keeps the two apart).                                *)
(***************************************************************************)
EXTENDS Integers, Sequences

CONSTANTS
  None,
  RetryAge,  \* knob actuator_retry_s, in time units
  MaxCalls   \* bound: calls in flight

Modes == {"Off", "Fast"}
Owner == "ZappiController"

INSTANCE Tass WITH Values <- Modes, Owners <- {Owner}

ASSUME ZappiAssumption ==
  RetryAge \in Nat /\ MaxCalls \in Nat /\ None \notin Modes

\* 02:00-04:30, -05:00, -08:00, -08:05, -23:00, -00:00, -02:00.
Slots == {"Boost", "Dawn", "Extended", "Stop", "Day", "Evening", "Night"}

\* The slot that follows; the date changes on entering Night.
Following(s) ==
  [Boost |-> "Dawn", Dawn |-> "Extended", Extended |-> "Stop", Stop |-> "Day",
   Day |-> "Evening", Evening |-> "Night", Night |-> "Boost"][s]

\* The knob charge_car_extended_mode.
ExtendedModes == {"Auto", "Forced", "Disabled"}

\* The car's SoC: not fresh, below 40 %, or not; its target: fresh and above
\* 80 %, or anything else.
CarSocs == {"NotFresh", "Low", "Enough"}
CarTargets == {"High", "NoSignal"}

VARIABLES
  slot,      \* where the local clock is
  stay,      \* "New", then "Ticked", then "Long" in this slot
  mode,      \* knob charge_car_extended_mode
  boost,     \* knob charge_car_boost
  verdict,   \* bookkeeping.auto_extended_today and the date it is for
  target,    \* world.zappi_mode.target
  seen,      \* typed_sensors.zappi_state: mode and session, while Fresh
  writesEnabled,
  calls,     \* spawned SetZappiMode calls without an answer, oldest first
  device     \* the mode the Zappi is in

knobs == <<mode, boost, writesEnabled>>
vars == <<slot, stay, mode, boost, verdict, target, seen, writesEnabled,
          calls, device>>

NotSeen == [mode |-> "NotFresh", reached |-> FALSE]

-----------------------------------------------------------------------------
(* The 04:30 verdict.                                                      *)

\* ev_soc < 40 or ev_charge_target > 80, and never without a fresh ev_soc.
CarWants(soc, tgt) == soc = "Low" \/ (soc = "Enough" /\ tgt = "High")

\* Variant: one verdict for ever, its date is not compared.
DueOnce(v, s) == v.stamp = "Never" /\ s \notin {"Night", "Boost"}

\* Not yet evaluated on this date, and 04:30 is past.
Due(v, s) == v.stamp # "Today" /\ s \notin {"Night", "Boost"}

\* maybe_evaluate_auto_extended
Evaluate(v, s, soc, tgt) ==
  IF mode = "Auto" /\ Due(v, s)
  THEN [value |-> CarWants(soc, tgt), stamp |-> "Today"]
  ELSE v

\* effective_charge_car_extended
Extended(m, v) == m = "Forced" \/ (m = "Auto" /\ v.value)

-----------------------------------------------------------------------------
(* evaluate_zappi_mode: Set(mode), or Leave.                               *)

ModeFor(flag) == IF flag THEN "Fast" ELSE "Off"

Rule(s, b, ext, z) ==
  CASE s \in {"Boost", "Dawn"} -> ModeFor(b)
    [] s = "Extended"          -> ModeFor(ext)
    [] s = "Stop" /\ z.mode # "Off" -> "Off"
    [] s \in {"Evening", "Night"} /\ z.reached /\ z.mode # "Off" -> "Off"
    [] OTHER                   -> "Leave"

-----------------------------------------------------------------------------
(* run_zappi_mode                                                          *)

\* Variant: an overdue target is retried whatever the rule says.
FiresRegardless(t, want) ==
  \/ want # "Leave" /\ ProposeChanges(t, want, Owner)
  \/ NeedsActuation(t, RetryAge)

\* Variant: a lost call is never repeated.
FiresOnce(t, want) == want # "Leave" /\ ProposeChanges(t, want, Owner)

\* A call is due: the rule sets a mode, and its target is new or overdue.
\* Leave returns before either is asked.
Fires(t, want) ==
  /\ want # "Leave"
  /\ ProposeChanges(t, want, Owner) \/ NeedsActuation(t, RetryAge)

Proposal(t, want) ==
  IF want = "Leave" THEN t ELSE ProposeTarget(t, want, Owner)

\* process(): the event has made the inputs m, b, v, t, z and `enabled`.
\* Without a fresh Zappi state the core returns at once.
Process(m, b, v, t, z, enabled) ==
  LET want     == IF z.mode = "NotFresh" THEN "Leave"
                  ELSE Rule(slot, b, Extended(m, v), z)
      proposed == Proposal(t, want)
      calling  == Fires(t, want) /\ enabled
  IN  /\ calling => Len(calls) < MaxCalls
      /\ mode' = m /\ boost' = b /\ verdict' = v /\ seen' = z
      /\ writesEnabled' = enabled
      /\ target' = IF calling THEN MarkCommanded(proposed) ELSE proposed
      /\ calls' = IF calling THEN Append(calls, proposed.value) ELSE calls
      /\ UNCHANGED <<slot, device>>

-----------------------------------------------------------------------------
(* Events of the runtime loop.                                             *)

\* Event::Tick: the Zappi state may be found stale, the verdict may be due.
Tick(fresh, soc, tgt) ==
  /\ Process(mode, boost, Evaluate(verdict, slot, soc, tgt), target,
             IF fresh THEN seen ELSE NotSeen, writesEnabled)
  /\ stay' = IF stay = "New" THEN "Ticked" ELSE stay

\* Event::TypedSensor: a poll's answer is recorded and may confirm.
PollAnswered(reached) ==
  /\ Process(mode, boost, verdict,
             ConfirmIf(target, OnReading(device, 0), target.value = device, 0),
             [mode |-> device, reached |-> reached], writesEnabled)
  /\ UNCHANGED stay

\* Command::Knob.  The cores run in the same event, before any tick has
\* looked at the verdict: in that the slot starts anew.
KnobEvent(m, b) ==
  /\ <<m, b>> # <<mode, boost>>
  /\ Process(m, b, verdict, target, seen, writesEnabled)
  /\ stay' = IF m # mode THEN "New" ELSE stay

\* Command::KillSwitch; its rising edge unsets the target.
KillSwitchEvent(on) ==
  /\ Process(mode, boost, verdict,
             IF on /\ ~ writesEnabled THEN UnsetTarget ELSE target, seen, on)
  /\ UNCHANGED stay

\* A crash, a deployment or, in the poller, a 401: main returns when the
\* poller does, and the supervisor starts the program again.  The knobs come
\* back from the retained topics, but the first tick comes before them and
\* finds the default mode, Auto, and no car: past 04:30 the day is decided.
Restart ==
  /\ verdict' = [value |-> FALSE,
                 stamp |-> IF slot \in {"Night", "Boost"}
                           THEN "Never" ELSE "Today"]
  /\ target' = UnsetTarget
  /\ seen' = NotSeen
  /\ UNCHANGED <<slot, stay, knobs, calls, device>>

-----------------------------------------------------------------------------
(* The spawned calls, people, the device and time.                         *)

Without(i) == SubSeq(calls, 1, i - 1) \o SubSeq(calls, i + 1, Len(calls))

CallLands(i) ==
  /\ i \in DOMAIN calls
  /\ device' = calls[i]
  /\ calls' = Without(i)
  /\ UNCHANGED <<slot, stay, knobs, verdict, target, seen>>

\* An error, a rejection (zsh # 0) or the timeout: logged and forgotten.
CallFails(i) ==
  /\ i \in DOMAIN calls
  /\ calls' = Without(i)
  /\ UNCHANGED <<slot, stay, knobs, verdict, target, seen, device>>

\* Somebody changes the mode in the myenergi app.
ForeignChange(v) ==
  /\ v # device
  /\ device' = v
  /\ UNCHANGED <<slot, stay, knobs, verdict, target, seen, calls>>

\* One time unit passes: every call has ended, and the tick of the slot is over.
Elapse ==
  /\ calls = <<>>
  /\ target' = Older(target, RetryAge)
  /\ stay' = IF stay = "New" THEN "New" ELSE "Long"
  /\ UNCHANGED <<slot, knobs, verdict, seen, calls, device>>

\* The clock enters the next slot.
ClockEnters ==
  /\ stay = "Long"
  /\ slot' = Following(slot)
  /\ stay' = "New"
  /\ verdict' = IF slot' = "Night" /\ verdict.stamp = "Today"
                THEN [verdict EXCEPT !.stamp = "Before"] ELSE verdict
  /\ UNCHANGED <<knobs, target, seen, calls, device>>

-----------------------------------------------------------------------------

Init ==
  /\ slot \in Slots
  /\ stay = "New"
  /\ mode \in ExtendedModes /\ boost \in BOOLEAN
  /\ verdict = [value |-> FALSE, stamp |-> "Never"]
  /\ target = UnsetTarget
  /\ seen = NotSeen
  /\ writesEnabled = FALSE
  /\ calls = <<>>
  /\ device \in Modes

Next ==
  \/ \E fresh \in BOOLEAN, soc \in CarSocs, tgt \in CarTargets :
       Tick(fresh, soc, tgt)
  \/ \E reached \in BOOLEAN : PollAnswered(reached)
  \/ \E m \in ExtendedModes, b \in BOOLEAN : KnobEvent(m, b)
  \/ \E on \in BOOLEAN : KillSwitchEvent(on)
  \/ Restart
  \/ \E i \in 1 .. MaxCalls : CallLands(i) \/ CallFails(i)
  \/ \E v \in Modes : ForeignChange(v)
  \/ Elapse
  \/ ClockEnters

Spec == Init /\ [][Next]_vars

\* The runtime ticks, some poll is answered, time passes, and a call made
\* again and again gets through.  Nothing makes the clock leave a slot.
Fairness ==
  /\ WF_vars(\E soc \in CarSocs, tgt \in CarTargets : Tick(TRUE, soc, tgt))
  /\ WF_vars(\E reached \in BOOLEAN : PollAnswered(reached))
  /\ WF_vars(Elapse)
  /\ WF_vars(\E i \in 1 .. MaxCalls : CallLands(i) \/ CallFails(i))
  /\ SF_vars(\E i \in 1 .. MaxCalls : CallLands(i))

FairSpec == Spec /\ Fairness

-----------------------------------------------------------------------------
(* Properties.                                                             *)

TypeOK ==
  /\ slot \in Slots /\ stay \in {"New", "Ticked", "Long"}
  /\ mode \in ExtendedModes /\ boost \in BOOLEAN
  /\ writesEnabled \in BOOLEAN
  /\ verdict \in [value : BOOLEAN, stamp : {"Never", "Before", "Today"}]
  /\ target \in Targets(0 .. RetryAge)
  /\ target.value = None <=> target.phase = "Unset"
  /\ seen \in [mode : Modes \union {"NotFresh"}, reached : BOOLEAN]
  /\ calls \in Seq(Modes) /\ Len(calls) <= MaxCalls
  /\ device \in Modes

\* A step that spawns a call for mode v.
Spawns(v) == Len(calls') > Len(calls) /\ calls'[Len(calls')] = v

LeftToTheUser ==
  slot = "Day" /\ calls' # calls =>
    /\ \A v \in Modes : ~ Spawns(v)
    /\ ~ (device = "Off" /\ device' = "Fast")

\* Outside the windows and the limit the mode is the user's: by day nothing is
\* called, no call of the night lands to charge the car, and no target left
\* over from the windows is retried (zappi_mode.rs 13-15 and 107-111).
DayIsTheUsers == [][LeftToTheUser]_vars

RestsOnVerdict ==
  Spawns("Fast") /\ slot' = "Extended" /\ mode' = "Auto" /\ stay' # "New"
    => verdict' = [value |-> TRUE, stamp |-> "Today"]

\* In Auto the car is charged at the extended rate on a verdict given after
\* 04:30 of the same date, through midnights, restarts and mode switches (the
\* latch is per local date, process.rs 1325-1337).  Excepted is the event of a
\* switch to Auto itself: until the next tick an old verdict stands.
VerdictIsTonights == [][RestsOnVerdict]_vars

\* What the slot asks for; the stop window asks for Off.
Demand ==
  CASE slot \in {"Boost", "Dawn"} -> ModeFor(boost)
    [] slot = "Extended"          -> ModeFor(Extended(mode, verdict))
    [] slot = "Stop"              -> "Off"
    [] OTHER                      -> "Nothing"

\* While a slot lasts, what it asks for comes about, through calls lost and
\* reordered, people and restarts, unless the target was confirmed from an
\* answer that predates a late call: a confirmed target is not retried.
WishCarriedOut ==
  \A v \in Modes :
    <>[](writesEnabled /\ Demand = v) =>
      []<>(device = v \/ (target.value = v /\ target.phase = "Confirmed"))

\* A session seen at its limit and still charging, with writes on.
LimitReached ==
  /\ slot \in {"Evening", "Night"} /\ writesEnabled
  /\ seen.reached /\ seen.mode = "Fast"

\* At night, with a session seen at its limit and still charging, a tick leaves
\* the stop under way (SPEC.md 123, zappi_mode.rs 8-11).
AutoStopForcesOff ==
  [][(LimitReached /\ \E soc \in CarSocs, tgt \in CarTargets : Tick(TRUE, soc, tgt))
       => target'.value = "Off" /\ target'.phase = "Commanded"]_vars
=============================================================================
