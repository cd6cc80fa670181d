# A verification development of victron-controller

victron-controller steers a house's Victron energy system (a MultiPlus with two
batteries), an EV charger (Zappi) and a hot-water diverter (Eddi). It is a pure
Rust core, `process(event, world, clock, topology) -> effects`, inside an async
shell that talks D-Bus, MQTT and the myenergi cloud. This directory models the
core's state machines together with the part of the shell and of the outside
world they have to survive, checks them with TLC on small instances, and proves
the most important results with TLAPS for all values of the constants.

Paths below are relative to the repository root.

## 1. The system

| Component | State | Operations | Interacts by |
|---|---|---|---|
| TASS entity (`crates/core/src/tass`) | actual: value, freshness, since; target: value, owner, phase, since | on_reading, tick, deprecate; propose_target, mark_commanded, confirm_if, needs_actuation, reset_to_unset | fields of `World` |
| Core registry (`core_dag`) | ordered cores | build, run_all | every event runs all cores, in order |
| Setpoint (`controllers/setpoint.rs`, `process.rs` run_setpoint) | grid_setpoint, bookkeeping | evaluate, hard clamp, grid caps, dead-band | WriteDbus; readback of the register |
| Current limit, schedules (`current_limit.rs`, `schedules.rs`) | their targets | evaluate, propose | the same |
| ESS-state override (`ess_state_override.rs`) | ess_state_target, previous state | evaluate, write on change | the same |
| Full-charge calendar (`setpoint.rs`) | next_full_charge, charge_to_full_required | seed, rollover | schedules and override read the flag |
| Zappi mode (`zappi_mode.rs`, run_zappi_mode, maybe_evaluate_auto_extended) | target, auto_extended_today and its date | evaluate, call, verdict at 04:30 | spawned HTTP calls; the poller's answers |
| Eddi mode (`eddi_mode.rs`, run_eddi_mode) | target, dwell clock | evaluate, call | the same |
| Weather-SoC planner, forecast fusion | charge_battery_extended_today and its date, night-discharge flag, active cell | plan, on every event | the schedules core reads them |
| Commands and knobs | knobs, kill switch, bookkeeping | apply_knob, KillSwitch edge, SetBookkeeping | MQTT /set, dashboard |
| Runtime (`shell/runtime.rs`) | world | one event at a time: lock, process, dispatch effects in order | mpsc channel of 4096 events |
| D-Bus writer (`dbus/writer.rs`) | connection, back-off | SetValue with 2 s timeout; kicks a reseed | D-Bus services |
| D-Bus subscriber (`dbus/subscriber.rs`) | session, owner map, schedule accumulators, reseed heap | signals, polls, kicks, reconnect | events to the runtime |
| myenergi client, poller, writer | back-off | polls; set modes | HTTPS |
| MQTT bridge (`mqtt/mod.rs`, `main.rs`) | subscriptions, request queue, what was heard in the window | retained bootstrap, commands, publishes, initial publication, discovery | broker; its retained messages are the program's only disk |
| Pinned registers | status, drift_count | hourly read, corrective write | D-Bus |
| Dashboard, forecast fetchers, config, diagnostics | views | I/O | channel, HTTP |

`PROJECT.json` lists all of them with what is and is not modelled.

What is hard here, and therefore what the models are about:

* **Writes are not acknowledged.** `SetValue` may be refused, throttled, time out
  and land later, be overwritten by somebody else; only a later readback says
  what the device does. Readbacks are sampled before they are processed, so one
  can predate the write it appears to confirm.
* **The kill switch** (`writes_enabled`) suppresses writes while controllers go on
  proposing; what was proposed meanwhile must go out on the edge.
* **Feedback loops with delay.** The drain loop integrates on each event, several
  times between two readings.
* **Everything goes stale.** Readings keep their value when they do; every
  controller has to decide what that means.
* **Partial operations.** A schedule is five D-Bus writes and comes back as five
  independent leaf values.
* **A confirmed target is never taken back.** Retries exist for `Commanded` only; what
  somebody else sets after a confirmation stays.
* **Spawned calls.** myenergi calls are not awaited: two may land in the opposite
  order, one after its window has closed.
* **The day is state.** Verdicts, plans and latches hold for a local date. Midnight,
  04:30 and the window edges fall between any two events, forecasts and the sunset
  are of some earlier day, and a restart forgets part of it.
* **The broker is the disk.** Knobs, kill switch and bookkeeping survive a restart only
  as retained messages, read back in a window of 2 s while users already edit.
* **Ordering inside one event.** Cores communicate through the world, in the
  order of a dependency graph; a read against the order is one event late.

## 2. Modules

| Module | Models | Built on |
|---|---|---|
| `Tass` | operators for Actual and Actuated | |
| `AckedDelivery` | abstract: at-least-once delivery of the latest goal | |
| `Actuator` | one D-Bus register: controller, target, kill switch, writer, bus, device, readback, restart | `Tass`, refines `AckedDelivery` |
| `EssState` | the ESS-state override with its own way of writing | `Tass` |
| `CoreDag` | `CoreRegistry::build` and `run_all` over any graph | |
| `ProductionDag` | the shipped graph and the reads the cores really make; `MCCoreDag` extends it | `CoreDag` |
| `ScheduleFeed` | schedule target, five-field writes, subscriber accumulator, sessions | `Tass` |
| `Eddi` | Eddi rule, dwell, spawned calls, poller | `Tass` |
| `Zappi` | Zappi rule round the tariff day, 04:30 verdict, spawned calls, polls, people, restarts | `Tass` |
| `Retained` | bootstrap from retained messages, commands, publishes, initial publication, restarts | |
| `FullCharge` | calendar of full charges, always-on schedule, battery, weeks of days | |
| `NightPlan` | planner, rule of the two charge schedules and their latches, round the day | |
| `CurrentLimit` | the law of the input current limit, closed over the breaker and its meters | |
| `SetpointLaw` | `evaluate_setpoint` as integer operators | |
| `Setpoint` | run_setpoint closed over a battery | `SetpointLaw` |
| `ActuatorProofs`, `CoreDagProofs`, `SetpointProofs`, `ZappiProofs`, `FullChargeProofs` | theorems | the module they name (`CoreDagProofs`: also `ProductionDag`), `TLAPS` |
| `LoadProofs` | theorems | `CurrentLimit`, `Eddi` |
| `ScheduleProofs` | theorems | `NightPlan`, `ScheduleFeed` |
| `SettingsProofs` | theorems | `EssState`, `Retained` |
| `MC*` | values for TLC | the module they name |

Three proof modules each extend two components, so the definitions of the second
one carry its name where both would use the same: `LimitInit`, `FeedNext`,
`RetainedSpec` and so on are the Init, Next and specification of `CurrentLimit`,
`ScheduleFeed` and `Retained`.

Correspondence. One TLA+ step is one event: a variable of the core is a field of
`World`, an action of the core is an arm of `apply_event` followed by the cores
(`Process`; `RunSchedules` and `RunCurrentLimit` where one core is modelled), and the effects it emits are put into an `outbox`; the runtime
dispatches them before it takes the next event, so the guard `outbox = None`
(or `<< >>`) precedes every event. Actions outside the core (`WriteOk`,
`WriteLost`, `Readback`, `Reseed`, `CallLands`, ...) are the shell's, actions
such as `ForeignWrite` and `LateWriteLands` are the device's and are marked
external in the map. Time is an age counted up to the threshold that matters
and saturating there; a clock of the day is a slot: one of the pieces the code's
comparisons of the local time cut the day into. A module whose day matters has an
action `ClockEnters` that moves from slot to slot for ever, and dates are kept as
"Today", "Before", or days counted from today.

A definition marked `Variant` is a mistake one could make in the definition after
it; no action uses it. `PROJECT.json` ("mutants") names the property each one
breaks.

### Actuator
State: `target`, `actual` (Tass records), `want` (what the controller decides now;
None when it decides nothing), `writesEnabled`, `reported` (the retained phase),
`outbox`, `device`, `late` (timed-out writes that may still land), `inbox`
(readbacks sampled, not processed), `lastWrite` (history). It stands for the grid
setpoint, the input current limit and, taken as one value, a schedule: the
difference between them is the dead-band, the tolerance and the owner, which are
constants or choices. Restart brings the program back with a fresh world and the
device as it was.

### EssState
The environment of Actuator, except that no timed-out write lands late: the register
may hold anything at the start, `Reboot` is a restart, `ForeignWrite` a change by others. The
core differs: it returns when the target did not change (`cores.rs:694`), never retries, and
is not touched by the kill-switch edge. The sun times come with an expiry; `lost`,
`foreign` and `flips` bound lost writes, changes by others and kill-switch commands of one
life (restarts are unbounded), `observed` remembers that writes were off since the last
write of this life. The knob, the full-charge flag and the sun are free inputs.

What `KeptBatteryReleased` promises has two parts, because what the code promises has. While
the override asks for Keep again and again, each window's end writes Optimized, so that
neither losses, nor changes by others, nor restarts before can hold the battery for good.
Without a further request only the last write counts: it must be of this life and neither
lost nor overwritten. A register that a restart finds at Keep is in neither part, and
`EssStateBoot.cfg` shows that it stays there.

### CoreDag and ProductionDag
`build` is modelled pass by pass: index with duplicates, validation, Kahn's
algorithm with the ready set taken in the order of ids, the left-over as the
cycle. `run_all` writes a stamp per core and records the stamps it reads.
`ProductionDag` adds the nine cores, the edges they declare and, separately, the
reads they make; `MCCoreDag` checks both at once, small graphs of every shape and
the shipped one.

### ScheduleFeed
Two fields stand for five (two are enough to mix schedules). `envelope` is a
GetItems reply or an ItemsChanged envelope being routed one leaf at a time, in any
order (the code iterates over a hash map); `accumulator` is `SchedulePartial`. A
session may end in the middle and leaves the accumulator as it is. `faults` bounds
lost writes, foreign changes and dropped sessions together; `disturbed` remembers
a foreign change or a dropped session.

`OnWire` is what SetValue carries: the SoC is an f64 in the core and an int32 on the bus
(`process.rs:2160` rounds and clamps it), the other fields are int32 in both. It counts
half per cents, enough for a fraction to be lost. `Stored` are the schedules the service can
hold; goals are any schedule, and the readback is compared with the goal exactly
(`process.rs:468`). A goal outside `Stored` is thus never confirmed and is written at
every retry; `GoalConfirmed` says of it only that the device ends up with what it is
rounded to.

### Eddi
SoC is one of its four meaningful ranges (not fresh, low, band, high), the
schedule one of three windows. Calls are a bag in flight, each with an age up to
the 20 s timeout; `poll` is an answer taken and not yet processed.

### Zappi
Seven slots: the tariff bands cut at 04:30, where the verdict on extended charging
falls due, and at 08:05, where the stop window ends. `stay` says how long the clock
has been in its slot: it leaves only after a tick and a time unit, the unit being
longer than the 20 s a call may take. `verdict` is `auto_extended_today` with its
date; `calls` are the spawned HTTP calls, which land in any order or fail; people
change the mode in the app (`ForeignChange`). A poll is answered and taken by the
core in one step, since `Eddi` covers the race in between. Eco and Eco+ are left out:
no rule sets them, and every rule asks only whether the mode is Off. A restart
forgets the target and the poll; past 04:30 its first tick, which comes before
the retained knobs and before any reading of the car, latches the verdict FALSE.

### Retained
Four topics stand for all: a numeric knob, `allow_battery_to_car` (reset at each
boot), `writes_enabled`, and a bookkeeping date. `phase` follows `Subscriber::run` and
the start-up task: Connecting, Window (subscribed to the state topics), Live
(to the `/set` topics), Announced (initial publication under way). `inbound` is
what the broker has sent, `queue` the runtime's channel, `wire` the client's request
queue, `publishing` what is left of the initial publication. `wish` is a history of
what users last had the core accept; `spoiled` names the topics of which a wish is
known to be lost. The losses are spelled out, and section 5 lists them: `InGap` (the
command came at a moment when something older overtakes it, or with a value the
retained form refuses), `WindowCut` (bootstrap cut short), a publish given up in
`Take`, `LostByRestart` (still on its way). `WishInForce` says that these are all. A topic
so spoiled is mended by a command that is published, not by one that repeats the value
in force: that one leaves the broker with what it had.

### FullCharge
`due` counts days from today, so that a midnight lowers it by one and weeks go on for
ever; 17:00 is the edge of the slot "Dark". The two knobs of the calendar are read
anew in each event. `ownDue` (history) tells a date the code chose from one a user
put there. Both cores of an event are in `Process`: the setpoint core with its seed,
its question and its rollover in the code's order, then the schedules core, which
asks for 100 % in its always-on schedule. Users may force or forbid the charge.

### NightPlan
The planner and the schedules core, both in `Process`, in every event. Energies are
left out: which cell of the table applies is an input, and `plan.basis` remembers
for which day's sun it was read, counted from today. `sun` and `forecast` carry the day they
are of. `above` is the latch `above_soc_date`; `weighed` (history) says that the last
decision of the day asked whether the target was reached. The planner's outputs are
taken as they are (the modes `Weather`); the knob that decides on the extended window
moves. Schedules reach the device in `ScheduleFeed`.

### CurrentLimit
Everything is a current at the grid's voltage. `readings` holds the last reading of five
meters (consumption, with what the Soltaro takes; the loads behind the inverter; the grid;
the car; the sign of the battery's power), and each event renews one of them. What
the inverter draws depends on the limit it keeps (`applied`), so the grid's meter and the
battery's feed the law's own output back. A scene is the rest: loads, car, knobs and the
window. `RunCurrentLimit` is run_current_limit with its dead-band; an event in which some sensor
is not usable changes nothing. That a write takes its time is in `Apply`; that it may be
lost is Actuator's subject.

### SetpointLaw and Setpoint
All watts are integers, percentages are applied as the code's rounding leaves
them, the pessimism factor of the evening is in eightieths, the PV multiplier of
the day in tenths. `Setpoint` closes the loop: the inverter holds the grid at the
applied setpoint, the battery takes up the rest, readings come at any time. A
scene is the set of inputs that are not fed back (sun, house, car, knobs, slot of
the day). Writes are on and none is lost there: that is Actuator's subject.

## 3. Runs

| Run | Question | Result |
|---|---|---|
| `actuator` | targets, writes, readbacks, kill switch, retry, refinement of AckedDelivery, convergence | holds |
| `ess_state` | one write per change of target, none repeated, a kept battery released again and again | holds |
| `core_dag` | sorts or refuses for the cause it gives, canonical order, same-event reads; which reads of the shipped graph are late: exactly two | holds |
| `schedule_feed` | readbacks are schedules the device held; the readback and the goal converge, a fractional goal on the device only | holds |
| `eddi` | Normal only when authorised, dwell kept, steady wishes carried out | holds |
| `zappi` | the day is left to the user, extended charging rests on the verdict of the date, what a slot asks for comes about | holds |
| `setpoint` | caps, export stops, imports only by the hard clamp, drain loop converges | holds |
| `current_limit` | an overload seen is cut, none lasts where the loads fit, a battery that wants charge gets it | holds |
| `retained` | what users set is in force after a restart, the battery stays closed to the car, writes wait for the knobs | holds |
| `full_charge` | the next charge is a Sunday, only a full battery or a user settles one, the battery is filled again and again | holds |
| `night_plan` | the extended window rests on a plan of the same day, made for the sun of that day; schedule 1 stays off once its target was reached | holds |
| `zappi_autostop` | SPEC.md:123: the session limit forces Off at night | violated |

The violation is a disagreement between the SPEC and the code; `PROJECT.json`
(findings) quotes both and tells the scenario. Section 5 lists nine more
counterexamples that have a configuration of their own.

The type invariants are theorems (section 4), so no run spends its time on them.

Bounds, and why they suffice:

* `actuator`: values 0, 1, 4 with tolerance 3 and dead-band 2 give all relations two
  values can have (inside both, inside the tolerance only, outside both); ages
  saturate at the thresholds; one sampled readback, one late write and one foreign
  write suffice for every race of a pair; losses and flips are unbounded.
* `ess_state`: six slots a day, windows of two and of zero slots, a sun that is fresh for
  one slot more than its own, either value in the register at the start, one sampled readback,
  one lost write, one change by others, any number of restarts, three flips of the switch
  between two of them (on-off-on, so an edge is met in every phase).
* `core_dag`: every graph on four cores in which only one may depend on itself, lists
  in both directions, shorter, with duplicates, empty; the shipped graph registered
  in 18 orders. Two events per registry. The sort really stops after them,
  hence no deadlock check.
* `schedule_feed`: two fields, a SoC of 80, 87.5 or 88 %, two goals that differ by the
  fraction only and so are the same on the bus, one fault of any kind; the device starts with
  any schedule it can hold. `ScheduleFeedMix.cfg` has three goals.
* `eddi`: two calls in flight, one foreign change, dwell 2, retry age 1.
* `zappi`: two calls in flight (enough to land in the wrong order), retry age 1; foreign
  changes, restarts, knob and switch commands and days are unbounded.
* `setpoint`: the scenes are the evening discharge, a charging car with a large
  and with a small export limit, curtailed sun with an excluded load, and the
  kill switch. Watts are scaled down; rounding (50 W), dead-band (25 W) and the
  idle setpoint (10 W) are the program's.
* `current_limit`: the unit is half an ampere, so that rounding up to amperes shows; a breaker
  of 10 A, a floor of 2 A, a car of 3 A. Nine scenes cover every branch of the law, the car
  below, at and above its target, and loads that do and do not fit. One change of scene:
  what the limit and the readings were before is then as different as the scenes can make
  it. Two changes hold too (`MaxChanges = 2`, four minutes).
* `retained`: one command, one restart and one fault, each at any moment, from a broker
  that knows everything or nothing. Two commands with a restart or with a fault hold too
  (`MaxEdits = 2` and 0 for the other; ten million states, two minutes), and the proof
  has any number of all three. The program of the model is idle once it has announced and its
  edits are used up, hence no deadlock check.
* `full_charge`: four calendars (the default, both clamped ends, always deferred), dates
  moved to tomorrow and to the day after the next weekend, two edits, one restart,
  any number of weeks.
* `night_plan`: three skies, sensors lost and the car's inputs one at a time, one change of
  the knob; restarts, lost forecasts, full charges called for and days are unbounded.

Fairness. The runtime loop takes events for ever and a ticker sends ticks, so
ticks and the processing of readings are fair. Strong fairness is used where a
guard comes and goes with the outbox: between two events the outbox empties, but
the action competes with others for the free moment, and the event channel is
first in first out. `SF(WriteOk)`, `SF(TakeSignal)`, `SF(Reseed)` and
`SF(CallLands)` say that a bus or a cloud which is tried infinitely often works
infinitely often; without it nothing can be delivered, and the safety properties do
not use it. In `EssState` delivery is never retried: that losses and foreign
changes come to an end is their bound, and `KeptBatteryReleased` says what is left without it. In `Setpoint` weak fairness of ticks, battery readings and the inverter
suffices; in `CurrentLimit` of each meter being read with all sensors usable and
of the writes being executed. In `Zappi` nothing makes the clock leave a slot: `WishCarriedOut` speaks of
slots that last, and the other properties of those that do not. In `FullCharge` events
with all sensors there go on, the clock goes on, and an inverter asked in window after
window charges in some window (`SF(GridCharges)`). `CoreDag`, `Retained` and `NightPlan`
have safety only.

Every property has a mutant of the code (dropped guard, reordered step, missing
reset) that its run rejects.

## 4. Proofs

`ActuatorProofs` shows, for all values, owners, tolerances, thresholds and bounds (as
assumed in `ActuatorAssumption`, `NoneAssumption` and `NoneIsNoRecord`), that every
safety and action property of the `actuator` run holds, and that `Spec` implements
`AckedDelivery!Spec`. The inductive invariant adds to the properties how target,
`lastWrite` and `reported` hang together in each phase: that a Commanded target is
the last write is not inductive alone, because a proposal from observer mode and
the kill-switch edge pass through Pending and Unset. One lemma per action, and
`NextPreserves` puts them together.

`CoreDagProofs` shows, for every set of cores, every graph and any number of
events: no core before its dependencies nor twice, a built registry is
complete, reads are of the same event, no core is skipped. The invariant is
`TypeOK /\ TopologicalOrder /\ BuildInv /\ RunInv /\ SameTickReads`; completeness
needs a counting argument (a sequence without repetitions over the ids, as long
as the ids are many, contains them all), which cites `FiniteSetTheorems`. On top of it
`DagInv` gives the rest: a refusal is for its cause (`VerdictCorrect`), the order is
the canonical one (`OrderCanonical`), the reads of the shipped graph are current but for
two (`ReadsCurrent`). The first needs `StuckUnplaced`: of a set of cores each of which waits for
another one of the set, none is ever placed, since the first would have had one before it;
so what the sort leaves over is exactly the cores on or behind a cycle. The second keeps, for
each place in the order, that whatever could have stood there is not smaller
(`LeastFirst`). The third keeps, for each core that has run, the stamp it saw on every
other one (`ReadInv`), and then needs the shipped order only.

`ZappiProofs` shows for any retry age and any number of calls in flight that by day
nothing is called and no call left over lands to charge the car, and that in Auto
extended charging rests on a verdict of the same date. The invariant adds
`NoFastInFlight` (from the moment the stop window has been entered for long enough no
call for Fast is under way: the clock leaves a slot only when all calls have ended)
and `VerdictDated` (past the first tick after 04:30 the verdict in Auto is of today).

`SetpointProofs` shows for all knobs, hardware limits, scenes and readings that the
law yields an integer, that the setpoint in force respects the caps up to the
dead-band, that exports end when they have to, and that the grid is drawn on only by
the hard clamp. Its invariant is `TypeOK /\ CapsHeld /\ ExportStopsWhenTold`; the lemmas
bound `Evaluate` from above by idle and `Proposal` from both sides, branch
by branch; division and rounding are treated by `DivInt` and `PrepareBound`.

`FullChargeProofs` shows for all calendars and all dates users choose that a date the
code chose is a Sunday and never more than 13 days ahead (part of `TypeOK`), and
that an overdue charge is settled by a full battery or a user only. The arithmetic
is in one lemma, `NextChargeDateIsASunday`; the invariant `TypeOK /\ NextIsASunday` is
inductive because midnight moves weekday and date together.

`ScheduleProofs` is about both halves of a schedule. Of `NightPlan` it shows for all inputs
the cores may find: in the extended window the flag
is of today, a plan made there is for today's sun, and schedule 1 stays off once its
target was reached. The invariant adds where each stamp may stand in each slot
(`Dated`: the flag, the sunset, the forecast) and that a weighed "Off" is latched
(`OffIsLatched`). The three rest on facts of time stated in `ClockEnters`: a tick
comes in every slot, the sunset is recomputed in the first two hours of the day, a
forecast fetched before midnight is stale by 05:00.

Of `ScheduleFeed` it shows, for any fields, values, queue lengths and number of faults,
that what the controller is told while nobody else writes, the device has held
(`ReadbacksWereHeld`), and that a goal is then confirmed only if the device has held it
(`ConfirmedOnlyAfterWrites`). Neither is inductive alone. The invariant says that, field by
field, the accumulator and the message being routed are the two halves of one schedule
from the device's past (`OneReply`), that no signal is waiting, and that every
readback on its way is from that past. A signal or a cut session breaks exactly
this, which is why both statements end there. `ScheduleFeedAssumption` asks that the set of
schedules is the product of what its fields may hold, as it is in the code's type: a complete
accumulator is then a schedule, if perhaps one never held. It also asks that what a field becomes
on the wire is among its values.

`LoadProofs` is about the two components that steer loads. Of `CurrentLimit`, for all hardware,
knobs, scenes and mixtures of readings that
`CurrentLimitAssumption` admits: the limit is one the register takes, and an event
which finds the breaker full while the battery is charged leaves room for all loads
seen and the car's target. The argument: the relaxation is nothing once the breaker is full
(`UnderuseBound`), the law then leaves the rating less what is committed or its floor
(`FitBound`, `EvaluateBound`), and the dead-band adds no more than itself.

Of `Eddi`, for all time-outs, dwell and retry times and any number of calls in flight:
Normal is called for only with a fresh SoC, in a Normal window or at the enable
threshold, and never within the dwell time of an earlier call. The dwell clock is reset by decisions, the property speaks of
calls; that they agree is the invariant `DwellInv`: the clock was last started with the last
call, or after it by a decision the kill switch kept back, so it errs on the long side.
`EddiAssumption` says that None is neither a mode nor a number.

`SettingsProofs` is about settings that live outside the program. Of `EssState`, for any days,
offsets and numbers of restarts, losses, foreign changes and flips: the
target is the last write while writes have stayed on, and no write of such
a time repeats its predecessor. The invariant is `TypeOK /\ WellFormed(target) /\
TargetIsLastWrite`; the second result is an action property from it.

Of `Retained`, for any number of commands, restarts and faults, and so for queues of any
length: a wish that fell into none of the gaps is in force once the program has booted
(`WishesAreInForce`), the battery stays closed to the car (`BatteryIsKept`), and the
kill switch comes back after the knobs (`WritesComeLast`). `RetainedInv` follows each wish along
its way: on the broker before the subscription, then the first message of its topic in the
connection (`Coming`), then the only retained value of its topic in the queue, or in force
(`Arrived`); and at every moment what the broker would retain once it had taken all that is
on the wire is the wish again (`Durable`), so that a restart which loses nothing of the
topic finds it. Two details had to be found. The date is exempt from `Durable` until its
retained value has been taken, since the core may have published one of its own before.
And a command that repeats the value in force is harmless only because by then the initial publication
has said what is in force, or is about to (`Announcing`); this also showed that an earlier
form of the model was too kind, which took such a command to repair a publish given
up before. The order of the knobs and the kill switch is a matter of who may stand before whom in the
connection (`Rivals`) and in the queue (`KnobBefore`); the car's, of each retained permission
having the reset behind it (`Shut`). Lemmas on appending and taking the head of a sequence carry
these over each step.

With this every invariant and every action property that the runs check without fairness is a
theorem. Only model-checked is what is temporal under fairness (outside the prover's reach, as is
ENABLED): `StableGoalConfirmed`, `KeptBatteryReleased`, `SteadyScheduleReported`,
`GoalConfirmed`, `WishCarriedOut` of both devices, `DrainIsCutBack`, `SolarIsExported`,
`OverloadEnds`, `ChargeGoesOn` and `FullChargeRecurs`.

## 5. Where documents and code part

Nine counterexamples can be run again (`tlc -config X.cfg M`); each checks one
sentence (of a document or a comment; that of `CurrentLimitStarved.cfg` is ours) and TLC
shows the trace that refutes it:

| Configuration, module | Sentence | What happens |
|---|---|---|
| `EssStateLost.cfg`, `MCEssState` | writer.rs:5-7: a failed write is re-proposed on the next tick | the ESS-state core returns on an unchanged target: a lost write is never repeated |
| `EssStateEdge.cfg`, `MCEssState` | process.rs:572-576: the edge of the kill switch re-proposes every target | the ESS-state target is not among those reset |
| `EssStateBoot.cfg`, `MCEssState` | the same sentence over time: with no write lost and nobody else writing, writes switched on for good bring a register found at Keep back to Optimized | after a restart inside the window the first event proposes Optimized in observer mode; the edge does not reset it and the core returns on an unchanged target: the battery is held until the next window closes, if there is one |
| `ScheduleFeedRound.cfg`, `MCScheduleFeed` | SPEC.md:226: schedules are confirmed exactly, field by field; so a steady goal is in the end confirmed | a SoC of 87.5 (both setters accept it) is written as 88 (process.rs:2160) and never equals the readback (process.rs:468): rewritten at every retry |
| `ScheduleFeedMix.cfg`, `MCScheduleFeed` | subscriber.rs:337-350: only what was observed afresh is confirmed | two leaves of different moments make up a schedule the device never held, and confirm it |
| `EddiBlind.cfg`, `Eddi` | eddi_mode.rs:4-7: without a usable SoC the Eddi is Stopped | the rule leaves the mode alone, and a Normal confirmed before stays |
| `BootstrapLost.cfg`, `Retained` | main.rs:301-303: the initial publication is round-trip-stable | a broker that refuses the first connection ends the bootstrap for good (mqtt/mod.rs:646-649); 3 s after boot the defaults overwrite every retained knob |
| `CurrentLimitStarved.cfg`, `MCCurrentLimit` | a battery that wants charge in the charge window is charged, car or no car | with the car active, one event that finds the battery not charging caps the limit at the current of the loads (current_limit.rs:239), which keeps the battery from charging: latched for the window |
| `SetpointBridge.cfg`, `MCSetpoint` | plan of the drain loop, line 422: loads with a dead bridge count 0 | the last value is used |

Met while reading, without a configuration:

* Restarts and days. A restart after 04:30 latches the verdict on extended charging FALSE
  before the car was read, although `process.rs:1325` calls it persisted in
  bookkeeping. A forecast fetched before midnight and read after midnight with the new
  sunset gives a plan from yesterday's total; with the sunset of yesterday, today's
  forecast gives one for tomorrow: both are possible until 05:00 and gone
  by then (`PlansAreForToday`). `world.rs:273-281` has the planner run at 01:55; it runs
  in every event.
* The above-SoC latch is asked only while the night discharge is allowed: a planner run that
  forbids it switches schedule 1 on again in the same window.
* A next_full_charge cleared or lost is seeded anew; on a Sunday after 17:00 the seed is
  the Sunday a week later, and a charge due that day is skipped.
* Retained state. A value out of range, which the dashboard accepts, is in force until
  the next boot and refused then. An edit inside the window is overwritten by the
  retained value behind it. After a bootstrap cut short an edit that equals the default
  changes nothing and is not published. A publish that takes longer than a second is
  dropped and the cache believes it sent. A date may be seeded before the retained one
  arrives, and is published. A retained `allow_battery_to_car` of true is in force for
  up to the 2 s of the window, against SPEC.md:317. `main.rs:481-483` gives the window as
  750 ms; it is 2 s.
* `tass/actuated.rs:142-147` holds Confirmed to be equivalent to a matching actual; a
  target stays Confirmed when a later readback differs (run `zappi_autostop`).
* `tass/phase.rs:13` says phases cannot be skipped; `confirm_if` accepts Pending.
  `phase.rs:12` says Unset occurs at construction only; `reset_to_unset` restores it.
* `SPEC.md:355` on the stale Eddi reading against `process.rs:2276`; `SPEC.md:325,328`
  know no tariff windows, `eddi_mode.rs:96` has them; the comment on the hold at
  `eddi_mode.rs:205-208` against `Leave`.
* `process.rs:1550-1561` replaces a clipped export by an explicit idle command, but a
  raw 0 W can still be commanded (hard clamp, or an import cap of 0).
* The drain plan's line 464 lets the setpoint peg at the import limit; the soft loop
  never leaves idle upwards, only the hard clamp imports, and the default
  `grid_import_limit_w` of 10 W neutralises it.
* The drain loop's steps are "per tick" in the plan and per event in the code; an upward
  relaxation below 25 W is swallowed by the rounding; with the Fast clamp engaged
  the setpoint is recomputed from idle each event and may cycle.
* `ess_state_override.rs:68-70` says the shell short-circuits the write; it does not.
* `pinned` corrective writes do not ask the kill switch (`process.rs:270`).
* `SPEC.md` 5.13 has all targets forced to Unset by `writes_enabled=false`; they are
  reset by the opposite edge only.
* The input current limit with the car below its target in Fast: the room the emergency margin
  leaves unused comes back through the grid's meter as relaxation, so the limit goes to and fro
  between two values, within the breaker. A `zappi_current_target` that leaves less than
  the floor below the breaker, which the dashboard and the configuration accept, makes the
  bounds of the clamp cross (current_limit.rs:330) and `f64::clamp` panic.
* `forecast_fusion.rs`: the non-finite filter does not cover the branch that takes
  Solcast alone.

## 6. Not modelled

Formats (MQTT payloads, discovery, JSON), presentation (dashboard conversion, charts, web
UI, generated codecs), configuration, logging and diagnostics carry no control
state; they are also most of the repository's lines. The HTTP forecast fetchers matter
only through freshness and the day they speak of. The planner's 6x2 table and the fusion
of forecasts are inputs of `NightPlan`, the knob `pessimism_multiplier_modifier`
is at its default of 1 in `SetpointLaw`, the observables and the balance chart are left out of
`Setpoint`.

Control that is still missing, with the hazards it leaves open: the D-Bus writer's shared connection and its
back-off; the subscriber's owner map, heartbeat and reseed heap; the pinned registers.

## 7. Plan

Done, in this order: the TASS entities and the D-Bus actuator with its
refinement; the ESS-state override; the registry; the schedule feed; the Eddi; the
setpoint loop; the proofs of Actuator, CoreDag and Setpoint; then the Zappi, the
retained state and its bootstrap, the calendar of full charges, the night plan with the
rule of the schedules, the input current limit, and the proofs of EssState, Zappi, FullCharge,
NightPlan and CurrentLimit; then the proofs of ScheduleFeed, Eddi and Retained, and the
rest of those of CoreDag.

Next, modules: `Writer` (shared connection, the race of connect and mark_failed, back-off), `Session`
(owner map, dual silence, reseed heap), `Pinned`, `WeatherSoc` (the table and its
override, as operators against a reference) and `House`: several cores over one event,
composed along `ProductionDag`, where the two late reads meet real controllers.

Next, proofs: what the liveness results rest on, short of fairness: that the drain loop
cannot move away from its goal in `Setpoint`, that a steady goal's write reaches the register in
`ScheduleFeed`; and an abstract specification of the writer that the Actuator's environment
refines to.
