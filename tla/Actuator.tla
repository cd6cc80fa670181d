------------------------------ MODULE Actuator ------------------------------
(***************************************************************************)
(* One D-Bus actuator of the controller, end to end: the core's            *)
(* propose/retry/confirm cycle (maybe_propose_setpoint, run_current_limit  *)
(* and the readback arms of apply_sensor_reading in process.rs), the       *)
(* runtime that dispatches the write before it takes the next event        *)
(* (shell/src/runtime.rs), a writer whose SetValue may be refused, lost or *)
(* time out and land later (shell/src/dbus/writer.rs), the device, and the *)
(* FIFO channel on which the subscriber delivers readbacks.                *)
(*                                                                         *)
(* What the pure controller asks for is an input: `want` changes to any    *)
(* (value, owner) at any event, or to None when its inputs are unusable    *)
(* and it proposes nothing (build_current_limit_input).                    *)
(***************************************************************************)
EXTENDS Integers, Sequences, Tass

CONSTANTS
  Tol,        \* confirm tolerance   (Topology controller_params)
  Deadband,   \* retarget dead-band  (Topology controller_params)
  RetryAge,   \* knob actuator_retry_s, in time units
  FreshAge,   \* readback staleness threshold, in time units
  InboxCap,   \* bound: readbacks waiting in the event channel
  LateCap,    \* bound: writes that timed out and may still land
  Meddling    \* bound: writes by somebody else to the same register

ASSUME ActuatorAssumption ==
  /\ Values \subseteq Int
  /\ NoOwner \notin Owners
  /\ Tol \in Nat /\ Deadband \in Nat
  /\ RetryAge \in Nat /\ FreshAge \in Nat
  /\ InboxCap \in Nat /\ LateCap \in Nat /\ Meddling \in Nat

VARIABLES
  target, actual,   \* the Actuated record of the world
  writesEnabled,    \* world.knobs.writes_enabled, the kill switch
  want,             \* what the controller evaluates to
  reported,         \* phase carried by the last ActuatedPhase publish
  outbox,           \* the WriteDbus effect being dispatched, or None
  device,           \* the register
  late,             \* timed-out writes that may still land
  inbox,            \* readbacks on their way to the core, oldest first
  meddled,          \* how many foreign writes happened
  lastWrite         \* history: the last WriteDbus emitted, and its age

core == <<target, actual, writesEnabled, want, reported>>
env == <<device, late, inbox, meddled>>
vars == <<core, outbox, env, lastWrite>>

\* Ages saturate above both thresholds.
AgeCap == IF RetryAge > FreshAge THEN RetryAge ELSE FreshAge + 1
Ages == 0 .. AgeCap
Wants == [value : Values, owner : Owners] \union {None}
Samples == [value : Values, age : Ages]
Writes == [value : Values, owner : Owners, age : Ages]

ASSUME NoneIsNoRecord ==
  None \notin Writes /\ None \notin [value : Values, owner : Owners]

Distance(x, y) == IF x < y THEN y - x ELSE x - y

\* The confirm predicate: |target - actual| within the tolerance.
Close(t, a) == Distance(t, a) <= Tol

-----------------------------------------------------------------------------
(* The controller's half of process(): propose, retry, and write.  The     *)
(* result is the new target and actual, the write emitted (None: no write) *)
(* and the phase last published (`rep` when nothing is published).         *)

\* The dead-band holds back changes of a confirmed target only: it must not
\* pre-empt a retry.
HeldByDeadband(t, w) ==
  /\ t.value # None
  /\ t.phase = "Confirmed"
  /\ Distance(t.value, w.value) < Deadband

\* Variant: a write is made on a new goal only; nothing is retried.
ActsOnce(t, w) ==
  /\ w # None
  /\ ~ HeldByDeadband(t, w)
  /\ ProposeChanges(t, w.value, w.owner)

\* The controller has something to do: a new goal, or an overdue old one.
Acts(t, w) ==
  /\ w # None
  /\ ~ HeldByDeadband(t, w)
  /\ \/ ProposeChanges(t, w.value, w.owner)
     \/ NeedsActuation(t, RetryAge)

\* Variant: observer mode marks the target commanded.
ControllerTargetUngated(t, w, enabled) ==
  IF Acts(t, w) THEN MarkCommanded(ProposeTarget(t, w.value, w.owner)) ELSE t

ControllerTarget(t, w, enabled) ==
  LET proposed == ProposeTarget(t, w.value, w.owner)
  IN  IF ~ Acts(t, w) THEN t
      ELSE IF enabled THEN MarkCommanded(proposed) ELSE proposed

ControllerActual(t, a, w, enabled) ==
  IF Acts(t, w) /\ enabled
  THEN MarkCommandedActual(ProposeTarget(t, w.value, w.owner), a)
  ELSE a

ControllerWrite(t, w, enabled) ==
  IF Acts(t, w) /\ enabled THEN w.value ELSE None

\* Observer mode publishes the phase too (PR-SCHED0-D03).
ControllerReport(t, w, enabled, new, rep) ==
  IF Acts(t, w) THEN new.phase ELSE rep

\* process(): the event has turned the entity into <<t, a>>, the kill switch
\* into `enabled` and the published phase into `rep`; the controller runs.
Process(t, a, enabled, w, rep) ==
  /\ outbox = None
  /\ target' = ControllerTarget(t, w, enabled)
  /\ actual' = ControllerActual(t, a, w, enabled)
  /\ writesEnabled' = enabled
  /\ want' = w
  /\ reported' = ControllerReport(t, w, enabled, target', rep)
  /\ outbox' = ControllerWrite(t, w, enabled)
  /\ lastWrite' = IF outbox' # None
                  THEN [value |-> w.value, owner |-> w.owner, age |-> 0]
                  ELSE lastWrite

-----------------------------------------------------------------------------
(* Events of the runtime loop.                                             *)

\* Event::Tick: the readback decays, then the controllers run.
TickEvent ==
  /\ Process(target, Decay(actual, FreshAge), writesEnabled, want, reported)
  /\ UNCHANGED env

\* Any other event (a sensor, a knob, a timer): the controller's result
\* becomes w.
InputEvent(w) ==
  /\ Process(target, actual, writesEnabled, w, reported)
  /\ UNCHANGED env

\* Event::Sensor for this actuator's readback: record it, try to confirm.
ReadingEvent ==
  /\ inbox # <<>>
  /\ LET r == Head(inbox)
         a == OnReading(r.value, r.age)
         t == ConfirmIf(target, a, Close(target.value, a.value), r.age)
         rep == IF t.phase # target.phase THEN t.phase ELSE reported
     IN  Process(t, a, writesEnabled, want, rep)
  /\ inbox' = Tail(inbox)
  /\ UNCHANGED <<device, late, meddled>>

\* Variant: the edge resets nothing.
EdgeTargetKept(enabled) == target

\* Command::KillSwitch(enabled): the false -> true edge unsets the target.
EdgeTarget(enabled) ==
  IF ~ writesEnabled /\ enabled THEN UnsetTarget ELSE target

KillSwitchEvent(enabled) ==
  /\ LET edge == ~ writesEnabled /\ enabled
     IN  Process(EdgeTarget(enabled), actual, enabled, want,
                 IF edge THEN "Unset" ELSE reported)
  /\ UNCHANGED env

-----------------------------------------------------------------------------
(* The writer and the bus.                                                 *)

\* SetValue succeeded.
WriteOk ==
  /\ outbox # None
  /\ device' = outbox
  /\ outbox' = None
  /\ UNCHANGED <<core, late, inbox, meddled, lastWrite>>

\* No connection, reconnect throttled, dry run, or SetValue refused.
WriteLost ==
  /\ outbox # None
  /\ outbox' = None
  /\ UNCHANGED <<core, env, lastWrite>>

\* SetValue timed out: the call may still reach the device.
WriteTimesOut ==
  /\ outbox # None
  /\ Len(late) < LateCap
  /\ late' = Append(late, outbox)
  /\ outbox' = None
  /\ UNCHANGED <<core, device, inbox, meddled, lastWrite>>

LateWriteLands ==
  /\ late # <<>>
  /\ device' = Head(late)
  /\ late' = Tail(late)
  /\ UNCHANGED <<core, outbox, inbox, meddled, lastWrite>>

\* The bus reports the register: ItemsChanged, a periodic GetItems reseed or
\* the reseed kicked by a write.
Readback ==
  /\ Len(inbox) < InboxCap
  /\ inbox' = Append(inbox, [value |-> device, age |-> 0])
  /\ UNCHANGED <<core, outbox, device, late, meddled, lastWrite>>

\* Somebody else (the GX console, another program) writes the register.
ForeignWrite(v) ==
  /\ meddled < Meddling
  /\ v # device
  /\ meddled' = meddled + 1
  /\ device' = v
  /\ UNCHANGED <<core, outbox, late, inbox, lastWrite>>

-----------------------------------------------------------------------------
(* Time, and a restart of the service.                                     *)

Elapse ==
  /\ target' = Older(target, AgeCap)
  /\ actual' = Older(actual, AgeCap)
  /\ inbox' = [i \in 1 .. Len(inbox) |-> Older(inbox[i], AgeCap)]
  /\ lastWrite' = IF lastWrite = None THEN None ELSE Older(lastWrite, AgeCap)
  /\ UNCHANGED <<writesEnabled, want, reported, outbox, device, late, meddled>>

\* The process dies and boots: a fresh World, writes off (SPEC 5.9), an empty
\* channel.  The retained phase topic, the device and late writes survive.
Restart ==
  /\ target' = UnsetTarget
  /\ actual' = UnknownActual
  /\ writesEnabled' = FALSE
  /\ want' = None
  /\ outbox' = None
  /\ inbox' = <<>>
  /\ lastWrite' = None
  /\ UNCHANGED <<reported, device, late, meddled>>

-----------------------------------------------------------------------------
Init ==
  /\ target = UnsetTarget
  /\ actual = UnknownActual
  /\ writesEnabled = FALSE
  /\ want = None
  /\ reported = "Unset"
  /\ outbox = None
  /\ device \in Values
  /\ late = <<>>
  /\ inbox = <<>>
  /\ meddled = 0
  /\ lastWrite = None

Core ==
  \/ TickEvent
  \/ \E w \in Wants : InputEvent(w)
  \/ ReadingEvent
  \/ \E enabled \in BOOLEAN : KillSwitchEvent(enabled)

Bus ==
  \/ WriteOk
  \/ WriteLost
  \/ WriteTimesOut
  \/ LateWriteLands
  \/ Readback
  \/ \E v \in Values : ForeignWrite(v)

Next == Core \/ Bus \/ Elapse \/ Restart

\* The runtime loop never stops taking events and its interval timer keeps
\* ticking; the reseed scheduler keeps polling; time passes; and a bus that is
\* asked again and again accepts a write again and again.
Fairness ==
  /\ SF_vars(TickEvent)
  /\ SF_vars(ReadingEvent)
  /\ WF_vars(Readback)
  /\ WF_vars(Elapse)
  /\ WF_vars(WriteOk \/ WriteLost \/ WriteTimesOut)
  /\ WF_vars(LateWriteLands)
  /\ SF_vars(WriteOk)

Spec == Init /\ [][Next]_vars
FairSpec == Spec /\ Fairness

-----------------------------------------------------------------------------
(* Properties.                                                             *)

TypeOK ==
  /\ target \in Targets(Ages)
  /\ actual \in Actuals(Ages)
  /\ writesEnabled \in BOOLEAN
  /\ want \in Wants
  /\ reported \in Phases
  /\ outbox \in Values \union {None}
  /\ device \in Values
  /\ late \in Seq(Values) /\ Len(late) <= LateCap
  /\ inbox \in Seq(Samples) /\ Len(inbox) <= InboxCap
  /\ meddled \in 0 .. Meddling
  /\ lastWrite \in Writes \union {None}

\* A Commanded target is the target of the last write emitted, and its retry
\* clock is that write's age.
CommandedWasWritten ==
  target.phase = "Commanded" =>
    lastWrite = [value |-> target.value, owner |-> target.owner,
                 age |-> target.age]

\* While writes are on, every target the controller has proposed has also been
\* written.
LiveTargetWasWritten ==
  (writesEnabled /\ target.phase # "Unset") =>
    /\ target.phase \in {"Commanded", "Confirmed"}
    /\ lastWrite # None
    /\ lastWrite.value = target.value
    /\ lastWrite.owner = target.owner

\* Nothing reaches Commanded without a write, observer mode included, and no
\* write's retry clock is lost or restarted (actuated.rs 45-69); with writes on
\* no target is left Pending and none was confirmed by a readback alone,
\* whatever observer mode left behind (process.rs 569-603).
TargetsAreWritten == CommandedWasWritten /\ LiveTargetWasWritten

\* A Commanded target never coexists with a Fresh readback that matches it:
\* the readback from before the write was deprecated when the write was
\* emitted, and the first matching one after it confirms.
CommandedNotSeen ==
  (target.phase = "Commanded" /\ actual.freshness = "Fresh") =>
    ~ Close(target.value, actual.value)

\* The retained ActuatedPhase publish is never behind the phase, however
\* the phase got there (PR-SCHED0-D03), once the service has proposed at all.
PhaseReported == target.phase # "Unset" => reported = target.phase

\* The effect of a process() call is a WriteDbus of value v for owner o.
Emits(v, o) ==
  /\ outbox = None
  /\ outbox' = v
  /\ lastWrite' # None
  /\ lastWrite'.owner = o

\* The same write is not repeated before actuator_retry_s has passed, unless
\* the kill-switch edge unset the target: a slow device is not flooded.
RepeatIsPaced ==
  \A v \in Values, o \in Owners :
    ( /\ Emits(v, o)
      /\ lastWrite # None
      /\ lastWrite.value = v
      /\ lastWrite.owner = o
      /\ target.phase # "Unset"
      /\ writesEnabled ) => lastWrite.age >= RetryAge

RetryPaced == [][RepeatIsPaced]_vars

\* Turning writes on forces the controller's current goal out at once,
\* whatever phase observer mode or an earlier live run left behind (A-06).
EdgeWrites ==
  (~ writesEnabled /\ writesEnabled' /\ want # None) => outbox' = want.value

EdgeForcesWrite == [][EdgeWrites]_vars

\* The actuator implements at-least-once delivery.
Delivery ==
  INSTANCE AckedDelivery WITH
    goal <- IF target.phase = "Unset" THEN None
            ELSE [value |-> target.value, owner |-> target.owner],
    open <- Outstanding(target),
    order <- outbox,
    report <- actual.value

DeliversAtLeastOnce == Delivery!Spec

\* With writes on and a goal that no longer changes, the goal is eventually
\* confirmed for good, however many writes are lost, late or overwritten.
GoalInForce(w) == writesEnabled /\ want = w

StableGoalConfirmed ==
  \A w \in Wants \ {None} :
    <>[]GoalInForce(w) => <>[](target.phase = "Confirmed")
=============================================================================
