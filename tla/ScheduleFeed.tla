----------------------------- MODULE ScheduleFeed -----------------------------
(***************************************************************************)
(* One charge schedule, end to end.  Its target is a record of fields that *)
(* goes out as one SetValue per field (maybe_propose_schedule) and comes   *)
(* back one field at a time: the subscriber collects the fields of GetItems*)
(* replies and ItemsChanged signals in an accumulator and emits a readback *)
(* when it is complete (SchedulePartial, shell/src/dbus/subscriber.rs).    *)
(* Both kinds of message are hash maps, so their fields come in any order. *)
(* Every field is an int32 on the bus; the SoC is an f64 in the core, is   *)
(* rounded when it is written, and is compared exactly when it comes back. *)
(*                                                                         *)
(* What the schedules controller asks for is an input, `want`.  Nothing    *)
(* here reads the age or the freshness of the readback, so it has age 0    *)
(* and does not decay.                                                     *)
(***************************************************************************)
EXTENDS Integers, Sequences, Tass

CONSTANTS
  FieldOrder,    \* the fields of a ScheduleSpec, in the order of their writes
  Specs,         \* the schedules asked for: a subset of Values
  RetryAge,      \* knob actuator_retry_s, in time units
  InboxCap,      \* bound: readbacks waiting in the event channel
  SignalCap,     \* bound: signals waiting in the message stream
  MaxFaults      \* bound: SetValues lost, changes by others, sessions ended

Fields == {FieldOrder[i] : i \in 1 .. Len(FieldOrder)}

\* What a field holds in some schedule; Values of Tass is the set of schedules.
FieldValues(f) == {v[f] : v \in Values}
AnyValue == UNION {FieldValues(f) : f \in Fields}

Clamped(n) == IF n < 0 THEN 0 ELSE IF n > 100 THEN 100 ELSE n

\* What SetValue carries for x.  The field "soc" counts half per cents:
\* soc.round().clamp(0.0, 100.0) as i32.
OnWire(f, x) == IF f = "soc" THEN 2 * Clamped((x + 1) \div 2) ELSE x

Sent(v) == [f \in Fields |-> OnWire(f, v[f])]

\* The schedules the settings service can hold.
Stored == {v \in Values : Sent(v) = v}

\* The fields of a schedule are independent of each other, and what is written
\* to a field can be read from it.
ASSUME ScheduleFeedAssumption ==
  /\ FieldOrder \in Seq(Fields) /\ FieldOrder # <<>>
  /\ Values = {v \in [Fields -> AnyValue] : \A f \in Fields : v[f] \in FieldValues(f)}
  /\ \A f \in Fields : \A x \in FieldValues(f) : OnWire(f, x) \in FieldValues(f)
  /\ None \notin Values /\ None \notin AnyValue
  /\ Specs \subseteq Values /\ "ScheduleController" \in Owners
  /\ RetryAge \in Nat /\ InboxCap \in Nat /\ SignalCap \in Nat /\ MaxFaults \in Nat

\* A part of a schedule.
Partials ==
  {p \in [Fields -> AnyValue \union {None}] :
     \A f \in Fields : p[f] \in FieldValues(f) \union {None}}
Empty == [f \in Fields |-> None]

VARIABLES
  target, actual,   \* world.schedule_N
  writesEnabled,    \* world.knobs.writes_enabled
  want,             \* what the controller evaluates to, or None
  outbox,           \* fields still to be written for the present event
  device,           \* the schedule in the settings service
  accumulator,      \* schedule_accumulators[N]
  envelope,         \* the message being routed: its fields not yet routed
  signals,          \* ItemsChanged signals not yet taken
  inbox,            \* readbacks on their way to the core
  faults,           \* how often one of the bounded things happened
  disturbed,        \* history: somebody else wrote, or a session ended
  contents          \* history: every schedule the device has held

core == <<target, actual, writesEnabled, want>>
feed == <<accumulator, envelope, signals>>
history == <<disturbed, contents>>
feedVars == <<core, outbox, device, feed, inbox, faults, history>>

-----------------------------------------------------------------------------
(* The core: run_schedules, maybe_propose_schedule and the readback.       *)

\* Variant: a schedule is written once.
ActsOnce(t, w) == w # None /\ ProposeChanges(t, w, "ScheduleController")

Acts(t, w) ==
  /\ w # None
  /\ \/ ProposeChanges(t, w, "ScheduleController")
     \/ NeedsActuation(t, RetryAge)

RunSchedules(t, a, live, w) ==
  LET proposed == ProposeTarget(t, w, "ScheduleController")
      writes == Acts(t, w) /\ live
  IN  /\ outbox = <<>>
      /\ target' = IF ~ Acts(t, w) THEN t
                   ELSE IF live THEN MarkCommanded(proposed) ELSE proposed
      /\ actual' = IF writes THEN MarkCommandedActual(proposed, a) ELSE a
      /\ outbox' = IF writes THEN FieldOrder ELSE <<>>
      /\ writesEnabled' = live
      /\ want' = w

\* A tick, or any event that leaves the schedule's inputs alone.
TickEvent ==
  /\ RunSchedules(target, actual, writesEnabled, want)
  /\ UNCHANGED <<device, feed, inbox, faults, history>>

GoalEvent(w) ==
  /\ RunSchedules(target, actual, writesEnabled, w)
  /\ UNCHANGED <<device, feed, inbox, faults, history>>

KillSwitchEvent(live) ==
  /\ RunSchedules(IF ~ writesEnabled /\ live THEN UnsetTarget ELSE target,
             actual, live, want)
  /\ UNCHANGED <<device, feed, inbox, faults, history>>

\* Event::ScheduleReadback: record, confirm on equality.
ReadbackEvent ==
  /\ inbox # <<>>
  /\ LET a == OnReading(Head(inbox), 0)
         t == ConfirmIf(target, a, target.value = a.value, 0)
     IN  RunSchedules(t, a, writesEnabled, want)
  /\ inbox' = Tail(inbox)
  /\ UNCHANGED <<device, feed, faults, history>>

Elapse ==
  /\ target' = Older(target, RetryAge)
  /\ UNCHANGED <<actual, writesEnabled, want, outbox, device, feed, inbox,
                 faults, history>>

-----------------------------------------------------------------------------
(* The writer: one SetValue per field, each with its own fate.             *)

\* SetValue of the first field left.  The settings service announces nothing
\* of it; the reseed that the writer kicks is a Reseed.
WriteField ==
  /\ outbox # <<>>
  /\ LET f == Head(outbox)
     IN  device' = [device EXCEPT ![f] = OnWire(f, target.value[f])]
  /\ contents' = contents \union {device'}
  /\ outbox' = Tail(outbox)
  /\ UNCHANGED <<core, feed, inbox, faults, disturbed>>

WriteLost ==
  /\ outbox # <<>>
  /\ faults < MaxFaults
  /\ faults' = faults + 1
  /\ outbox' = Tail(outbox)
  /\ UNCHANGED <<core, device, feed, inbox, history>>

\* The GX console or another program sets some fields, with a signal that
\* carries the changed ones.
ForeignChange(v) ==
  /\ faults < MaxFaults
  /\ v # device
  /\ Len(signals) < SignalCap
  /\ faults' = faults + 1
  /\ disturbed' = TRUE
  /\ device' = v
  /\ contents' = contents \union {v}
  /\ signals' = Append(signals,
                       [f \in Fields |-> IF v[f] = device[f] THEN None ELSE v[f]])
  /\ UNCHANGED <<core, outbox, accumulator, envelope, inbox>>

-----------------------------------------------------------------------------
(* The subscriber's session: one message is routed at a time.              *)

\* Variant: GetItems only until a first value is known.
ReseedUntilKnown ==
  /\ envelope = Empty
  /\ actual.value = None
  /\ envelope' = device
  /\ UNCHANGED <<core, outbox, device, accumulator, signals, inbox, faults, history>>

\* A GetItems reply: the initial seed, the reseed schedule, or a kick.
Reseed ==
  /\ envelope = Empty
  /\ envelope' = device
  /\ UNCHANGED <<core, outbox, device, accumulator, signals, inbox, faults, history>>

TakeSignal ==
  /\ envelope = Empty
  /\ signals # <<>>
  /\ envelope' = Head(signals)
  /\ signals' = Tail(signals)
  /\ UNCHANGED <<core, outbox, device, accumulator, inbox, faults, history>>

\* Variant: one field is enough.
CompleteIfAny(p) == \E f \in Fields : p[f] # None

Complete(p) == \A f \in Fields : p[f] # None

\* route_to_event for one field of the message: store it, and when none is
\* missing emit the readback and start over (take_spec).
RouteField(f) ==
  /\ envelope[f] # None
  /\ Len(inbox) < InboxCap
  /\ LET filled == [accumulator EXCEPT ![f] = envelope[f]]
     IN  IF Complete(filled)
         THEN accumulator' = Empty /\ inbox' = Append(inbox, filled)
         ELSE accumulator' = filled /\ UNCHANGED inbox
  /\ envelope' = [envelope EXCEPT ![f] = None]
  /\ UNCHANGED <<core, outbox, device, signals, faults, history>>

\* The session ends, inside a message when its poll budget runs out while it
\* waits for room in the event channel.  The accumulator outlives it.
SessionEnds ==
  /\ faults < MaxFaults
  /\ faults' = faults + 1
  /\ disturbed' = TRUE
  /\ envelope' = Empty
  /\ signals' = <<>>
  /\ UNCHANGED <<core, outbox, device, accumulator, inbox, contents>>

-----------------------------------------------------------------------------
FeedInit ==
  /\ target = UnsetTarget
  /\ actual = UnknownActual
  /\ writesEnabled = FALSE
  /\ want = None
  /\ outbox = <<>>
  /\ device \in Stored
  /\ accumulator = Empty
  /\ envelope = Empty
  /\ signals = <<>>
  /\ inbox = <<>>
  /\ faults = 0
  /\ disturbed = FALSE
  /\ contents = {device}

FeedNext ==
  \/ TickEvent
  \/ \E w \in Specs : GoalEvent(w)
  \/ \E live \in BOOLEAN : KillSwitchEvent(live)
  \/ ReadbackEvent
  \/ Elapse
  \/ WriteField
  \/ WriteLost
  \/ \E v \in Stored : ForeignChange(v)
  \/ Reseed
  \/ TakeSignal
  \/ \E f \in Fields : RouteField(f)
  \/ SessionEnds

\* The runtime and the session keep running: ticks and readbacks are taken,
\* GetItems is repeated, messages are routed; time passes; a SetValue that is
\* not lost is applied.
FeedFairness ==
  /\ SF_feedVars(TickEvent)
  /\ SF_feedVars(ReadbackEvent)
  /\ WF_feedVars(Elapse)
  /\ WF_feedVars(WriteField)
  /\ SF_feedVars(Reseed)
  /\ SF_feedVars(TakeSignal)
  /\ \A f \in Fields : SF_feedVars(RouteField(f))

FeedSpec == FeedInit /\ [][FeedNext]_feedVars
FeedFairSpec == FeedSpec /\ FeedFairness

-----------------------------------------------------------------------------
(* Properties.                                                             *)

FeedTypeOK ==
  /\ target \in Targets(0 .. RetryAge)
  /\ actual \in Actuals({0})
  /\ writesEnabled \in BOOLEAN
  /\ want \in Specs \union {None}
  /\ outbox \in Seq(Fields) /\ Len(outbox) <= Len(FieldOrder)
  /\ device \in Values
  /\ accumulator \in Partials /\ ~ Complete(accumulator)
  /\ envelope \in Partials
  /\ signals \in Seq(Partials) /\ Len(signals) <= SignalCap
  /\ faults \in 0 .. MaxFaults /\ disturbed \in BOOLEAN
  /\ inbox \in Seq(Values) /\ Len(inbox) <= InboxCap
  /\ contents \subseteq Values

\* The reading the core has of a schedule that no longer changes is in the
\* end that schedule, however signals, replies and dropped sessions left the
\* accumulator: the leftover of one message is overtaken by the next.
SteadyScheduleReported ==
  <>[][FALSE]_device => <>[](actual.value = device)

\* With writes on and a goal that no longer changes, the schedule is in the
\* end confirmed for good, though its fields are written and lost one by one:
\* a schedule half written is written again.  A goal with a fraction in its SoC
\* is never confirmed; the device in the end keeps what it is rounded to.
GoalConfirmed ==
  <>[][FALSE]_want /\ <>[](writesEnabled /\ want # None)
    => \/ <>[](target.phase = "Confirmed")
       \/ <>[](want \in Values \ Stored /\ device = Sent(want))

\* While nobody else has written and no session has ended inside a message, a
\* readback is a schedule the device has held: all its fields
\* come from one reply ("either by the next 300 s settings GetItems reseed (which
\* delivers all 5 together) or by a full ItemsChanged envelope").
ReadbackWasHeld ==
  ~ disturbed => \A i \in 1 .. Len(inbox) : inbox[i] \in contents

\* A schedule that was confirmed by a readback has been on the device: the
\* hazard take_spec is there for is that "TASS might Confirm a target that
\* doesn't match the bus".
ConfirmedWasHeld == target.phase = "Confirmed" => target.value \in contents

\* The same while undisturbed: no confirmation outruns the writes of its fields.
ConfirmedAfterWrites == ~ disturbed => ConfirmedWasHeld

-----------------------------------------------------------------------------
(* Claims that the code does not keep.                                     *)

\* SPEC.md has the schedules confirmed exactly, field by field, and both setters
\* of the SoC target take fractions: a steady goal is in the end confirmed.
AnyGoalConfirmed ==
  <>[][FALSE]_want /\ <>[](writesEnabled /\ want # None)
    => <>[](target.phase = "Confirmed")
=============================================================================
