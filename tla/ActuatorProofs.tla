--------------------------- MODULE ActuatorProofs ---------------------------
(***************************************************************************)
(* Theorems about Actuator, for every set of values and owners, every      *)
(* tolerance, dead-band, retry and staleness threshold, and every bound.   *)
(*                                                                         *)
(* The inductive invariant IInv strengthens the checked ones with the      *)
(* shape of a target (a value and an owner exactly when it is not Unset)   *)
(* and with what an undelivered write says about the target.               *)
(***************************************************************************)
EXTENDS Actuator, SequenceTheorems, TLAPS

USE DEF NoOwner

\* A target carries a value and a real owner exactly when it is not Unset.
WellFormed(t) ==
  /\ t \in Targets(Ages)
  /\ t.phase = "Unset" => t.value = None
  /\ t.phase # "Unset" => t.value \in Values /\ t.owner \in Owners

\* CommandedWasWritten, of any target and last write.
WasWritten(t, w) ==
  t.phase = "Commanded" =>
    w = [value |-> t.value, owner |-> t.owner, age |-> t.age]

\* LiveTargetWasWritten, of any target, kill switch and last write.
LiveWritten(t, enabled, w) ==
  (enabled /\ t.phase # "Unset") =>
    /\ t.phase \in {"Commanded", "Confirmed"}
    /\ w \in Writes
    /\ w.value = t.value
    /\ w.owner = t.owner

\* CommandedNotSeen, of any target and actual.
NotSeen(t, a) ==
  (t.phase = "Commanded" /\ a.freshness = "Fresh") =>
    a.value \in Values /\ ~ Close(t.value, a.value)

\* The write being dispatched is the write of a Commanded target.
DispatchesTarget ==
  outbox # None => target.phase = "Commanded" /\ outbox = target.value

IInv ==
  /\ TypeOK
  /\ WellFormed(target)
  /\ WasWritten(target, lastWrite)
  /\ LiveWritten(target, writesEnabled, lastWrite)
  /\ NotSeen(target, actual)
  /\ PhaseReported
  /\ DispatchesTarget

-----------------------------------------------------------------------------
(* Lemmas about the record operators.                                      *)

LEMMA AgesAreNat ==
  /\ AgeCap \in Nat
  /\ Ages \subseteq Nat
  /\ 0 \in Ages
BY ActuatorAssumption DEF Ages, AgeCap

\* Proposing a value leaves a well-formed target that is not Unset.
LEMMA ProposeWellFormed ==
  ASSUME NEW t, WellFormed(t), NEW v \in Values, NEW o \in Owners
  PROVE  /\ WellFormed(ProposeTarget(t, v, o))
         /\ ProposeTarget(t, v, o).phase # "Unset"
         /\ ProposeTarget(t, v, o).value = v
         /\ ProposeTarget(t, v, o).owner = o
BY AgesAreNat, NoneAssumption, ActuatorAssumption
   DEF WellFormed, ProposeTarget, ProposeChanges, Targets, Phases

\* A controller that acts with writes on leaves a Commanded target with a
\* new retry clock; the target is the wanted one.
LEMMA CommandOutcome ==
  ASSUME NEW t, WellFormed(t), NEW w \in Wants, Acts(t, w)
  PROVE  /\ w.value \in Values /\ w.owner \in Owners
         /\ Outstanding(ProposeTarget(t, w.value, w.owner))
         /\ ControllerTarget(t, w, TRUE) =
              [value |-> w.value, owner |-> w.owner,
               phase |-> "Commanded", age |-> 0]
<1>1. w \in [value : Values, owner : Owners]
  BY DEF Acts, Wants
<1>2. w.value \in Values /\ w.owner \in Owners
  BY <1>1
<1> DEFINE p == ProposeTarget(t, w.value, w.owner)
<1>3. p \in Targets(Ages) /\ p.value = w.value /\ p.owner = w.owner
  BY <1>2, ProposeWellFormed DEF WellFormed
<1>4. Outstanding(p)
  BY <1>2 DEF Acts, ProposeTarget, NeedsActuation, Outstanding
<1>5. ControllerTarget(t, w, TRUE) =
        [value |-> p.value, owner |-> p.owner, phase |-> "Commanded", age |-> 0]
  BY <1>4 DEF ControllerTarget, MarkCommanded
<1> QED BY <1>2, <1>3, <1>4, <1>5

\* Marking a target commanded never leaves a Fresh readback behind.
LEMMA CommandDeprecates ==
  ASSUME NEW t, NEW a \in Actuals(Ages), Outstanding(t)
  PROVE  /\ MarkCommandedActual(t, a) \in Actuals(Ages)
         /\ MarkCommandedActual(t, a).freshness # "Fresh"
BY AgesAreNat DEF MarkCommandedActual, Deprecate, Actuals, Freshnesses

\* Without a write the controller changes a target only by proposing, and
\* what it proposes is Pending.
LEMMA ObserveOutcome ==
  ASSUME NEW t, WellFormed(t), NEW w \in Wants, Acts(t, w)
  PROVE  /\ WellFormed(ControllerTarget(t, w, FALSE))
         /\ ControllerTarget(t, w, FALSE).phase # "Unset"
         /\ \/ ControllerTarget(t, w, FALSE) = t
            \/ ControllerTarget(t, w, FALSE).phase = "Pending"
<1>1. w.value \in Values /\ w.owner \in Owners
  BY CommandOutcome
<1>2. ControllerTarget(t, w, FALSE) = ProposeTarget(t, w.value, w.owner)
  BY DEF ControllerTarget
<1>3. \/ ProposeTarget(t, w.value, w.owner) = t
      \/ ProposeTarget(t, w.value, w.owner).phase = "Pending"
  BY DEF ProposeTarget
<1>4. /\ WellFormed(ProposeTarget(t, w.value, w.owner))
      /\ ProposeTarget(t, w.value, w.owner).phase # "Unset"
  BY <1>1, ProposeWellFormed
<1> QED BY <1>2, <1>3, <1>4 DEF WellFormed

-----------------------------------------------------------------------------
(* One call of process(): from an entity <<t, a>> that satisfies the       *)
(* per-entity parts of the invariant to a state that satisfies them.       *)

LEMMA ProcessPreserves ==
  ASSUME NEW t, NEW a \in Actuals(Ages), NEW enabled \in BOOLEAN,
         NEW w \in Wants, NEW rep \in Phases,
         WellFormed(t), WasWritten(t, lastWrite), NotSeen(t, a),
         LiveWritten(t, enabled, lastWrite),
         t.phase # "Unset" => rep = t.phase,
         lastWrite \in Writes \union {None},
         Process(t, a, enabled, w, rep)
  PROVE  /\ WellFormed(target')
         /\ actual' \in Actuals(Ages)
         /\ writesEnabled' \in BOOLEAN
         /\ want' \in Wants
         /\ reported' \in Phases
         /\ outbox' \in Values \union {None}
         /\ lastWrite' \in Writes \union {None}
         /\ WasWritten(target', lastWrite')
         /\ LiveWritten(target', writesEnabled', lastWrite')
         /\ NotSeen(target', actual')
         /\ PhaseReported'
         /\ DispatchesTarget'
<1>1. CASE ~ Acts(t, w)
  BY <1>1
     DEF Process, ControllerTarget, ControllerActual, ControllerWrite,
         ControllerReport, PhaseReported, DispatchesTarget
<1>2. CASE Acts(t, w) /\ enabled
  <2> DEFINE p == ProposeTarget(t, w.value, w.owner)
  <2>1. /\ w.value \in Values /\ w.owner \in Owners
        /\ Outstanding(p)
        /\ ControllerTarget(t, w, TRUE) =
             [value |-> w.value, owner |-> w.owner,
              phase |-> "Commanded", age |-> 0]
    BY <1>2, CommandOutcome
  <2>2. target' = [value |-> w.value, owner |-> w.owner,
                   phase |-> "Commanded", age |-> 0]
    BY <1>2, <2>1 DEF Process
  <2>3. outbox' = w.value /\ w.value # None
    BY <1>2, <2>1, NoneAssumption DEF Process, ControllerWrite
  <2>4. lastWrite' = [value |-> w.value, owner |-> w.owner, age |-> 0]
    BY <2>3 DEF Process
  <2>5. /\ actual' \in Actuals(Ages)
        /\ actual'.freshness # "Fresh"
    BY <1>2, <2>1, CommandDeprecates DEF Process, ControllerActual
  <2>6. reported' = target'.phase
    BY <1>2 DEF Process, ControllerReport
  <2>7. WellFormed(target')
    BY <2>1, <2>2, AgesAreNat DEF WellFormed, Targets, Phases
  <2>8. lastWrite' \in Writes
    BY <2>1, <2>4, AgesAreNat DEF Writes
  <2>9. writesEnabled' \in BOOLEAN /\ want' \in Wants
    BY DEF Process
  <2> QED
    BY <2>1, <2>2, <2>3, <2>4, <2>5, <2>6, <2>7, <2>8, <2>9
       DEF WasWritten, LiveWritten, NotSeen, PhaseReported, DispatchesTarget,
           Phases
<1>3. CASE Acts(t, w) /\ ~ enabled
  <2> DEFINE p == ControllerTarget(t, w, FALSE)
  <2>1. WellFormed(p) /\ p.phase # "Unset" /\ (p = t \/ p.phase = "Pending")
    BY <1>3, ObserveOutcome
  <2>2. /\ target' = p /\ actual' = a
        /\ outbox' = None /\ lastWrite' = lastWrite
        /\ writesEnabled' = FALSE /\ want' \in Wants
    BY <1>3 DEF Process, ControllerActual, ControllerWrite
  <2>3. reported' = p.phase /\ p.phase \in Phases
    BY <1>3, <2>1, <2>2 DEF Process, ControllerReport, WellFormed, Targets
  <2> HIDE DEF p
  <2> QED
    BY <2>1, <2>2, <2>3
       DEF WasWritten, LiveWritten, NotSeen, PhaseReported, DispatchesTarget
<1> QED BY <1>1, <1>2, <1>3

-----------------------------------------------------------------------------
(* The inductive invariant.                                                *)

LEMMA InitIInv == Init => IInv
<1> SUFFICES ASSUME Init PROVE IInv
  OBVIOUS
<1>1. target \in Targets(Ages) /\ WellFormed(target)
  BY AgesAreNat DEF Init, UnsetTarget, Targets, Phases, WellFormed
<1>2. actual \in Actuals(Ages)
  BY AgesAreNat DEF Init, UnknownActual, Actuals, Freshnesses
<1>3. /\ late \in Seq(Values) /\ Len(late) <= LateCap
      /\ inbox \in Seq(Samples) /\ Len(inbox) <= InboxCap
  BY ActuatorAssumption DEF Init
<1>4. meddled \in 0 .. Meddling
  BY ActuatorAssumption DEF Init
<1>5. /\ writesEnabled \in BOOLEAN /\ want \in Wants /\ reported \in Phases
       /\ outbox \in Values \union {None} /\ lastWrite \in Writes \union {None}
  BY DEF Init, Wants, Phases
<1>6. TypeOK
  BY <1>1, <1>2, <1>3, <1>4, <1>5 DEF Init, TypeOK
<1>7. target.phase = "Unset"
  BY DEF Init, UnsetTarget
<1> QED
  BY <1>1, <1>6, <1>7
     DEF Init, IInv, WasWritten, LiveWritten, NotSeen, PhaseReported, DispatchesTarget

\* What process() asks of the entity holds of the entity as it stands.
LEMMA IInvEntity ==
  ASSUME IInv
  PROVE  /\ actual \in Actuals(Ages)
         /\ target \in Targets(Ages)
         /\ WellFormed(target)
         /\ WasWritten(target, lastWrite)
         /\ LiveWritten(target, writesEnabled, lastWrite)
         /\ NotSeen(target, actual)
         /\ target.phase # "Unset" => reported = target.phase
         /\ lastWrite \in Writes \union {None}
         /\ reported \in Phases
         /\ want \in Wants
         /\ writesEnabled \in BOOLEAN
BY DEF IInv, TypeOK, PhaseReported

\* The parts of TypeOK that process() leaves alone.
EnvOK ==
  /\ device \in Values
  /\ late \in Seq(Values) /\ Len(late) <= LateCap
  /\ inbox \in Seq(Samples) /\ Len(inbox) <= InboxCap
  /\ meddled \in 0 .. Meddling

LEMMA IInvAfterProcess ==
  ASSUME EnvOK', WellFormed(target'), actual' \in Actuals(Ages),
         writesEnabled' \in BOOLEAN, want' \in Wants, reported' \in Phases,
         outbox' \in Values \union {None}, lastWrite' \in Writes \union {None},
         WasWritten(target', lastWrite'), NotSeen(target', actual'),
         LiveWritten(target', writesEnabled', lastWrite'),
         PhaseReported', DispatchesTarget'
  PROVE  IInv'
BY DEF IInv, TypeOK, EnvOK, WellFormed

LEMMA TickPreserves == IInv /\ TickEvent => IInv'
<1> SUFFICES ASSUME IInv, TickEvent PROVE IInv'
  OBVIOUS
<1>1. Decay(actual, FreshAge) \in Actuals(Ages)
  BY IInvEntity DEF Decay, Actuals, Freshnesses
<1>2. NotSeen(target, Decay(actual, FreshAge))
  BY IInvEntity DEF NotSeen, Decay
<1>3. Process(target, Decay(actual, FreshAge), writesEnabled, want, reported)
  BY DEF TickEvent
<1>4. EnvOK'
  BY DEF TickEvent, env, EnvOK, IInv, TypeOK
<1> HIDE DEF TickEvent
<1> QED BY <1>1, <1>2, <1>3, <1>4, IInvEntity, ProcessPreserves, IInvAfterProcess

LEMMA InputPreserves == ASSUME NEW w \in Wants PROVE IInv /\ InputEvent(w) => IInv'
<1> SUFFICES ASSUME IInv, InputEvent(w) PROVE IInv'
  OBVIOUS
<1>1. Process(target, actual, writesEnabled, w, reported)
  BY DEF InputEvent
<1>2. EnvOK'
  BY DEF InputEvent, env, EnvOK, IInv, TypeOK
<1> QED BY <1>1, <1>2, IInvEntity, ProcessPreserves, IInvAfterProcess

LEMMA KillSwitchPreserves ==
  ASSUME NEW enabled \in BOOLEAN
  PROVE  IInv /\ KillSwitchEvent(enabled) => IInv'
<1> SUFFICES ASSUME IInv, KillSwitchEvent(enabled) PROVE IInv'
  OBVIOUS
<1> DEFINE edge == ~ writesEnabled /\ enabled
           t == EdgeTarget(enabled)
           rep == IF edge THEN "Unset" ELSE reported
<1>1. Process(t, actual, enabled, want, rep)
  BY DEF KillSwitchEvent
<1>2. EnvOK'
  BY DEF KillSwitchEvent, env, EnvOK, IInv, TypeOK
<1>3. rep \in Phases
  BY IInvEntity DEF Phases
<1>4. WellFormed(UnsetTarget) /\ UnsetTarget.phase = "Unset"
  BY AgesAreNat DEF UnsetTarget, WellFormed, Targets, Phases
<1>5. t = UnsetTarget \/ (t = target /\ rep = reported)
  BY DEF EdgeTarget
<1>6. /\ WellFormed(t) /\ WasWritten(t, lastWrite) /\ NotSeen(t, actual)
      /\ t.phase # "Unset" => rep = t.phase
  BY <1>4, <1>5, IInvEntity DEF WellFormed, WasWritten, NotSeen
<1>7. LiveWritten(t, enabled, lastWrite)
  BY <1>4, IInvEntity DEF LiveWritten, EdgeTarget
<1> HIDE DEF t, rep
<1> QED BY <1>1, <1>2, <1>3, <1>6, <1>7, IInvEntity, ProcessPreserves, IInvAfterProcess

\* A readback becomes the actual and confirms the target when it matches.
LEMMA ReadingPreserves == IInv /\ ReadingEvent => IInv'
<1> SUFFICES ASSUME IInv, ReadingEvent PROVE IInv'
  OBVIOUS
<1> DEFINE r == Head(inbox)
           a == OnReading(r.value, r.age)
           t == ConfirmIf(target, a, Close(target.value, a.value), r.age)
           rep == IF t.phase # target.phase THEN t.phase ELSE reported
<1>1. /\ r \in Samples
      /\ Tail(inbox) \in Seq(Samples) /\ Len(Tail(inbox)) <= InboxCap
  BY ActuatorAssumption DEF ReadingEvent, IInv, TypeOK
<1>2. r.value \in Values /\ r.age \in Ages
  BY <1>1 DEF Samples
<1>3. a \in Actuals(Ages) /\ a.value = r.value
  BY <1>2 DEF OnReading, Actuals, Freshnesses
<1>4. /\ \/ t = target
         \/ /\ t.phase = "Confirmed" /\ target.phase # "Unset"
            /\ t.value = target.value /\ t.owner = target.owner
      /\ WellFormed(t)
  BY <1>2, IInvEntity DEF ConfirmIf, WellFormed, Targets, Phases, Outstanding
<1>5. NotSeen(t, a)
  \* A target still Commanded after the readback was not matched by it.
  <2>1. CASE t.phase = "Commanded"
    <3>1. t = target /\ Outstanding(target)
      BY <1>4, <2>1 DEF Outstanding
    <3>2. target.value \in Values
      BY <2>1, <3>1, IInvEntity DEF WellFormed
    <3>3. ~ Close(target.value, a.value)
      BY <1>2, <1>3, <2>1, <3>1, <3>2, NoneAssumption DEF ConfirmIf
    <3> QED BY <1>2, <1>3, <3>1, <3>3 DEF NotSeen
  <2> QED BY <2>1 DEF NotSeen
<1>6. /\ WasWritten(t, lastWrite)
      /\ LiveWritten(t, writesEnabled, lastWrite)
      /\ t.phase # "Unset" => rep = t.phase
      /\ rep \in Phases
  BY <1>4, IInvEntity DEF WasWritten, LiveWritten, Phases
<1>7. Process(t, a, writesEnabled, want, rep)
  BY DEF ReadingEvent
<1>8. EnvOK'
  BY <1>1 DEF ReadingEvent, EnvOK, IInv, TypeOK
<1> HIDE DEF a, t, rep
<1> QED BY <1>3, <1>4, <1>5, <1>6, <1>7, <1>8,
          IInvEntity, ProcessPreserves, IInvAfterProcess

-----------------------------------------------------------------------------
(* Steps of the writer, the bus, time and the restart.                     *)

LEMMA CoreKept ==
  ASSUME IInv, UNCHANGED <<core, lastWrite>>, outbox' \in {outbox, None}, EnvOK'
  PROVE  IInv'
BY DEF core, IInv, TypeOK, EnvOK, WellFormed, WasWritten, LiveWritten, NotSeen,
       Close, PhaseReported, DispatchesTarget

LEMMA BusPreserves == IInv /\ Bus => IInv'
<1> SUFFICES ASSUME IInv, Bus PROVE IInv'
  OBVIOUS
<1> USE DEF EnvOK, env
<1>1. EnvOK /\ outbox \in Values \union {None}
  BY DEF IInv, TypeOK
<1>2. CASE WriteOk \/ WriteLost
  <2>1. EnvOK'
    BY <1>1, <1>2 DEF WriteOk, WriteLost
  <2> QED BY <1>2, <2>1, CoreKept DEF WriteOk, WriteLost
<1>3. CASE WriteTimesOut
  <2>1. late' \in Seq(Values) /\ Len(late') = Len(late) + 1
    BY <1>1, <1>3, AppendProperties DEF WriteTimesOut
  <2>2. EnvOK'
    BY <1>1, <1>3, <2>1, ActuatorAssumption DEF WriteTimesOut
  <2> QED BY <1>3, <2>2, CoreKept DEF WriteTimesOut
<1>4. CASE LateWriteLands
  <2>1. /\ late' \in Seq(Values) /\ Len(late') = Len(late) - 1
        /\ device' \in Values /\ Len(late) \in Nat
    BY <1>1, <1>4, HeadTailProperties, LenProperties DEF LateWriteLands
  <2>2. EnvOK'
    BY <1>1, <1>4, <2>1, ActuatorAssumption DEF LateWriteLands
  <2> QED BY <1>4, <2>2, CoreKept DEF LateWriteLands
<1>5. CASE Readback
  <2>1. [value |-> device, age |-> 0] \in Samples
    BY <1>1, AgesAreNat DEF Samples
  <2>2. inbox' \in Seq(Samples) /\ Len(inbox') = Len(inbox) + 1
    BY <1>1, <1>5, <2>1, AppendProperties DEF Readback
  <2>3. EnvOK'
    BY <1>1, <1>5, <2>2, ActuatorAssumption DEF Readback
  <2> QED BY <1>5, <2>3, CoreKept DEF Readback
<1>6. ASSUME NEW v \in Values, ForeignWrite(v) PROVE IInv'
  <2>1. EnvOK'
    BY <1>1, <1>6, ActuatorAssumption DEF ForeignWrite
  <2> QED BY <1>6, <2>1, CoreKept DEF ForeignWrite
<1> QED BY <1>2, <1>3, <1>4, <1>5, <1>6 DEF Bus

LEMMA OlderTarget ==
  ASSUME NEW t \in Targets(Ages)
  PROVE  /\ Older(t, AgeCap) \in Targets(Ages)
         /\ Older(t, AgeCap).value = t.value
         /\ Older(t, AgeCap).owner = t.owner
         /\ Older(t, AgeCap).phase = t.phase
         /\ Older(t, AgeCap).age = IF t.age < AgeCap THEN t.age + 1 ELSE AgeCap
BY AgesAreNat DEF Older, Targets, Ages

LEMMA OlderActual ==
  ASSUME NEW a \in Actuals(Ages)
  PROVE  /\ Older(a, AgeCap) \in Actuals(Ages)
         /\ Older(a, AgeCap).value = a.value
         /\ Older(a, AgeCap).freshness = a.freshness
BY AgesAreNat DEF Older, Actuals, Ages

LEMMA OlderWrite ==
  ASSUME NEW w \in Writes
  PROVE  /\ Older(w, AgeCap) \in Writes
         /\ Older(w, AgeCap) =
              [value |-> w.value, owner |-> w.owner,
               age |-> IF w.age < AgeCap THEN w.age + 1 ELSE AgeCap]
BY AgesAreNat DEF Older, Writes, Ages

LEMMA OlderSample ==
  ASSUME NEW r \in Samples
  PROVE  Older(r, AgeCap) \in Samples
BY AgesAreNat DEF Older, Samples, Ages

LEMMA ElapsePreserves == IInv /\ Elapse => IInv'
<1> SUFFICES ASSUME IInv, Elapse PROVE IInv'
  OBVIOUS
<1>1. /\ target' \in Targets(Ages)
      /\ target'.value = target.value /\ target'.owner = target.owner
      /\ target'.phase = target.phase
      /\ target'.age = IF target.age < AgeCap THEN target.age + 1 ELSE AgeCap
  BY OlderTarget DEF Elapse, IInv, TypeOK
<1>2. /\ actual' \in Actuals(Ages)
      /\ actual'.value = actual.value /\ actual'.freshness = actual.freshness
  BY OlderActual DEF Elapse, IInv, TypeOK
<1>3. lastWrite' \in Writes \union {None}
  BY OlderWrite DEF Elapse, IInv, TypeOK
<1>4. inbox' \in Seq(Samples) /\ Len(inbox') <= InboxCap
  <2>1. \A i \in 1 .. Len(inbox) : inbox[i] \in Samples
    BY DEF IInv, TypeOK
  <2>2. Len(inbox) \in Nat /\ Len(inbox) <= InboxCap
    BY DEF IInv, TypeOK
  <2>3. inbox' \in Seq(Samples)
    BY <2>1, <2>2, OlderSample, IsASeq DEF Elapse
  <2>4. Len(inbox') = Len(inbox)
    BY <2>2 DEF Elapse
  <2> QED BY <2>2, <2>3, <2>4
<1>5. TypeOK'
  BY <1>1, <1>2, <1>3, <1>4 DEF Elapse, IInv, TypeOK
<1>6. WellFormed(target)'
  BY <1>1 DEF IInv, WellFormed
<1>7. WasWritten(target, lastWrite)'
  <2>1. CASE target.phase = "Commanded"
    <3>1. lastWrite = [value |-> target.value, owner |-> target.owner,
                       age |-> target.age]
      BY <2>1 DEF IInv, WasWritten
    <3>2. target.value \in Values /\ target.owner \in Owners /\ target.age \in Ages
      BY <2>1 DEF IInv, WellFormed, Targets
    <3>3. lastWrite \in Writes
      BY <3>1, <3>2 DEF Writes
    <3>4. lastWrite' = Older(lastWrite, AgeCap)
      BY <3>3, NoneIsNoRecord DEF Elapse
    <3> QED BY <1>1, <3>1, <3>3, <3>4, OlderWrite DEF WasWritten
  <2> QED BY <1>1, <2>1 DEF WasWritten
<1>8. NotSeen(target, actual)'
  BY <1>1, <1>2 DEF IInv, NotSeen, Close
<1>9. LiveWritten(target, writesEnabled, lastWrite)'
  <2>1. CASE writesEnabled /\ target.phase # "Unset"
    <3>1. /\ target.phase \in {"Commanded", "Confirmed"}
          /\ lastWrite \in Writes
          /\ lastWrite.value = target.value /\ lastWrite.owner = target.owner
      BY <2>1 DEF IInv, LiveWritten
    <3>2. lastWrite' = Older(lastWrite, AgeCap)
      BY <3>1, NoneIsNoRecord DEF Elapse
    <3> QED BY <1>1, <3>1, <3>2, OlderWrite DEF LiveWritten
  <2> QED BY <1>1, <2>1 DEF Elapse, LiveWritten
<1> QED
  BY <1>1, <1>5, <1>6, <1>7, <1>8, <1>9
     DEF Elapse, IInv, PhaseReported, DispatchesTarget

LEMMA RestartPreserves == IInv /\ Restart => IInv'
<1> SUFFICES ASSUME IInv, Restart PROVE IInv'
  OBVIOUS
<1>1. target' \in Targets(Ages) /\ WellFormed(target')
  BY AgesAreNat DEF Restart, UnsetTarget, Targets, Phases, WellFormed
<1>2. actual' \in Actuals(Ages)
  BY AgesAreNat DEF Restart, UnknownActual, Actuals, Freshnesses
<1>5. inbox' \in Seq(Samples) /\ Len(inbox') <= InboxCap
  BY ActuatorAssumption DEF Restart
<1>3. TypeOK'
  BY <1>1, <1>2, <1>5 DEF Restart, IInv, TypeOK, Wants
<1>4. target'.phase = "Unset"
  BY DEF Restart, UnsetTarget
<1> QED
  BY <1>1, <1>3, <1>4
     DEF Restart, IInv, WellFormed, WasWritten, LiveWritten, NotSeen,
         PhaseReported, DispatchesTarget

LEMMA NextPreserves == IInv /\ [Next]_vars => IInv'
<1> SUFFICES ASSUME IInv, [Next]_vars PROVE IInv'
  OBVIOUS
<1>1. CASE Core
  BY <1>1, TickPreserves, InputPreserves, ReadingPreserves,
     KillSwitchPreserves DEF Core
<1>2. CASE Bus
  BY <1>2, BusPreserves
<1>3. CASE Elapse
  BY <1>3, ElapsePreserves
<1>4. CASE Restart
  BY <1>4, RestartPreserves
<1>5. CASE UNCHANGED vars
  BY <1>5 DEF vars, core, env, IInv, TypeOK, WellFormed, WasWritten,
              LiveWritten, NotSeen, PhaseReported, DispatchesTarget, Close
<1> QED BY <1>1, <1>2, <1>3, <1>4, <1>5 DEF Next

-----------------------------------------------------------------------------
(* The safety properties.                                                  *)

\* IInv holds throughout.
THEOREM Invariance == Spec => []IInv
<1>1. Init => IInv
  BY InitIInv
<1>2. IInv /\ [Next]_vars => IInv'
  BY NextPreserves
<1> QED BY <1>1, <1>2, PTL DEF Spec

\* Every variable keeps its type.
THEOREM TypeCorrect == Spec => []TypeOK
<1>1. IInv => TypeOK
  BY DEF IInv
<1> QED BY <1>1, Invariance, PTL

\* A Commanded target is the last write emitted (mark_commanded is paired with
\* exactly one WriteDbus and restarts the retry clock); and, whatever observer
\* mode left behind, with writes on every proposed target has been written (the
\* purpose of the kill-switch reset).
THEOREM TargetsWereWritten == Spec => []TargetsAreWritten
<1>1. IInv => CommandedWasWritten
  BY DEF IInv, WasWritten, CommandedWasWritten
<1>2. IInv => LiveTargetWasWritten
  BY NoneIsNoRecord DEF IInv, LiveWritten, LiveTargetWasWritten
<1>3. IInv => TargetsAreWritten
  BY <1>1, <1>2 DEF TargetsAreWritten
<1> QED BY <1>3, Invariance, PTL

\* An unconfirmed write never coexists with a Fresh matching readback.
THEOREM CommandedIsUnseen == Spec => []CommandedNotSeen
<1>1. IInv => CommandedNotSeen
  BY DEF IInv, NotSeen, CommandedNotSeen
<1> QED BY <1>1, Invariance, PTL

\* The published phase is the phase.
THEOREM PhaseIsReported == Spec => []PhaseReported
<1>1. IInv => PhaseReported
  BY DEF IInv
<1> QED BY <1>1, Invariance, PTL

-----------------------------------------------------------------------------
(* The action properties.                                                  *)

\* An event that leaves the kill switch on and the target set runs the
\* controller on the target itself or on the confirmed target.
LEMMA EmitsOnlyFromProcess ==
  ASSUME IInv, Next, NEW v \in Values, NEW o \in Owners, Emits(v, o),
         writesEnabled, target.phase # "Unset"
  PROVE  \E t, a, w, rep :
           /\ Process(t, a, TRUE, w, rep)
           /\ w \in Wants
           /\ t.value = target.value /\ t.owner = target.owner
           /\ t.phase # "Unset"
           /\ t = target \/ t.phase = "Confirmed"
<1>1. outbox' # None
  BY NoneAssumption DEF Emits
<1>2. CASE TickEvent
  BY <1>2 DEF TickEvent, IInv, TypeOK
<1>3. ASSUME NEW w \in Wants, InputEvent(w)
      PROVE Process(target, actual, TRUE, w, reported)
  BY <1>3 DEF InputEvent, IInv, TypeOK
<1>4. CASE ReadingEvent
  <2> DEFINE r == Head(inbox)
             a == OnReading(r.value, r.age)
             t == ConfirmIf(target, a, Close(target.value, a.value), r.age)
             rep == IF t.phase # target.phase THEN t.phase ELSE reported
  <2>1. Process(t, a, TRUE, want, rep) /\ want \in Wants
    BY <1>4 DEF ReadingEvent, IInv, TypeOK
  <2>2. /\ t.value = target.value /\ t.owner = target.owner
        /\ t.phase # "Unset"
        /\ t = target \/ t.phase = "Confirmed"
    BY DEF ConfirmIf
  <2> HIDE DEF t, a, rep
  <2> QED BY <2>1, <2>2
<1>5. ASSUME NEW enabled \in BOOLEAN, KillSwitchEvent(enabled)
      PROVE  \E rep : Process(target, actual, enabled, want, rep)
  BY <1>5 DEF KillSwitchEvent, EdgeTarget
<1>6. ASSUME NEW enabled \in BOOLEAN, KillSwitchEvent(enabled)
      PROVE  enabled
  BY <1>1, <1>5, <1>6 DEF Process, ControllerWrite
<1>7. CASE Bus \/ Elapse \/ Restart
  BY <1>1, <1>7 DEF Bus, Elapse, Restart, WriteOk, WriteLost, WriteTimesOut,
                    LateWriteLands, Readback, ForeignWrite, Emits
<1> QED BY <1>2, <1>3, <1>4, <1>5, <1>6, <1>7 DEF Next, Core, IInv, TypeOK

\* A repeated write waits for actuator_retry_s.
THEOREM RetriesArePaced == Spec => RetryPaced
<1>1. ASSUME IInv, Next PROVE RepeatIsPaced
  <2> SUFFICES ASSUME NEW v \in Values, NEW o \in Owners, Emits(v, o),
                      lastWrite # None, lastWrite.value = v,
                      lastWrite.owner = o, target.phase # "Unset",
                      writesEnabled
               PROVE  lastWrite.age >= RetryAge
    BY DEF RepeatIsPaced
  <2>1. PICK t, a, w, rep :
          /\ Process(t, a, TRUE, w, rep)
          /\ w \in Wants
          /\ t.value = target.value /\ t.owner = target.owner
          /\ t.phase # "Unset"
          /\ t = target \/ t.phase = "Confirmed"
    BY <1>1, EmitsOnlyFromProcess
  <2>2. outbox' = v /\ v # None
    BY NoneAssumption DEF Emits
  <2>3. Acts(t, w) /\ w.value = v
    BY <2>1, <2>2 DEF Process, ControllerWrite
  <2>4. w.owner = o
    BY <2>1, <2>2 DEF Process, Emits
  <2>5. /\ target.value = v /\ target.owner = o
        /\ target.phase \in {"Commanded", "Confirmed"}
    BY <1>1 DEF IInv, LiveWritten
  <2>6. NeedsActuation(t, RetryAge)
    BY <2>1, <2>3, <2>4, <2>5 DEF Acts, ProposeChanges
  <2>7. t = target /\ target.phase = "Commanded" /\ target.age >= RetryAge
    BY <2>1, <2>5, <2>6 DEF NeedsActuation, Outstanding
  <2>8. lastWrite.age = target.age
    BY <1>1, <2>7 DEF IInv, WasWritten
  <2> QED BY <2>7, <2>8
<1>2. IInv /\ [Next]_vars => [RepeatIsPaced]_vars
  BY <1>1
<1> QED BY <1>2, Invariance, PTL DEF Spec, RetryPaced

\* The kill-switch edge puts the controller's goal on the bus at once.
THEOREM EdgesForceWrites == Spec => EdgeForcesWrite
<1>1. ASSUME IInv, Next, ~ writesEnabled, writesEnabled', want # None
      PROVE  outbox' = want.value
  <2>1. ASSUME NEW enabled \in BOOLEAN, KillSwitchEvent(enabled)
        PROVE  outbox' = want.value
    <3>1. /\ \E rep : Process(EdgeTarget(enabled), actual, enabled, want, rep)
          /\ enabled
      BY <1>1, <2>1 DEF KillSwitchEvent, Process
    <3>2. EdgeTarget(enabled) = UnsetTarget
      BY <1>1, <3>1 DEF EdgeTarget
    <3>3. Acts(UnsetTarget, want)
      BY <1>1 DEF Acts, HeldByDeadband, ProposeChanges, UnsetTarget
    <3> QED BY <3>1, <3>2, <3>3 DEF Process, ControllerWrite
  <2>2. ASSUME TickEvent \/ ReadingEvent \/ \E w \in Wants : InputEvent(w)
        PROVE  writesEnabled' = writesEnabled
    BY <2>2 DEF TickEvent, ReadingEvent, InputEvent, Process
  <2>3. ASSUME Bus \/ Elapse \/ Restart
        PROVE  writesEnabled' = writesEnabled \/ ~ writesEnabled'
    BY <2>3 DEF Bus, Elapse, Restart, WriteOk, WriteLost, WriteTimesOut,
                LateWriteLands, Readback, ForeignWrite, core
  <2> QED BY <1>1, <2>1, <2>2, <2>3 DEF Next, Core
<1>2. IInv /\ [Next]_vars => [EdgeWrites]_vars
  BY <1>1 DEF EdgeWrites
<1> QED BY <1>2, Invariance, PTL DEF Spec, EdgeForcesWrite

-----------------------------------------------------------------------------
(* Refinement of AckedDelivery.                                            *)

\* A call in which the controller acts asks for what it wants.
LEMMA ActingAsks ==
  ASSUME NEW t, NEW a \in Actuals(Ages), NEW enabled \in BOOLEAN,
         NEW w \in Wants, NEW rep, WellFormed(t), Acts(t, w),
         Process(t, a, enabled, w, rep)
  PROVE  Delivery!Next
<1>1. w \in [value : Values, owner : Owners]
  BY DEF Acts, Wants
<1>2. /\ w.value \in Values /\ w.owner \in Owners
      /\ w = [value |-> w.value, owner |-> w.owner]
  BY <1>1
<1>3. /\ target'.value = w.value /\ target'.owner = w.owner
      /\ target'.phase \in {"Pending", "Commanded"}
  <2>1. CASE enabled
    <3>1. target' = ControllerTarget(t, w, TRUE)
      BY <2>1 DEF Process
    <3>2. target' = [value |-> w.value, owner |-> w.owner,
                     phase |-> "Commanded", age |-> 0]
      BY <3>1, CommandOutcome
    <3> QED BY <3>2
  <2>2. CASE ~ enabled
    <3>1. target' = ProposeTarget(t, w.value, w.owner)
      BY <2>2 DEF Process, ControllerTarget
    <3>2. Outstanding(ProposeTarget(t, w.value, w.owner))
      BY CommandOutcome
    <3>3. /\ ProposeTarget(t, w.value, w.owner).value = w.value
          /\ ProposeTarget(t, w.value, w.owner).owner = w.owner
      BY <1>2, ProposeWellFormed
    <3> QED BY <3>1, <3>2, <3>3 DEF Outstanding
  <2> QED BY <2>1, <2>2
<1>4. outbox = None /\ outbox' \in {None, w.value}
  BY DEF Process, ControllerWrite
<1>5. actual'.value \in Values \union {None}
  BY DEF Process, ControllerActual, MarkCommandedActual, Deprecate, Actuals
<1>6. Delivery!Ask(w)
  BY <1>2, <1>3, <1>4, <1>5 DEF Delivery!Ask, Outstanding
<1> QED BY <1>1, <1>6 DEF Delivery!Next, Delivery!Goals

\* A call in which the controller does not act leaves the entity as the
\* event made it.
LEMMA IdleKeeps ==
  ASSUME NEW t, NEW a, NEW enabled, NEW w, NEW rep, ~ Acts(t, w),
         Process(t, a, enabled, w, rep)
  PROVE  target' = t /\ actual' = a /\ outbox = None /\ outbox' = None
BY DEF Process, ControllerTarget, ControllerActual, ControllerWrite

LEMMA TickOrInputRefines ==
  ASSUME IInv, NEW w \in Wants, NEW a \in Actuals(Ages), a.value = actual.value,
         Process(target, a, writesEnabled, w, reported)
  PROVE  [Delivery!Next]_(Delivery!vars)
<1>1. CASE Acts(target, w)
  BY <1>1, IInvEntity, ActingAsks
<1>2. CASE ~ Acts(target, w)
  BY <1>2, IdleKeeps DEF Delivery!vars
<1> QED BY <1>1, <1>2

LEMMA KillSwitchRefines ==
  ASSUME IInv, NEW enabled \in BOOLEAN, KillSwitchEvent(enabled)
  PROVE  [Delivery!Next]_(Delivery!vars)
<1> DEFINE t == EdgeTarget(enabled)
<1>1. PICK rep : Process(t, actual, enabled, want, rep)
  BY DEF KillSwitchEvent
<1>2. WellFormed(UnsetTarget) /\ UnsetTarget.phase = "Unset"
  BY AgesAreNat DEF UnsetTarget, WellFormed, Targets, Phases
<1>3. t = target \/ t = UnsetTarget
  BY DEF EdgeTarget
<1>4. WellFormed(t)
  BY <1>2, <1>3, IInvEntity DEF WellFormed
<1>5. CASE Acts(t, want)
  BY <1>1, <1>4, <1>5, IInvEntity, ActingAsks
<1>6. CASE ~ Acts(t, want)
  <2>1. target' = t /\ actual' = actual /\ outbox = None /\ outbox' = None
    BY <1>1, <1>6, IdleKeeps
  <2>2. CASE t = target
    BY <2>1, <2>2 DEF Delivery!vars
  <2>3. CASE t = UnsetTarget
    <3>1. Delivery!Withdraw
      BY <1>2, <2>1, <2>3 DEF Delivery!Withdraw, Outstanding
    <3> QED BY <3>1 DEF Delivery!Next
  <2> QED BY <1>3, <2>2, <2>3
<1> QED BY <1>5, <1>6

LEMMA ReadingRefines ==
  ASSUME IInv, ReadingEvent
  PROVE  [Delivery!Next]_(Delivery!vars)
<1> DEFINE r == Head(inbox)
           a == OnReading(r.value, r.age)
           t == ConfirmIf(target, a, Close(target.value, a.value), r.age)
<1>1. r \in Samples
  BY DEF ReadingEvent, IInv, TypeOK
<1>2. r.value \in Values /\ r.age \in Ages
  BY <1>1 DEF Samples
<1>3. a \in Actuals(Ages) /\ a.value = r.value
  BY <1>2 DEF OnReading, Actuals, Freshnesses
<1>4. \/ t = target
      \/ /\ t.value = target.value /\ t.owner = target.owner
         /\ t.phase = "Confirmed"
         /\ Outstanding(target)
         /\ Close(target.value, a.value)
  BY DEF ConfirmIf
<1>5. WellFormed(t)
  BY <1>2, IInvEntity DEF ConfirmIf, WellFormed, Targets, Phases, Outstanding
<1>6. PICK rep : Process(t, a, writesEnabled, want, rep)
  BY DEF ReadingEvent
<1>7. CASE Acts(t, want)
  <2> HIDE DEF t, a
  <2> QED BY <1>3, <1>5, <1>6, <1>7, IInvEntity, ActingAsks
<1>8. CASE ~ Acts(t, want)
  <2>1. target' = t /\ actual' = a /\ outbox = None /\ outbox' = None
    BY <1>6, <1>8, IdleKeeps
  <2>2. actual'.value \in Values
    BY <1>2, <1>3, <2>1
  <2>3. CASE t = target
    <3>1. Delivery!Report
      BY <2>1, <2>2, <2>3 DEF Delivery!Report
    <3> QED BY <3>1 DEF Delivery!Next
  <2>4. CASE t # target
    <3> HIDE DEF t, a
    <3>1. /\ target'.value = target.value /\ target'.owner = target.owner
          /\ target'.phase = "Confirmed"
          /\ target.phase \in {"Pending", "Commanded"}
      BY <1>4, <2>1, <2>4 DEF Outstanding
    <3>2. target.value \in Int /\ actual'.value \in Int
      BY <2>2, <3>1, IInvEntity, ActuatorAssumption DEF WellFormed
    <3>3. Close(target.value, actual'.value)
      BY <1>4, <2>1, <2>4
    <3>4. Delivery!Matches(target.value, actual'.value)
      BY <3>2, <3>3, ActuatorAssumption DEF Close, Distance, Delivery!Matches
    <3>5. Delivery!Acknowledge
      BY <2>1, <2>2, <3>1, <3>4 DEF Delivery!Acknowledge, Outstanding
    <3> QED BY <3>5 DEF Delivery!Next
  <2> QED BY <2>3, <2>4
<1> QED BY <1>7, <1>8

LEMMA NextRefines ==
  ASSUME IInv, [Next]_vars
  PROVE  [Delivery!Next]_(Delivery!vars)
<1>1. CASE TickEvent
  <2>1. /\ Decay(actual, FreshAge) \in Actuals(Ages)
        /\ Decay(actual, FreshAge).value = actual.value
    BY IInvEntity DEF Decay, Actuals, Freshnesses
  <2> QED BY <1>1, <2>1, IInvEntity, TickOrInputRefines DEF TickEvent
<1>2. ASSUME NEW w \in Wants, InputEvent(w)
      PROVE  [Delivery!Next]_(Delivery!vars)
  BY <1>2, IInvEntity, TickOrInputRefines DEF InputEvent
<1>3. CASE Bus
  <2>1. CASE WriteOk \/ WriteLost \/ WriteTimesOut
    <3>1. Delivery!Leave
      BY <2>1 DEF WriteOk, WriteLost, WriteTimesOut, core, env, Delivery!Leave
    <3> QED BY <3>1 DEF Delivery!Next
  <2>2. CASE LateWriteLands \/ Readback \/ \E v \in Values : ForeignWrite(v)
    BY <2>2 DEF LateWriteLands, Readback, ForeignWrite, core, Delivery!vars
  <2> QED BY <1>3, <2>1, <2>2 DEF Bus
<1>4. CASE Elapse
  <2>1. /\ target'.value = target.value /\ target'.owner = target.owner
        /\ target'.phase = target.phase
        /\ actual'.value = actual.value /\ outbox' = outbox
    BY <1>4, IInvEntity, OlderTarget, OlderActual DEF Elapse
  <2> QED BY <2>1 DEF Delivery!vars, Outstanding
<1>5. CASE Restart
  <2>1. Delivery!Withdraw
    BY <1>5 DEF Restart, UnsetTarget, UnknownActual, Outstanding,
                Delivery!Withdraw
  <2> QED BY <2>1 DEF Delivery!Next
<1>6. CASE UNCHANGED vars
  BY <1>6 DEF vars, core, Delivery!vars, Outstanding
<1> QED BY <1>1, <1>2, <1>3, <1>4, <1>5, <1>6, ReadingRefines, KillSwitchRefines
        DEF Next, Core

\* The propose/retry/confirm cycle over a lossy bus implements at-least-once
\* delivery of the controller's latest goal.
THEOREM Refinement == Spec => DeliversAtLeastOnce
<1>1. Init => Delivery!Init
  BY DEF Init, UnsetTarget, UnknownActual, Outstanding, Delivery!Init
<1>2. IInv /\ [Next]_vars => [Delivery!Next]_(Delivery!vars)
  BY NextRefines
<1> QED BY <1>1, <1>2, Invariance, PTL DEF Spec, DeliversAtLeastOnce, Delivery!Spec
=============================================================================
