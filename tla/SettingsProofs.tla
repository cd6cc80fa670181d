--------------------------- MODULE SettingsProofs ---------------------------
(***************************************************************************)
(* Theorems about the two models of settings that live outside the         *)
(* program: the ESS state on the inverter (EssState) and the knobs, the    *)
(* kill switch and the calendar kept by the MQTT broker (Retained).        *)
(*                                                                         *)
(* EssState is proved for days of any length, any seasons, offsets and     *)
(* freshness, and any number of restarts, losses, foreign changes and      *)
(* switches. That the writes alternate rests on TargetIsLastWrite, and     *)
(* that on a target with a value being the controller's own and past       *)
(* Unset: then a proposal of the same value is no change, and nothing is   *)
(* written.                                                                *)
(*                                                                         *)
(* Retained is proved for any number of commands, restarts and faults, and *)
(* so for queues of any length; its invariant follows every wish along its *)
(* way: on the broker, in the connection, in the queue, in force.          *)
(***************************************************************************)
EXTENDS EssState, Retained, SequenceTheorems, TLAPS

WellFormed(t) ==
  /\ t \in Targets({0})
  /\ t.value # None => t.owner = Controller /\ t.phase # "Unset"

SunOK(s) == s # None => s \in Suns

IInv == TypeOK /\ WellFormed(target) /\ TargetIsLastWrite

-----------------------------------------------------------------------------
(* Lemmas about the operators.                                             *)

LEMMA OverrideType ==
  ASSUME NEW k, NEW req, NEW s, NEW t
  PROVE  Override(k, req, s, t) \in {Keep, Optimized}
BY DEF Override

LEMMA ValuesAreNotNone ==
  Keep # None /\ Optimized # None /\ Keep \in Values /\ Optimized \in Values
BY NoneAssumption, EssAssumption

LEMMA ProposeWellFormed ==
  ASSUME NEW t, WellFormed(t), NEW w \in {Keep, Optimized}
  PROVE  /\ WellFormed(ProposeTarget(t, w, Controller))
         /\ WellFormed(MarkCommanded(ProposeTarget(t, w, Controller)))
         /\ ProposeTarget(t, w, Controller).value = w
         /\ MarkCommanded(ProposeTarget(t, w, Controller)).value = w
         /\ Acts(t, w) => t.value # w
         /\ ~ Acts(t, w) => ProposeTarget(t, w, Controller) = t
<1>1. w \in Values /\ w # None
  BY ValuesAreNotNone
<1>2. CASE Acts(t, w)
  <2>1. ProposeTarget(t, w, Controller)
          = [value |-> w, owner |-> Controller, phase |-> "Pending", age |-> 0]
    BY <1>2 DEF ProposeTarget, Acts
  <2>2. MarkCommanded(ProposeTarget(t, w, Controller))
          = [value |-> w, owner |-> Controller, phase |-> "Commanded", age |-> 0]
    BY <2>1 DEF MarkCommanded, Outstanding
  <2>3. t.value # w
    BY <1>1, <1>2 DEF Acts, ProposeChanges, WellFormed
  <2>4. WellFormed([value |-> w, owner |-> Controller, phase |-> "Pending", age |-> 0])
    BY <1>1, EssAssumption DEF WellFormed, Targets, Phases
  <2>5. WellFormed([value |-> w, owner |-> Controller, phase |-> "Commanded", age |-> 0])
    BY <1>1, EssAssumption DEF WellFormed, Targets, Phases
  <2> QED
    BY <1>2, <2>1, <2>2, <2>3, <2>4, <2>5
<1>3. CASE ~ Acts(t, w)
  <2>1. ProposeTarget(t, w, Controller) = t /\ t.value = w
    BY <1>3 DEF ProposeTarget, Acts, ProposeChanges
  <2>2. WellFormed(MarkCommanded(t)) /\ MarkCommanded(t).value = t.value
    BY <1>1, <2>1 DEF WellFormed, Targets, Phases, MarkCommanded, Outstanding
  <2> QED
    BY <1>3, <2>1, <2>2
<1> QED
  BY <1>2, <1>3

LEMMA ActualType ==
  ASSUME NEW a \in Actuals({0}), NEW t
  PROVE  MarkCommandedActual(t, a) \in Actuals({0})
BY DEF MarkCommandedActual, Deprecate, Actuals, Freshnesses

LEMMA ReadingType ==
  ASSUME NEW v \in Values, NEW t, WellFormed(t), NEW close \in BOOLEAN
  PROVE  /\ OnReading(v, 0) \in Actuals({0})
         /\ WellFormed(ConfirmIf(t, OnReading(v, 0), close, 0))
         /\ ConfirmIf(t, OnReading(v, 0), close, 0).value = t.value
<1>1. OnReading(v, 0) \in Actuals({0})
  BY DEF OnReading, Actuals, Freshnesses
<1>2. /\ WellFormed(ConfirmIf(t, OnReading(v, 0), close, 0))
      /\ ConfirmIf(t, OnReading(v, 0), close, 0).value = t.value
  BY DEF WellFormed, ConfirmIf, Outstanding, Targets, Phases
<1> QED
  BY <1>1, <1>2

\* What the core does to the entity an event left behind, with the goal of
\* that event still the old target's.
LEMMA ProcessStep ==
  ASSUME TypeOK, TargetIsLastWrite, NEW t, WellFormed(t), t.value = target.value,
         NEW a \in Actuals({0}), NEW live \in BOOLEAN, NEW k \in BOOLEAN,
         NEW req \in BOOLEAN, NEW s, SunOK(s), NEW rep \in Phases,
         Process(t, a, live, k, req, s, rep)
  PROVE  /\ WellFormed(target') /\ actual' \in Actuals({0})
         /\ writesEnabled' \in BOOLEAN /\ enabled' \in BOOLEAN /\ required' \in BOOLEAN
         /\ SunOK(sun') /\ reported' \in Phases
         /\ outbox' \in {None, Keep, Optimized}
         /\ lastWrite' \in {None, Keep, Optimized} /\ observed' \in BOOLEAN
         /\ TargetIsLastWrite' /\ WriteDiffers
<1> DEFINE w == Override(k, req, s, now)
           proposed == ProposeTarget(t, w, Controller)
           writes == Acts(t, w) /\ live
<1>1. /\ outbox = None
      /\ target' = IF writes THEN MarkCommanded(proposed) ELSE proposed
      /\ actual' = IF writes THEN MarkCommandedActual(proposed, a) ELSE a
      /\ outbox' = IF writes THEN w ELSE None
      /\ lastWrite' = IF writes THEN w ELSE lastWrite
      /\ observed' = (~ live \/ (observed /\ ~ writes))
      /\ reported' = IF Acts(t, w) THEN target'.phase ELSE rep
      /\ writesEnabled' = live /\ enabled' = k /\ required' = req /\ sun' = s
  BY DEF Process
<1>2. w \in {Keep, Optimized} /\ w # None
  BY OverrideType, ValuesAreNotNone
<1> HIDE DEF w
<1>3. /\ WellFormed(proposed) /\ WellFormed(MarkCommanded(proposed))
      /\ proposed.value = w /\ MarkCommanded(proposed).value = w
      /\ Acts(t, w) => t.value # w
      /\ ~ Acts(t, w) => proposed = t
  BY <1>2, ProposeWellFormed
<1>4. MarkCommandedActual(proposed, a) \in Actuals({0})
  BY ActualType
<1> HIDE DEF proposed
<1>5. WellFormed(target') /\ actual' \in Actuals({0})
  BY <1>1, <1>3, <1>4
<1>6. reported' \in Phases
  <2>1. target'.phase \in Phases
    BY <1>5 DEF WellFormed, Targets
  <2> QED
    BY <1>1, <2>1
<1>7. lastWrite' \in {None, Keep, Optimized} /\ observed' \in BOOLEAN
  BY <1>1, <1>2 DEF TypeOK
<1>8. TargetIsLastWrite'
  BY <1>1, <1>3 DEF TargetIsLastWrite
<1>9. WriteDiffers
  BY <1>1, <1>3 DEF TargetIsLastWrite, WriteDiffers
<1> QED
  BY <1>1, <1>2, <1>5, <1>6, <1>7, <1>8, <1>9

-----------------------------------------------------------------------------
(* The inductive invariant and, with it, what a step may do.               *)

LEMMA InitInv == Init => IInv
<1> SUFFICES ASSUME Init PROVE IInv
  OBVIOUS
<1>1. WellFormed(target) /\ actual \in Actuals({0})
  BY DEF Init, WellFormed, UnsetTarget, UnknownActual, Targets, Phases, Actuals,
         Freshnesses, NoOwner
<1>2. /\ now \in 0 .. DayLength - 1 /\ lost \in 0 .. MaxLost /\ flips \in 0 .. MaxFlips
      /\ foreign \in 0 .. MaxForeign
      /\ inbox \in Seq(Values) /\ Len(inbox) <= InboxCap
  BY EssAssumption DEF Init
<1>3. device \in Values
  BY DEF Init
<1>4. TypeOK
  BY <1>1, <1>2, <1>3 DEF Init, TypeOK, WellFormed, Phases
<1> QED
  BY <1>1, <1>4 DEF Init, IInv, TargetIsLastWrite

\* An event of the loop: the core runs, and at most the inbox and the count of
\* switches move.
LEMMA EventKeeps ==
  ASSUME IInv, NEW t, WellFormed(t), t.value = target.value,
         NEW a \in Actuals({0}), NEW live \in BOOLEAN, NEW k \in BOOLEAN,
         NEW req \in BOOLEAN, NEW s, SunOK(s), NEW rep \in Phases,
         Process(t, a, live, k, req, s, rep),
         UNCHANGED <<now, device, lost, foreign>>,
         inbox' \in Seq(Values), Len(inbox') <= InboxCap, flips' \in 0 .. MaxFlips
  PROVE  IInv' /\ WriteDiffers
<1>1. TypeOK /\ TargetIsLastWrite
  BY DEF IInv
<1>2. /\ WellFormed(target') /\ actual' \in Actuals({0})
      /\ writesEnabled' \in BOOLEAN /\ enabled' \in BOOLEAN /\ required' \in BOOLEAN
      /\ SunOK(sun') /\ reported' \in Phases
      /\ outbox' \in {None, Keep, Optimized}
      /\ lastWrite' \in {None, Keep, Optimized} /\ observed' \in BOOLEAN
      /\ TargetIsLastWrite' /\ WriteDiffers
  BY <1>1, ProcessStep
<1>3. TypeOK'
  BY <1>1, <1>2 DEF TypeOK, WellFormed, SunOK
<1> QED
  BY <1>2, <1>3 DEF IInv

LEMMA NextKeeps == IInv /\ [Next]_vars => IInv' /\ WriteDiffers
<1> SUFFICES ASSUME IInv, [Next]_vars PROVE IInv' /\ WriteDiffers
  OBVIOUS
<1>1. /\ WellFormed(target) /\ actual \in Actuals({0}) /\ writesEnabled \in BOOLEAN
      /\ enabled \in BOOLEAN /\ required \in BOOLEAN /\ SunOK(sun) /\ reported \in Phases
      /\ inbox \in Seq(Values) /\ Len(inbox) <= InboxCap /\ Len(inbox) \in Nat
      /\ flips \in 0 .. MaxFlips /\ lost \in 0 .. MaxLost /\ now \in 0 .. DayLength - 1
      /\ foreign \in 0 .. MaxForeign
  BY LenProperties DEF IInv, TypeOK, SunOK
<1>2. CASE Tick
  BY <1>1, <1>2, EventKeeps DEF Tick
<1>3. ASSUME NEW k \in BOOLEAN, NEW req \in BOOLEAN, Decide(k, req)
      PROVE  IInv' /\ WriteDiffers
  BY <1>1, <1>3, EventKeeps DEF Decide
<1>4. ASSUME NEW d \in Days, SunEvent(d) PROVE IInv' /\ WriteDiffers
  <2> DEFINE s == [rise |-> d[1], set |-> d[2], age |-> 0]
  <2>1. d[1] \in Int /\ d[2] \in Int /\ 0 \in 0 .. SunFresh + 1
    BY EssAssumption
  <2>2. SunOK(s)
    BY <2>1 DEF SunOK, Suns
  <2>3. /\ Process(target, actual, writesEnabled, enabled, required, s, reported)
        /\ UNCHANGED <<now, device, inbox, lost, foreign, flips>>
    BY <1>4 DEF SunEvent
  <2> HIDE DEF s
  <2> QED
    BY <1>1, <2>2, <2>3, EventKeeps
<1>5. CASE ReadingEvent
  <2> DEFINE a == OnReading(Head(inbox), 0)
             t == ConfirmIf(target, a, target.value = a.value, 0)
             rep == IF t.phase # target.phase THEN t.phase ELSE reported
  <2>1. /\ inbox # <<>> /\ inbox' = Tail(inbox)
        /\ Process(t, a, writesEnabled, enabled, required, sun, rep)
        /\ UNCHANGED <<now, device, lost, foreign, flips>>
    BY <1>5 DEF ReadingEvent
  <2>2. Head(inbox) \in Values /\ inbox' \in Seq(Values) /\ Len(inbox') = Len(inbox) - 1
    BY <1>1, <2>1, HeadTailProperties
  <2>3. a \in Actuals({0}) /\ WellFormed(t) /\ t.value = target.value
    BY <1>1, <2>2, ReadingType
  <2> HIDE DEF a, t
  <2>4. rep \in Phases
    BY <1>1, <2>3 DEF WellFormed, Targets
  <2> HIDE DEF rep
  <2>5. Len(inbox') <= InboxCap /\ flips' \in 0 .. MaxFlips
    BY <1>1, <2>1, <2>2, EssAssumption
  <2> QED
    BY <1>1, <2>1, <2>2, <2>3, <2>4, <2>5, EventKeeps
<1>6. ASSUME NEW live \in BOOLEAN, KillSwitch(live) PROVE IInv' /\ WriteDiffers
  <2>1. /\ flips < MaxFlips /\ flips' = flips + 1
        /\ Process(target, actual, live, enabled, required, sun, reported)
        /\ UNCHANGED <<now, device, inbox, lost, foreign>>
    BY <1>6 DEF KillSwitch
  <2>2. flips' \in 0 .. MaxFlips
    BY <1>1, <2>1, EssAssumption
  <2> QED
    BY <1>1, <2>1, <2>2, EventKeeps
<1>7. CASE WriteOk
  <2>1. device' \in Values /\ outbox' = None
    BY <1>7, ValuesAreNotNone DEF WriteOk, IInv, TypeOK
  <2> QED
    BY <1>7, <2>1 DEF WriteOk, core, inputs, IInv, TypeOK, WellFormed,
       TargetIsLastWrite, WriteDiffers
<1>8. CASE WriteLost
  <2>1. lost' \in 0 .. MaxLost
    BY <1>1, <1>8, EssAssumption DEF WriteLost
  <2> QED
    BY <1>8, <2>1 DEF WriteLost, core, inputs, IInv, TypeOK, WellFormed,
       TargetIsLastWrite, WriteDiffers
<1>9. CASE Readback
  <2>1. device \in Values /\ inbox' = Append(inbox, device) /\ Len(inbox) < InboxCap
    BY <1>9 DEF Readback, IInv, TypeOK
  <2>2. inbox' \in Seq(Values) /\ Len(inbox') = Len(inbox) + 1
    BY <1>1, <2>1, AppendProperties
  <2>3. Len(inbox') <= InboxCap
    BY <1>1, <2>1, <2>2, EssAssumption
  <2> QED
    BY <1>9, <2>2, <2>3 DEF Readback, core, inputs, IInv, TypeOK, WellFormed,
       TargetIsLastWrite, WriteDiffers
<1>10. CASE Elapse
  <2>1. now' \in 0 .. DayLength - 1
    BY <1>1, <1>10, EssAssumption DEF Elapse
  <2>2. SunOK(sun')
    <3> DEFINE shift == IF now' = 0 THEN DayLength ELSE 0
    <3>1. sun' = IF sun = None THEN None
                 ELSE IF sun.age > SunFresh THEN sun
                 ELSE [rise |-> sun.rise - shift, set |-> sun.set - shift,
                       age |-> sun.age + 1]
      BY <1>10 DEF Elapse
    <3>2. shift \in Int
      BY EssAssumption
    <3> HIDE DEF shift
    <3>3. CASE sun = None \/ sun.age > SunFresh
      BY <1>1, <3>1, <3>3 DEF SunOK
    <3>4. CASE sun # None /\ ~ (sun.age > SunFresh)
      <4>1. sun.rise \in Int /\ sun.set \in Int /\ sun.age \in 0 .. SunFresh + 1
        BY <1>1, <3>4 DEF SunOK, Suns
      <4>2. /\ sun.rise - shift \in Int /\ sun.set - shift \in Int
            /\ sun.age + 1 \in 0 .. SunFresh + 1
        BY <3>2, <3>4, <4>1, EssAssumption
      <4> QED
        BY <3>1, <3>4, <4>2 DEF SunOK, Suns
    <3> QED
      BY <3>3, <3>4
  <2> QED
    BY <1>10, <2>1, <2>2 DEF Elapse, core, IInv, TypeOK, WellFormed, SunOK,
       TargetIsLastWrite, WriteDiffers
<1>11. ASSUME NEW v \in Values, ForeignWrite(v) PROVE IInv' /\ WriteDiffers
  <2>1. foreign' \in 0 .. MaxForeign
    BY <1>1, <1>11, EssAssumption DEF ForeignWrite
  <2> QED
    BY <1>11, <2>1 DEF ForeignWrite, core, inputs, IInv, TypeOK, WellFormed,
       TargetIsLastWrite, WriteDiffers
<1>12. CASE Reboot
  <2>1. WellFormed(target') /\ actual' \in Actuals({0})
    BY <1>12 DEF Reboot, WellFormed, UnsetTarget, UnknownActual, Targets, Phases,
       Actuals, Freshnesses, NoOwner
  <2>2. inbox' \in Seq(Values) /\ Len(inbox') <= InboxCap /\ flips' \in 0 .. MaxFlips
    BY <1>12, EssAssumption DEF Reboot
  <2>3. TypeOK'
    BY <1>12, <2>1, <2>2 DEF Reboot, IInv, TypeOK, WellFormed, Phases
  <2> QED
    BY <1>12, <2>1, <2>3 DEF Reboot, IInv, TargetIsLastWrite, WriteDiffers
<1>13. CASE UNCHANGED vars
  BY <1>13 DEF vars, core, inputs, IInv, TypeOK, WellFormed, TargetIsLastWrite,
     WriteDiffers
<1> QED
  BY <1>2, <1>3, <1>4, <1>5, <1>6, <1>7, <1>8, <1>9, <1>10, <1>11, <1>12,
     <1>13 DEF Next

\* The inductive invariant holds in every behaviour.
THEOREM Invariance == Spec => []IInv
<1>1. IInv /\ [Next]_vars => IInv'
  BY NextKeeps
<1> QED
  BY <1>1, InitInv, PTL DEF Spec

\* The entity, its register and the sun times are well typed
\* (cores.rs EssStateOverrideCore).
THEOREM TypeCorrect == Spec => []TypeOK
<1>1. IInv => TypeOK
  BY DEF IInv
<1> QED
  BY <1>1, Invariance, PTL

\* While writes stay on, the goal never moves without an order going out
\* (cores.rs 694).
THEOREM TargetWasWritten == Spec => []TargetIsLastWrite
<1>1. IInv => TargetIsLastWrite
  BY DEF IInv
<1> QED
  BY <1>1, Invariance, PTL

\* In an uninterrupted live run the register is not rewritten with the value
\* last written (cores.rs 694).
THEOREM AlternatingWrites == Spec => WritesAlternate
<1>1. IInv /\ [Next]_vars => [WriteDiffers]_vars
  BY NextKeeps
<1> QED
  BY <1>1, Invariance, PTL DEF Spec, WritesAlternate

-----------------------------------------------------------------------------
(* Retained: the invariant.                                                *)

\* A wish that a booted program is to run on.
Wished(t) ==
  t \in Kept /\ t \notin spoiled /\ wish[t] \notin {Absent, "Cleared"}

\* The retained message of t has been taken from the connection.
Fetched(t) == Live \/ t \in heard

\* What has to come after t: a later message of t, or the kill switch.
Rivals(t) == IF t = "knob" THEN {"knob", "writes"} ELSE {t}

Leads(s, t, v) ==
  \E i \in 1 .. Len(s) :
    /\ s[i].topic = t /\ s[i].value = v
    /\ \A j \in 1 .. i - 1 : s[j].topic \notin Rivals(t)

Lasts(s, t, v) ==
  \E i \in 1 .. Len(s) :
    /\ s[i].topic = t /\ s[i].value = v
    /\ \A j \in i + 1 .. Len(s) : s[j].topic # t

Without(s, t) == \A i \in 1 .. Len(s) : s[i].topic # t

\* What the broker retains of t once it has taken all of s.
Persisted(s, r, t, v) == Lasts(s, t, v) \/ (Without(s, t) /\ r[t] = v)

\* Of the events in a queue s, those that bring a retained value of t.
Brings(m, t) == m.topic = t /\ m.by = "System"
Brought(s, t) == \E i \in 1 .. Len(s) : Brings(s[i], t)
BroughtOnly(s, t, v) == \A i \in 1 .. Len(s) : Brings(s[i], t) => s[i].value = v

\* No retained knob comes after the retained kill switch.
KnobBefore(s) ==
  \A i \in 1 .. Len(s) : Brings(s[i], "writes") =>
    \A j \in i + 1 .. Len(s) : ~ Brings(s[j], "knob")

\* A retained permission is followed by the reset.
Shut(s) ==
  \A i \in 1 .. Len(s) : Brings(s[i], "allow") /\ s[i].value = "on" =>
    \E j \in i + 1 .. Len(s) : s[j] = Reset

\* A wish still to be fetched lies on the broker, then ahead of its rivals.
Coming(t) ==
  Wished(t) /\ ~ Fetched(t) =>
    /\ phase = "Connecting" => retained[t] = wish[t]
    /\ phase = "Window" => Leads(inbound, t, wish[t])

\* A wish fetched is queued, or in force.
Arrived(t) ==
  Wished(t) /\ Fetched(t) =>
    /\ BroughtOnly(queue, t, wish[t])
    /\ Brought(queue, t) \/ world[t] = wish[t]

\* It is queued only then.
Unqueued(t) == ~ Fetched(t) => ~ Brought(queue, t)

\* A restart would bring it back; the date may be covered by one the core has
\* seeded, until the retained date has been taken.
Durable(t) ==
  Wished(t) /\ (t = "next" => Fetched(t) /\ ~ Brought(queue, t))
    => Persisted(wire, retained, t, wish[t])

Sane(t) == Wished(t) => wish[t] # "Wild"

KnobFirst ==
  Wished("knob") =>
    /\ Brought(queue, "writes") => Fetched("knob")
    /\ KnobBefore(queue)

\* The initial publication says what is in force, or it is a gap.
Announcing ==
  /\ phase # "Announced" => publishing = <<>>
  /\ phase = "Announced" =>
       /\ \A t \in Topics : ~ Brought(queue, t)
       /\ Without(publishing, "writes") /\ Without(publishing, "next")
       /\ "knob" \notin spoiled =>
            /\ \A i \in 1 .. Len(publishing) :
                 publishing[i].topic = "knob" => publishing[i].value = world.knob
            /\ \/ ~ Without(publishing, "knob")
               \/ Persisted(wire, retained, "knob", world.knob)

CarShut ==
  /\ \A i \in 1 .. Len(queue) : queue[i].by \in {"System", "User"}
  /\ Live =>
     /\ Shut(queue)
     /\ world.allow = "on" => Brought(queue, "allow") \/ wish.allow = "on"

RetainedInv ==
  /\ RetainedTypeOK
  /\ \A t \in Kept : /\ Coming(t) /\ Unqueued(t)
                   /\ Arrived(t) /\ Durable(t) /\ Sane(t)
  /\ KnobFirst /\ Announcing /\ CarShut
  /\ phase = "Connecting" => heard = {}

-----------------------------------------------------------------------------
(* Lemmas about sequences of messages.                                     *)

LEMMA TailFacts ==
  ASSUME NEW s \in Seq(Messages), s # <<>>
  PROVE  /\ Len(s) \in Nat /\ Len(s) >= 1
         /\ Head(s) = s[1] /\ Head(s) \in Messages
         /\ Tail(s) \in Seq(Messages) /\ Len(Tail(s)) = Len(s) - 1
         /\ \A i \in 1 .. Len(Tail(s)) : Tail(s)[i] = s[i + 1]
BY HeadTailProperties, ElementOfSeq

LEMMA AppendFacts ==
  ASSUME NEW s \in Seq(Messages), NEW m \in Messages
  PROVE  /\ Len(s) \in Nat
         /\ Append(s, m) \in Seq(Messages) /\ Len(Append(s, m)) = Len(s) + 1
         /\ \A i \in 1 .. Len(s) : Append(s, m)[i] = s[i]
         /\ Append(s, m)[Len(s) + 1] = m
BY AppendProperties

\* The publishes of one command, one after the other.
LEMMA PublishedInTurn ==
  ASSUME NEW s \in Seq(Messages), NEW m \in Messages, NEW n \in Messages,
         NEW p \in BOOLEAN, NEW q \in BOOLEAN
  PROVE  s \o ((IF p THEN <<m>> ELSE <<>>) \o (IF q THEN <<n>> ELSE <<>>)) =
           LET a == IF p THEN Append(s, m) ELSE s
           IN  IF q THEN Append(a, n) ELSE a
<1>1. /\ s \o <<m>> = Append(s, m) /\ s \o <<n>> = Append(s, n)
      /\ Append(s, m) \in Seq(Messages)
  OBVIOUS
<1>2. s \o (<<m>> \o <<n>>) = Append(Append(s, m), n)
  <2>1. <<m>> \in Seq(Messages) /\ <<n>> \in Seq(Messages)
    OBVIOUS
  <2>2. s \o (<<m>> \o <<n>>) = (s \o <<m>>) \o <<n>>
    BY <2>1, ConcatAssociative
  <2>3. Append(s, m) \o <<n>> = Append(Append(s, m), n)
    BY <1>1
  <2> QED
    BY <1>1, <2>2, <2>3
<1>3. s \o <<>> = s
  OBVIOUS
<1>4. <<>> \o <<n>> = <<n>> /\ <<m>> \o <<>> = <<m>> /\ <<>> \o <<>> = <<>>
  OBVIOUS
<1> QED
  BY <1>1, <1>2, <1>3, <1>4

LEMMA LeadsAppend ==
  ASSUME NEW s \in Seq(Messages), NEW m \in Messages, NEW t, NEW v, Leads(s, t, v)
  PROVE  Leads(Append(s, m), t, v)
BY AppendFacts DEF Leads

LEMMA LeadsTail ==
  ASSUME NEW s \in Seq(Messages), NEW t, NEW v, s # <<>>, Leads(s, t, v)
  PROVE  /\ Head(s).topic \in Rivals(t) => Head(s).topic = t /\ Head(s).value = v
         /\ Head(s).topic \notin Rivals(t) => Leads(Tail(s), t, v)
<1>1. PICK i \in 1 .. Len(s) :
        /\ s[i].topic = t /\ s[i].value = v
        /\ \A j \in 1 .. i - 1 : s[j].topic \notin Rivals(t)
  BY DEF Leads
<1>2. /\ Len(s) \in Nat /\ Len(s) >= 1 /\ Head(s) = s[1]
      /\ Tail(s) \in Seq(Messages) /\ Len(Tail(s)) = Len(s) - 1
      /\ \A k \in 1 .. Len(Tail(s)) : Tail(s)[k] = s[k + 1]
  BY TailFacts
<1>3. t \in Rivals(t)
  BY DEF Rivals
<1>4. CASE i = 1
  BY <1>1, <1>2, <1>3, <1>4
<1>5. CASE i # 1
  <2>1. Head(s).topic \notin Rivals(t)
    BY <1>1, <1>2, <1>5
  <2>2. /\ i - 1 \in 1 .. Len(Tail(s)) /\ Tail(s)[i - 1] = s[i]
        /\ \A j \in 1 .. (i - 1) - 1 : j + 1 \in 1 .. i - 1 /\ Tail(s)[j] = s[j + 1]
    BY <1>2, <1>5
  <2>3. Leads(Tail(s), t, v)
    BY <1>1, <2>2 DEF Leads
  <2> QED
    BY <2>1, <2>3
<1> QED
  BY <1>4, <1>5

LEMMA NothingLeads == \A t, v : ~ Leads(<<>>, t, v)
BY DEF Leads

LEMMA LastsAppend ==
  ASSUME NEW s \in Seq(Messages), NEW m \in Messages, NEW t, NEW v
  PROVE  /\ Lasts(Append(s, m), m.topic, m.value)
         /\ m.topic # t /\ Lasts(s, t, v) => Lasts(Append(s, m), t, v)
         /\ m.topic # t /\ Without(s, t) => Without(Append(s, m), t)
<1>1. /\ Len(s) \in Nat /\ Len(Append(s, m)) = Len(s) + 1
      /\ \A i \in 1 .. Len(s) : Append(s, m)[i] = s[i]
      /\ Append(s, m)[Len(s) + 1] = m
  BY AppendFacts
<1>2. Lasts(Append(s, m), m.topic, m.value)
  BY <1>1 DEF Lasts
<1>3. ASSUME m.topic # t, Lasts(s, t, v)
      PROVE  Lasts(Append(s, m), t, v)
  <2>1. PICK i \in 1 .. Len(s) :
          /\ s[i].topic = t /\ s[i].value = v
          /\ \A j \in i + 1 .. Len(s) : s[j].topic # t
    BY <1>3 DEF Lasts
  <2>2. \A j \in i + 1 .. Len(Append(s, m)) : Append(s, m)[j].topic # t
    <3> TAKE j \in i + 1 .. Len(Append(s, m))
    <3>1. j \in i + 1 .. Len(s) \/ j = Len(s) + 1
      BY <1>1
    <3> QED
      BY <1>1, <1>3, <2>1, <3>1
  <2> QED
    BY <1>1, <2>1, <2>2 DEF Lasts
<1>4. ASSUME m.topic # t, Without(s, t)
      PROVE  Without(Append(s, m), t)
  <2> SUFFICES ASSUME NEW i \in 1 .. Len(Append(s, m))
               PROVE  Append(s, m)[i].topic # t
    BY DEF Without
  <2>1. i \in 1 .. Len(s) \/ i = Len(s) + 1
    BY <1>1
  <2> QED
    BY <1>1, <1>4, <2>1 DEF Without
<1> QED
  BY <1>2, <1>3, <1>4

LEMMA PersistedAppend ==
  ASSUME NEW s \in Seq(Messages), NEW m \in Messages, NEW r, NEW t, NEW v
  PROVE  /\ Persisted(Append(s, m), r, m.topic, m.value)
         /\ m.topic # t /\ Persisted(s, r, t, v) => Persisted(Append(s, m), r, t, v)
BY LastsAppend DEF Persisted

\* The broker takes a publish: what will be retained in the end stays the same.
LEMMA PersistedTail ==
  ASSUME NEW s \in Seq(Messages), s # <<>>, NEW r,
         r \in [Topics -> AnyPayload \union {Absent}], NEW t \in Topics, NEW v,
         Persisted(s, r, t, v)
  PROVE  Persisted(Tail(s), [r EXCEPT ![Head(s).topic] = Head(s).value], t, v)
<1> DEFINE q == [r EXCEPT ![Head(s).topic] = Head(s).value]
<1>1. /\ Len(s) \in Nat /\ Len(s) >= 1 /\ Head(s) = s[1] /\ Head(s) \in Messages
      /\ Len(Tail(s)) = Len(s) - 1
      /\ \A k \in 1 .. Len(Tail(s)) : Tail(s)[k] = s[k + 1]
  BY TailFacts
<1>2. /\ Head(s).topic = t => q[t] = Head(s).value
      /\ Head(s).topic # t => q[t] = r[t]
  BY <1>1 DEF Messages
<1> HIDE DEF q
<1>3. CASE Without(s, t) /\ r[t] = v
  <2>1. Head(s).topic # t /\ Without(Tail(s), t)
    BY <1>1, <1>3 DEF Without
  <2> QED
    BY <1>2, <1>3, <2>1 DEF Persisted, q
<1>4. CASE Lasts(s, t, v)
  <2>1. PICK i \in 1 .. Len(s) :
          /\ s[i].topic = t /\ s[i].value = v
          /\ \A j \in i + 1 .. Len(s) : s[j].topic # t
    BY <1>4 DEF Lasts
  <2>2. CASE i = 1
    <3>1. Without(Tail(s), t)
      BY <1>1, <2>1, <2>2 DEF Without
    <3>2. q[t] = v
      BY <1>1, <1>2, <2>1, <2>2
    <3> QED
      BY <3>1, <3>2 DEF Persisted, q
  <2>3. CASE i # 1
    <3>1. /\ i - 1 \in 1 .. Len(Tail(s)) /\ Tail(s)[i - 1] = s[i]
          /\ \A j \in (i - 1) + 1 .. Len(Tail(s)) :
               j + 1 \in i + 1 .. Len(s) /\ Tail(s)[j] = s[j + 1]
      BY <1>1, <2>3
    <3>2. Lasts(Tail(s), t, v)
      BY <2>1, <3>1 DEF Lasts
    <3> QED
      BY <3>2 DEF Persisted
  <2> QED
    BY <2>2, <2>3
<1> QED
  BY <1>3, <1>4 DEF Persisted

\* A restart that loses nothing new of t.
LEMMA PersistedHome ==
  ASSUME NEW s \in Seq(Messages), NEW r, NEW t, NEW v, Persisted(s, r, t, v),
         \A i \in 1 .. Len(s) : s[i].topic = t => s[i].value = r[t]
  PROVE  r[t] = v /\ Persisted(<<>>, r, t, v)
BY DEF Persisted, Lasts, Without

LEMMA BroughtAppend ==
  ASSUME NEW s \in Seq(Messages), NEW m \in Messages, NEW t
  PROVE  /\ Brought(Append(s, m), t) <=> Brought(s, t) \/ Brings(m, t)
         /\ \A v : BroughtOnly(s, t, v) /\ (Brings(m, t) => m.value = v)
                     => BroughtOnly(Append(s, m), t, v)
         /\ KnobBefore(s) /\ ~ (Brings(m, "knob") /\ Brought(s, "writes"))
              => KnobBefore(Append(s, m))
         /\ Shut(s) /\ ~ (Brings(m, "allow") /\ m.value = "on") => Shut(Append(s, m))
         /\ m = Reset => Shut(Append(s, m))
<1>1. /\ Len(s) \in Nat /\ Len(Append(s, m)) = Len(s) + 1
      /\ \A i \in 1 .. Len(s) : Append(s, m)[i] = s[i]
      /\ Append(s, m)[Len(s) + 1] = m
  BY AppendFacts
<1>2. \A i : i \in 1 .. Len(Append(s, m)) <=> i \in 1 .. Len(s) \/ i = Len(s) + 1
  BY <1>1
<1>3. Brought(Append(s, m), t) <=> Brought(s, t) \/ Brings(m, t)
  BY <1>1, <1>2 DEF Brought
<1>4. ASSUME NEW v, BroughtOnly(s, t, v), Brings(m, t) => m.value = v
      PROVE  BroughtOnly(Append(s, m), t, v)
  BY <1>1, <1>2, <1>4 DEF BroughtOnly
<1>5. ASSUME KnobBefore(s), ~ (Brings(m, "knob") /\ Brought(s, "writes"))
      PROVE  KnobBefore(Append(s, m))
  <2> SUFFICES ASSUME NEW i \in 1 .. Len(Append(s, m)),
                      Brings(Append(s, m)[i], "writes"),
                      NEW j \in i + 1 .. Len(Append(s, m))
               PROVE  ~ Brings(Append(s, m)[j], "knob")
    BY DEF KnobBefore
  <2>1. i \in 1 .. Len(s) /\ Brings(s[i], "writes")
    BY <1>1
  <2>2. j \in i + 1 .. Len(s) \/ j = Len(s) + 1
    BY <1>1, <2>1
  <2> QED
    BY <1>1, <1>5, <2>1, <2>2 DEF KnobBefore, Brought
<1>6. ASSUME Shut(s), ~ (Brings(m, "allow") /\ m.value = "on")
      PROVE  Shut(Append(s, m))
  <2> SUFFICES ASSUME NEW i \in 1 .. Len(Append(s, m)),
                      Brings(Append(s, m)[i], "allow"),
                      Append(s, m)[i].value = "on"
               PROVE  \E j \in i + 1 .. Len(Append(s, m)) : Append(s, m)[j] = Reset
    BY DEF Shut
  <2>1. i \in 1 .. Len(s) /\ Brings(s[i], "allow") /\ s[i].value = "on"
    BY <1>1, <1>2, <1>6
  <2>2. PICK j \in i + 1 .. Len(s) : s[j] = Reset
    BY <1>6, <2>1 DEF Shut
  <2>3. j \in i + 1 .. Len(Append(s, m)) /\ Append(s, m)[j] = Reset
    BY <1>1, <2>2
  <2> QED
    BY <2>3
<1>7. ASSUME m = Reset
      PROVE  Shut(Append(s, m))
  <2>1. ~ (Brings(Append(s, m)[Len(s) + 1], "allow") /\ m.value = "on")
    BY <1>7 DEF Reset, Message
  <2>2. \A i \in 1 .. Len(s) : Len(s) + 1 \in i + 1 .. Len(Append(s, m))
    BY <1>1
  <2> QED
    BY <1>1, <1>2, <1>7, <2>1, <2>2 DEF Shut
<1> QED
  BY <1>3, <1>4, <1>5, <1>6, <1>7

LEMMA BroughtTail ==
  ASSUME NEW s \in Seq(Messages), s # <<>>, NEW t
  PROVE  /\ Brought(s, t) <=> Brings(Head(s), t) \/ Brought(Tail(s), t)
         /\ \A v : BroughtOnly(s, t, v) =>
              /\ BroughtOnly(Tail(s), t, v)
              /\ Brings(Head(s), t) => Head(s).value = v
         /\ KnobBefore(s) =>
              /\ KnobBefore(Tail(s))
              /\ Brings(Head(s), "writes") => ~ Brought(Tail(s), "knob")
         /\ Shut(s) =>
              /\ Shut(Tail(s))
              /\ Brings(Head(s), "allow") /\ Head(s).value = "on"
                   => Brought(Tail(s), "allow")
<1>1. /\ Len(s) \in Nat /\ Len(s) >= 1 /\ Head(s) = s[1]
      /\ Len(Tail(s)) = Len(s) - 1
      /\ \A k \in 1 .. Len(Tail(s)) : Tail(s)[k] = s[k + 1]
  BY TailFacts
<1>2. /\ \A i \in 1 .. Len(s) :
           i = 1 \/ (i - 1 \in 1 .. Len(Tail(s)) /\ Tail(s)[i - 1] = s[i])
      /\ \A i \in 1 .. Len(Tail(s)) : i + 1 \in 1 .. Len(s) /\ Tail(s)[i] = s[i + 1]
      /\ 1 \in 1 .. Len(s)
  BY <1>1
<1>3. Brought(s, t) <=> Brings(Head(s), t) \/ Brought(Tail(s), t)
  BY <1>1, <1>2 DEF Brought
<1>4. ASSUME NEW v, BroughtOnly(s, t, v)
      PROVE  /\ BroughtOnly(Tail(s), t, v)
             /\ Brings(Head(s), t) => Head(s).value = v
  BY <1>1, <1>2, <1>4 DEF BroughtOnly
<1>5. ASSUME KnobBefore(s)
      PROVE  /\ KnobBefore(Tail(s))
             /\ Brings(Head(s), "writes") => ~ Brought(Tail(s), "knob")
  <2>1. \A i \in 1 .. Len(Tail(s)) : \A j \in i + 1 .. Len(Tail(s)) :
          /\ i + 1 \in 1 .. Len(s) /\ Tail(s)[i] = s[i + 1]
          /\ j + 1 \in (i + 1) + 1 .. Len(s) /\ Tail(s)[j] = s[j + 1]
    BY <1>1
  <2>2. KnobBefore(Tail(s))
    BY <1>5, <2>1 DEF KnobBefore
  <2>3. \A j \in 1 .. Len(Tail(s)) :
          j + 1 \in 1 + 1 .. Len(s) /\ Tail(s)[j] = s[j + 1]
    BY <1>1
  <2>4. Brings(Head(s), "writes") => ~ Brought(Tail(s), "knob")
    BY <1>1, <1>2, <1>5, <2>3 DEF KnobBefore, Brought
  <2> QED
    BY <2>2, <2>4
<1>6. ASSUME Shut(s)
      PROVE  /\ Shut(Tail(s))
             /\ Brings(Head(s), "allow") /\ Head(s).value = "on"
                  => Brought(Tail(s), "allow")
  <2>1. Shut(Tail(s))
    <3> SUFFICES ASSUME NEW i \in 1 .. Len(Tail(s)),
                        Brings(Tail(s)[i], "allow"), Tail(s)[i].value = "on"
                 PROVE  \E j \in i + 1 .. Len(Tail(s)) : Tail(s)[j] = Reset
      BY DEF Shut
    <3>1. PICK k \in (i + 1) + 1 .. Len(s) : s[k] = Reset
      BY <1>2, <1>6 DEF Shut
    <3>2. k - 1 \in i + 1 .. Len(Tail(s)) /\ Tail(s)[k - 1] = s[k]
      BY <1>1, <3>1
    <3> QED
      BY <3>1, <3>2
  <2>2. ASSUME Brings(Head(s), "allow"), Head(s).value = "on"
        PROVE  Brought(Tail(s), "allow")
    <3>1. PICK k \in 1 + 1 .. Len(s) : s[k] = Reset
      BY <1>1, <1>2, <1>6, <2>2 DEF Shut
    <3>2. k - 1 \in 1 .. Len(Tail(s)) /\ Tail(s)[k - 1] = Reset
      BY <1>1, <3>1
    <3>3. Brings(Reset, "allow")
      BY DEF Brings, Reset, Message
    <3> QED
      BY <3>2, <3>3 DEF Brought
  <2> QED
    BY <2>1, <2>2
<1> QED
  BY <1>3, <1>4, <1>5, <1>6

-----------------------------------------------------------------------------
(* Retained: types.                                                        *)

LEMMA MessageType ==
  ASSUME NEW t \in Topics, NEW v \in Payloads[t],
         NEW by \in {"System", "User", "Core", "Initial"}
  PROVE  /\ Message(t, v, by) \in Messages
         /\ Message(t, v, by).topic = t /\ Message(t, v, by).value = v
         /\ Message(t, v, by).by = by
BY DEF Message, Messages, AnyPayload

LEMMA PayloadTypes ==
  /\ Payloads["knob"] = {"Safe", "User", "Wild"} /\ Payloads["allow"] = {"off", "on"}
  /\ Payloads["writes"] = {"off", "on"}
  /\ Payloads["next"] = {"Cleared", "Seeded", "Chosen"}
  /\ \A t \in Topics : Payloads[t] \subseteq AnyPayload
  /\ Absent \notin AnyPayload
BY DEF Payloads, Topics, AnyPayload, Absent

LEMMA ResetType ==
  /\ Reset \in Messages /\ Reset.topic = "allow" /\ Reset.value = "off"
  /\ Reset.by = "System"
BY MessageType, PayloadTypes DEF Reset, Topics

LEMMA DefaultsType ==
  /\ Defaults \in [Topics -> AnyPayload]
  /\ \A t \in Topics : Defaults[t] \in Payloads[t]
  /\ Defaults["allow"] = "off" /\ Defaults["next"] = "Cleared"
<1>1. /\ Defaults["knob"] = "Safe" /\ Defaults["allow"] = "off"
      /\ Defaults["writes"] = "off" /\ Defaults["next"] = "Cleared"
  BY DEF Defaults
<1>2. \A t \in Topics : Defaults[t] \in Payloads[t]
  BY <1>1, PayloadTypes DEF Topics
<1>3. Defaults = [t \in Topics |-> Defaults[t]]
  BY DEF Defaults, Topics
<1> QED
  BY <1>1, <1>2, <1>3, PayloadTypes

LEMMA AnswerType ==
  ASSUME RetainedTypeOK
  PROVE  \A t \in Topics : Answer(t) \in Seq(Messages)
<1> SUFFICES ASSUME NEW t \in Topics PROVE Answer(t) \in Seq(Messages)
  OBVIOUS
<1>1. retained[t] # Absent => Message(t, retained[t], "System") \in Messages
  BY MessageType DEF RetainedTypeOK
<1> QED
  BY <1>1 DEF Answer

LEMMA SeededType ==
  ASSUME NEW w \in [Topics -> AnyPayload], NEW u \in BOOLEAN,
         \A t \in Topics : w[t] \in Payloads[t]
  PROVE  /\ Seeded(w, u) \in [Topics -> AnyPayload]
         /\ \A t \in Topics : Seeded(w, u)[t] \in Payloads[t]
         /\ \A t \in Topics : t # "next" => Seeded(w, u)[t] = w[t]
         /\ w["next"] # "Cleared" => Seeded(w, u) = w
         /\ Message("next", "Seeded", "Core") \in Messages
         /\ Message("next", "Seeded", "Core").topic = "next"
         /\ SeedOf(w, u) = IF Seeds(w, u) THEN <<Message("next", "Seeded", "Core")>>
                                          ELSE <<>>
         /\ Seeds(w, u) \in BOOLEAN
<1>1. "next" \in Topics /\ "Seeded" \in Payloads["next"] /\ "Seeded" \in AnyPayload
  BY PayloadTypes DEF Topics
<1>2. /\ Message("next", "Seeded", "Core") \in Messages
      /\ Message("next", "Seeded", "Core").topic = "next"
  BY <1>1, MessageType
<1>3. /\ Seeded(w, u) \in [Topics -> AnyPayload]
      /\ \A t \in Topics : Seeded(w, u)[t] \in Payloads[t]
      /\ \A t \in Topics : t # "next" => Seeded(w, u)[t] = w[t]
  BY <1>1 DEF Seeded
<1>4. w["next"] # "Cleared" => Seeded(w, u) = w
  BY DEF Seeded, Seeds
<1> QED
  BY <1>2, <1>3, <1>4 DEF SeedOf, Seeds

\* What one command leaves behind.
LEMMA TakeType ==
  ASSUME RetainedTypeOK, NEW usable \in BOOLEAN, NEW sent \in BOOLEAN,
         Take(usable, sent)
  PROVE  LET msg == Head(queue)
             w == [world EXCEPT ![msg.topic] = msg.value]
             seed == Message("next", "Seeded", "Core")
             one == IF Publishes(msg) THEN Append(wire, msg) ELSE wire
         IN  /\ msg \in Messages /\ msg.topic \in Topics
             /\ msg.value \in Payloads[msg.topic] /\ msg.value \in AnyPayload
             /\ queue # <<>> /\ queue' = Tail(queue) /\ queue' \in Seq(Messages)
             /\ w \in [Topics -> AnyPayload] /\ w[msg.topic] = msg.value
             /\ \A t \in Topics : /\ w[t] \in Payloads[t]
                                  /\ t # msg.topic => w[t] = world[t]
             /\ world' = Seeded(w, usable)
             /\ one \in Seq(Messages)
             /\ wire' = IF ~ sent THEN wire
                        ELSE IF Seeds(w, usable) THEN Append(one, seed) ELSE one
             /\ wire' \in Seq(Messages)
<1> DEFINE msg == Head(queue)
           w == [world EXCEPT ![msg.topic] = msg.value]
           seed == Message("next", "Seeded", "Core")
           one == IF Publishes(msg) THEN Append(wire, msg) ELSE wire
<1>1. /\ queue # <<>> /\ queue' = Tail(queue) /\ world' = Seeded(w, usable)
      /\ wire' = IF sent THEN wire \o ((IF Publishes(msg) THEN <<msg>> ELSE <<>>)
                                        \o SeedOf(w, usable))
                 ELSE wire
  BY DEF Take
<1>2. /\ queue \in Seq(Messages) /\ wire \in Seq(Messages)
      /\ world \in [Topics -> AnyPayload] /\ \A t \in Topics : world[t] \in Payloads[t]
  BY DEF RetainedTypeOK
<1>3. msg \in Messages /\ queue' \in Seq(Messages)
  BY <1>1, <1>2, TailFacts
<1>4. /\ msg.topic \in Topics /\ msg.value \in Payloads[msg.topic]
      /\ msg.value \in AnyPayload
  BY <1>3 DEF Messages
<1>5. /\ w \in [Topics -> AnyPayload] /\ w[msg.topic] = msg.value
      /\ \A t \in Topics : w[t] \in Payloads[t] /\ (t # msg.topic => w[t] = world[t])
  BY <1>2, <1>4
<1> HIDE DEF msg, w
<1>6. /\ seed \in Messages /\ Seeds(w, usable) \in BOOLEAN
      /\ SeedOf(w, usable) = IF Seeds(w, usable) THEN <<seed>> ELSE <<>>
  BY <1>5, SeededType
<1>7. Publishes(msg) \in BOOLEAN
  BY DEF Publishes
<1> HIDE DEF seed
<1>8. wire \o ((IF Publishes(msg) THEN <<msg>> ELSE <<>>)
                \o (IF Seeds(w, usable) THEN <<seed>> ELSE <<>>))
        = IF Seeds(w, usable) THEN Append(one, seed) ELSE one
  <2>1. \A p, q \in BOOLEAN :
          wire \o ((IF p THEN <<msg>> ELSE <<>>) \o (IF q THEN <<seed>> ELSE <<>>))
            = IF q THEN Append(IF p THEN Append(wire, msg) ELSE wire, seed)
                   ELSE IF p THEN Append(wire, msg) ELSE wire
    BY <1>2, <1>3, <1>6, PublishedInTurn
  <2>2. PICK p \in BOOLEAN : p = Publishes(msg)
    BY <1>7
  <2>3. PICK q \in BOOLEAN : q = Seeds(w, usable)
    BY <1>6
  <2> QED
    BY <2>1, <2>2, <2>3
<1>9. one \in Seq(Messages)
  BY <1>2, <1>3
<1>10. wire' = IF ~ sent THEN wire
               ELSE IF Seeds(w, usable) THEN Append(one, seed) ELSE one
  BY <1>1, <1>6, <1>8
<1>11. wire' \in Seq(Messages)
  BY <1>2, <1>6, <1>9, <1>10
<1> QED
  BY <1>1, <1>3, <1>4, <1>5, <1>9, <1>10, <1>11 DEF msg, w, seed

LEMMA AwaitedIs ==
  /\ queue \in Seq(Messages) =>
       \A t : Awaited(t) <=> ~ Live \/ Brought(queue, t)
  /\ queue' \in Seq(Messages) =>
       \A t : Awaited(t)' <=> ~ Live' \/ Brought(queue', t)
BY LenProperties DEF Awaited, Brought, Brings

LEMMA RetainedTypeKept ==
  RetainedTypeOK /\ [RetainedNext]_retainedVars => RetainedTypeOK'
<1> SUFFICES ASSUME RetainedTypeOK, [RetainedNext]_retainedVars
             PROVE  RetainedTypeOK'
  OBVIOUS
<1>1. /\ inbound \in Seq(Messages) /\ queue \in Seq(Messages)
      /\ publishing \in Seq(Messages) /\ wire \in Seq(Messages)
      /\ retained \in [Topics -> AnyPayload \union {Absent}]
      /\ wish \in [Topics -> AnyPayload \union {Absent}]
      /\ \A t \in Topics : /\ retained[t] \in Payloads[t] \union {Absent}
                           /\ wish[t] \in Payloads[t] \union {Absent}
      /\ world \in [Topics -> AnyPayload] /\ \A t \in Topics : world[t] \in Payloads[t]
      /\ heard \subseteq Topics /\ spoiled \subseteq Topics
      /\ phase # "Window" => inbound = <<>>
      /\ phase \in {"Connecting", "Window", "Live", "Announced"}
  BY DEF RetainedTypeOK
<1>2. CASE Subscribe
  <2>1. Subscribed \in Seq(Messages)
    BY AnswerType DEF Subscribed, Topics
  <2> QED
    BY <1>1, <1>2, <2>1 DEF Subscribe, RetainedTypeOK, counters
<1>3. CASE Deliver
  <2>1. /\ Head(inbound) \in Messages /\ Tail(inbound) \in Seq(Messages)
        /\ [Head(inbound) EXCEPT !.by = "System"] \in Messages
    BY <1>1, <1>3, TailFacts DEF Deliver, Messages
  <2>2. Head(inbound).topic \in Topics
    BY <2>1 DEF Messages
  <2>3. queue' \in Seq(Messages) /\ heard' \subseteq Topics
    BY <1>1, <1>3, <2>1, <2>2 DEF Deliver
  <2> QED
    BY <1>1, <1>3, <2>1, <2>3 DEF Deliver, RetainedTypeOK, counters
<1>4. CASE WindowEnds
  BY <1>1, <1>4, ResetType DEF WindowEnds, Leave, RetainedTypeOK, counters
<1>5. CASE WindowCut
  BY <1>1, <1>5, ResetType DEF WindowCut, Leave, RetainedTypeOK, counters
<1>6. ASSUME NEW usable \in BOOLEAN, NEW sent \in BOOLEAN, Take(usable, sent)
      PROVE  RetainedTypeOK'
  <2> DEFINE msg == Head(queue)
             w == [world EXCEPT ![msg.topic] = msg.value]
  <2>1. /\ msg.topic \in Topics /\ msg.value \in Payloads[msg.topic]
        /\ msg.value \in AnyPayload
        /\ queue' \in Seq(Messages) /\ wire' \in Seq(Messages)
        /\ w \in [Topics -> AnyPayload] /\ \A t \in Topics : w[t] \in Payloads[t]
        /\ world' = Seeded(w, usable)
    BY <1>6, TakeType
  <2>2. /\ wish' = IF msg.by = "User"
                   THEN [wish EXCEPT ![msg.topic] = msg.value] ELSE wish
        /\ spoiled' \in {spoiled \union {msg.topic}, spoiled \ {msg.topic}, spoiled}
        /\ UNCHANGED <<retained, phase, inbound, heard, publishing>>
    BY <1>6 DEF Take
  <2> HIDE DEF msg, w
  <2>3. world' \in [Topics -> AnyPayload] /\ \A t \in Topics : world'[t] \in Payloads[t]
    BY <2>1, SeededType
  <2>4. /\ wish' \in [Topics -> AnyPayload \union {Absent}]
        /\ \A t \in Topics : wish'[t] \in Payloads[t] \union {Absent}
    BY <1>1, <2>1, <2>2
  <2>5. spoiled' \subseteq Topics
    BY <1>1, <2>1, <2>2
  <2> QED
    BY <1>1, <2>1, <2>2, <2>3, <2>4, <2>5 DEF RetainedTypeOK
<1>7. CASE SensorEvent
  <2>1. /\ Seeded(world, TRUE) \in [Topics -> AnyPayload]
        /\ \A t \in Topics : Seeded(world, TRUE)[t] \in Payloads[t]
        /\ Message("next", "Seeded", "Core") \in Messages
    BY <1>1, SeededType
  <2>2. wire' = Append(wire, Message("next", "Seeded", "Core"))
    BY <1>1, <1>7, <2>1 DEF SensorEvent, SeedOf
  <2>3. wire' \in Seq(Messages)
    BY <1>1, <2>1, <2>2
  <2> QED
    BY <1>1, <1>7, <2>1, <2>3 DEF SensorEvent, RetainedTypeOK, counters
<1>8. ASSUME NEW t \in Topics, NEW v \in Payloads[t], UserSets(t, v)
      PROVE  RetainedTypeOK'
  BY <1>1, <1>8, MessageType DEF UserSets, RetainedTypeOK
<1>9. CASE Announce
  <2>1. /\ Message("knob", world.knob, "Initial") \in Messages
        /\ Message("allow", world.allow, "Initial") \in Messages
    BY <1>1, MessageType DEF Topics
  <2> QED
    BY <1>1, <1>9, <2>1 DEF Announce, AnnounceDue, Live, RetainedTypeOK, counters
<1>10. CASE PublishNext
  <2>1. Head(publishing) \in Messages /\ Tail(publishing) \in Seq(Messages)
    BY <1>1, <1>10, TailFacts DEF PublishNext
  <2> QED
    BY <1>1, <1>10, <2>1 DEF PublishNext, RetainedTypeOK, counters
<1>11. CASE BrokerTakes
  <2>1. Head(wire) \in Messages /\ Tail(wire) \in Seq(Messages)
    BY <1>1, <1>11, TailFacts DEF BrokerTakes
  <2>2. /\ retained' \in [Topics -> AnyPayload \union {Absent}]
        /\ \A t \in Topics : retained'[t] \in Payloads[t] \union {Absent}
    BY <1>1, <1>11, <2>1 DEF BrokerTakes, Messages
  <2>3. /\ inbound' \in Seq(Messages)
        /\ phase # "Window" => inbound' = <<>>
    BY <1>1, <1>11, <2>1 DEF BrokerTakes, HearsOwn
  <2> QED
    BY <1>1, <1>11, <2>1, <2>2, <2>3 DEF BrokerTakes, RetainedTypeOK, counters
<1>12. CASE Restart
  <2>1. <<Reset>> \in Seq(Messages) /\ <<>> \in Seq(Messages)
    BY ResetType
  <2>2. /\ wish' \in [Topics -> AnyPayload \union {Absent}]
        /\ \A t \in Topics : wish'[t] \in Payloads[t] \union {Absent}
    BY <1>1, <1>12 DEF Restart, Topics
  <2> QED
    BY <1>1, <1>12, <2>1, <2>2, DefaultsType DEF Restart, RetainedTypeOK
<1>13. CASE UNCHANGED retainedVars
  BY <1>1, <1>13 DEF retainedVars, counters, RetainedTypeOK
<1> QED
  BY <1>2, <1>3, <1>4, <1>5, <1>6, <1>7, <1>8, <1>9, <1>10, <1>11, <1>12, <1>13
     DEF RetainedNext

-----------------------------------------------------------------------------
(* Retained: the invariant is kept.                                        *)

LEMMA RetainedInitial == RetainedInit => RetainedInv
<1> SUFFICES ASSUME RetainedInit PROVE RetainedInv
  OBVIOUS
<1>1. /\ world = Defaults /\ phase = "Connecting" /\ queue = <<Reset>>
      /\ wish = [retained EXCEPT !["allow"] = Absent]
      /\ inbound = <<>> /\ heard = {} /\ publishing = <<>> /\ wire = <<>>
      /\ spoiled = {}
  BY DEF RetainedInit
<1>2. /\ retained \in [Topics -> AnyPayload \union {Absent}]
      /\ \A t \in Topics : retained[t] \in Payloads[t] \union {Absent}
      /\ retained["knob"] # "Wild"
  <2>1. CASE retained = [t \in Topics |-> Absent]
    BY <2>1 DEF Topics, Absent
  <2>2. ASSUME NEW a \in {"off", "on"},
               retained = [knob |-> "User", allow |-> a, writes |-> "on",
                           next |-> "Chosen"]
        PROVE  /\ retained \in [Topics -> AnyPayload \union {Absent}]
               /\ \A t \in Topics : retained[t] \in Payloads[t] \union {Absent}
               /\ retained["knob"] # "Wild"
    <3>1. /\ retained["knob"] = "User" /\ retained["allow"] = a
          /\ retained["writes"] = "on" /\ retained["next"] = "Chosen"
      BY <2>2
    <3>2. \A t \in Topics : retained[t] \in Payloads[t]
      BY <3>1, PayloadTypes DEF Topics
    <3>3. retained = [t \in Topics |-> retained[t]]
      BY <2>2 DEF Topics
    <3> QED
      BY <3>1, <3>2, <3>3, PayloadTypes
  <2> QED
    BY <2>1, <2>2 DEF RetainedInit
<1>3. \A t \in Topics : wish[t] = IF t = "allow" THEN Absent ELSE retained[t]
  BY <1>1, <1>2
<1>4. wish \in [Topics -> AnyPayload \union {Absent}]
  BY <1>1, <1>2
<1>5. <<Reset>> \in Seq(Messages) /\ <<>> \in Seq(Messages)
  BY ResetType
<1>6. RetainedTypeOK
  BY <1>1, <1>2, <1>3, <1>4, <1>5, DefaultsType DEF RetainedTypeOK
<1>7. ~ Live
  BY <1>1 DEF Live
<1>8. ASSUME NEW t \in Kept
      PROVE  Coming(t) /\ Unqueued(t) /\ Arrived(t) /\ Durable(t) /\ Sane(t)
  <2>1. t \in Topics /\ wish[t] = retained[t]
    BY <1>3 DEF Kept
  <2>2. Persisted(wire, retained, t, wish[t])
    BY <1>1, <2>1 DEF Persisted, Without
  <2>3. t = "knob" \/ retained[t] # "Wild"
    BY <1>2, PayloadTypes DEF Kept, Topics, Absent
  <2>4. Unqueued(t)
    BY <1>1, ResetType DEF Unqueued, Brought, Brings, Kept
  <2> QED
    BY <1>1, <1>2, <1>7, <2>1, <2>2, <2>3, <2>4
       DEF Coming, Arrived, Durable, Sane, Wished, Fetched
<1>9. Len(queue) = 1 /\ queue[1] = Reset
  BY <1>1
<1>10. ~ Brought(queue, "writes") /\ KnobBefore(queue)
  BY <1>9, ResetType DEF Brought, KnobBefore, Brings
<1>11. \A i \in 1 .. Len(queue) : queue[i].by \in {"System", "User"}
  BY <1>9, ResetType
<1> QED
  BY <1>1, <1>6, <1>7, <1>8, <1>10, <1>11
     DEF RetainedInv, KnobFirst, Announcing, CarShut

LEMMA LeadsAnswer ==
  ASSUME RetainedTypeOK, NEW u \in Topics, NEW s \in Seq(Messages)
  PROVE  /\ Answer(u) \o s \in Seq(Messages)
         /\ retained[u] # Absent => Leads(Answer(u) \o s, u, retained[u])
         /\ \A t, v : u \notin Rivals(t) /\ Leads(s, t, v) => Leads(Answer(u) \o s, t, v)
<1>1. CASE retained[u] = Absent
  BY <1>1 DEF Answer
<1>2. CASE retained[u] # Absent
  <2> DEFINE m == Message(u, retained[u], "System")
             a == <<m>> \o s
  <2>1. /\ m \in Messages /\ m.topic = u /\ m.value = retained[u]
    BY <1>2, MessageType DEF RetainedTypeOK
  <2>2. Answer(u) = <<m>>
    BY <1>2 DEF Answer
  <2> HIDE DEF m
  <2>3. /\ Len(s) \in Nat /\ a \in Seq(Messages) /\ Len(a) = Len(s) + 1 /\ a[1] = m
        /\ \A i \in 1 .. Len(s) : a[i + 1] = s[i]
    <3>1. <<m>> \in Seq(Messages) /\ Len(<<m>>) = 1 /\ <<m>>[1] = m
      BY <2>1
    <3>2. Len(s) \in Nat
      OBVIOUS
    <3>3. /\ a \in Seq(Messages) /\ Len(a) = 1 + Len(s)
          /\ \A i \in 1 .. 1 + Len(s) : a[i] = IF i <= 1 THEN <<m>>[i] ELSE s[i - 1]
      BY <3>1, ConcatProperties
    <3> QED
      BY <3>1, <3>2, <3>3
  <2> HIDE DEF a
  <2>4. Leads(a, u, retained[u])
    BY <2>1, <2>3 DEF Leads
  <2>5. ASSUME NEW t, NEW v, u \notin Rivals(t), Leads(s, t, v)
        PROVE  Leads(a, t, v)
    <3>1. PICK i \in 1 .. Len(s) :
            /\ s[i].topic = t /\ s[i].value = v
            /\ \A j \in 1 .. i - 1 : s[j].topic \notin Rivals(t)
      BY <2>5 DEF Leads
    <3>2. i + 1 \in 1 .. Len(a) /\ a[i + 1].topic = t /\ a[i + 1].value = v
      BY <2>3, <3>1
    <3>3. ASSUME NEW j \in 1 .. (i + 1) - 1
          PROVE  a[j].topic \notin Rivals(t)
      <4>1. CASE j = 1
        BY <2>1, <2>3, <2>5, <4>1
      <4>2. CASE j # 1
        <5>1. j - 1 \in 1 .. i - 1 /\ j - 1 \in 1 .. Len(s) /\ a[(j - 1) + 1] = s[j - 1]
          BY <2>3, <4>2
        <5>2. (j - 1) + 1 = j
          OBVIOUS
        <5> QED
          BY <3>1, <5>1, <5>2
      <4> QED
        BY <4>1, <4>2
    <3> QED
      BY <3>2, <3>3 DEF Leads
  <2> QED
    BY <2>2, <2>3, <2>4, <2>5 DEF a
<1> QED
  BY <1>1, <1>2

LEMMA SubscribeKeeps ==
  RetainedInv /\ RetainedTypeOK' /\ Subscribe => RetainedInv'
<1> SUFFICES ASSUME RetainedInv, RetainedTypeOK', Subscribe PROVE RetainedInv'
  OBVIOUS
<1>1. /\ phase = "Connecting" /\ phase' = "Window" /\ inbound' = Subscribed
      /\ UNCHANGED <<world, retained, heard, queue, publishing, wire, wish, spoiled>>
      /\ RetainedTypeOK /\ heard = {} /\ heard' = {}
  BY DEF Subscribe, RetainedInv
<1>2. ~ Live /\ ~ Live'
  BY <1>1 DEF Live
<1>3. \A t \in Kept : retained[t] # Absent => Leads(Subscribed, t, retained[t])
  <2> DEFINE s1 == Answer("next")
             s2 == Answer("writes") \o s1
             s3 == Answer("allow") \o s2
  <2>1. s1 \in Seq(Messages) /\ s1 = Answer("next") \o <<>>
    BY <1>1, AnswerType DEF Topics
  <2>2. retained["next"] # Absent => Leads(s1, "next", retained["next"])
    <3>1. <<>> \in Seq(Messages) /\ "next" \in Topics
      BY DEF Topics
    <3>2. retained["next"] # Absent
            => Leads(Answer("next") \o <<>>, "next", retained["next"])
      BY <1>1, <3>1, LeadsAnswer
    <3> QED
      BY <2>1, <3>2
  <2>3. /\ s2 \in Seq(Messages)
        /\ retained["writes"] # Absent => Leads(s2, "writes", retained["writes"])
        /\ retained["next"] # Absent => Leads(s2, "next", retained["next"])
    <3>1. "writes" \in Topics /\ "writes" \notin Rivals("next")
      BY DEF Topics, Rivals
    <3> QED
      BY <1>1, <2>1, <2>2, <3>1, LeadsAnswer
  <2> HIDE DEF s1, s2
  <2>4. /\ s3 \in Seq(Messages)
        /\ retained["writes"] # Absent => Leads(s3, "writes", retained["writes"])
        /\ retained["next"] # Absent => Leads(s3, "next", retained["next"])
    <3>1. "allow" \in Topics /\ "allow" \notin Rivals("next") /\ "allow" \notin Rivals("writes")
      BY DEF Topics, Rivals
    <3> QED
      BY <1>1, <2>3, <3>1, LeadsAnswer
  <2> HIDE DEF s3
  <2>5. Subscribed = Answer("knob") \o s3
    BY DEF Subscribed, s1, s2, s3
  <2>6. /\ retained["knob"] # Absent => Leads(Subscribed, "knob", retained["knob"])
        /\ retained["writes"] # Absent => Leads(Subscribed, "writes", retained["writes"])
        /\ retained["next"] # Absent => Leads(Subscribed, "next", retained["next"])
    <3>1. "knob" \in Topics /\ "knob" \notin Rivals("next") /\ "knob" \notin Rivals("writes")
      BY DEF Topics, Rivals
    <3> QED
      BY <1>1, <2>4, <2>5, <3>1, LeadsAnswer
  <2> QED
    BY <2>6 DEF Kept, Topics
<1>4. ASSUME NEW t \in Kept
      PROVE  Coming(t)' /\ Unqueued(t)' /\ Arrived(t)' /\ Durable(t)' /\ Sane(t)'
  <2>1. Coming(t) /\ Unqueued(t) /\ Durable(t) /\ Sane(t)
    BY DEF RetainedInv
  <2>2. Wished(t)' <=> Wished(t)
    BY <1>1 DEF Wished
  <2>3. ~ Fetched(t) /\ ~ Fetched(t)'
    BY <1>1, <1>2 DEF Fetched
  <2>4. Coming(t)'
    <3>1. Wished(t) => retained[t] = wish[t] /\ retained[t] # Absent
      BY <1>1, <2>1, <2>3 DEF Coming, Wished
    <3> QED
      BY <1>1, <1>3, <2>2, <3>1 DEF Coming
  <2> QED
    BY <1>1, <2>1, <2>2, <2>3, <2>4 DEF Unqueued, Arrived, Durable, Sane
<1>5. KnobFirst' /\ Announcing'
  BY <1>1, <1>2 DEF RetainedInv, KnobFirst, Announcing, Wished, Fetched
<1>6. CarShut'
  BY <1>1, <1>2 DEF RetainedInv, CarShut
<1> QED
  BY <1>1, <1>4, <1>5, <1>6 DEF RetainedInv

LEMMA DeliverKeeps ==
  RetainedInv /\ RetainedTypeOK' /\ Deliver => RetainedInv'
<1> SUFFICES ASSUME RetainedInv, RetainedTypeOK', Deliver PROVE RetainedInv'
  OBVIOUS
<1> DEFINE msg == Head(inbound)
           own == [msg EXCEPT !.by = "System"]
<1>1. /\ phase = "Window" /\ inbound # <<>> /\ inbound' = Tail(inbound)
      /\ heard' = heard \union {msg.topic}
      /\ queue' = IF msg.topic \notin heard /\ Decodes(msg)
                  THEN Append(queue, own) ELSE queue
      /\ UNCHANGED <<world, retained, phase, publishing, wire, wish, spoiled>>
  BY DEF Deliver
<1>2. /\ inbound \in Seq(Messages) /\ queue \in Seq(Messages)
      /\ ~ Live /\ ~ Live'
  BY <1>1 DEF RetainedInv, RetainedTypeOK, Live
<1>3. /\ msg \in Messages /\ own \in Messages
      /\ own.topic = msg.topic /\ own.value = msg.value /\ own.by = "System"
  BY <1>1, <1>2, TailFacts DEF Messages
<1> HIDE DEF msg, own
<1>4. \A t : Brings(own, t) <=> msg.topic = t
  BY <1>3 DEF Brings
<1>5. \A t : (Fetched(t) <=> t \in heard) /\ (Fetched(t)' <=> t \in heard \/ t = msg.topic)
  BY <1>1, <1>2 DEF Fetched
<1>6. \A t : /\ Brought(queue', t) => Brought(queue, t) \/ t = msg.topic
             /\ Brought(queue, t) => Brought(queue', t)
  BY <1>1, <1>2, <1>3, <1>4, BroughtAppend
<1>7. \A t \in Kept : Wished(t) /\ ~ Fetched(t) =>
        /\ msg.topic \in Rivals(t) => msg.topic = t /\ msg.value = wish[t]
        /\ msg.topic \notin Rivals(t) => Leads(inbound', t, wish[t])
  BY <1>1, <1>2, LeadsTail DEF RetainedInv, Coming, msg
<1>8. \A t : t \in Rivals(t)
  BY DEF Rivals
<1>9. ASSUME NEW t \in Kept
      PROVE  Coming(t)' /\ Unqueued(t)' /\ Arrived(t)' /\ Durable(t)' /\ Sane(t)'
  <2>1. Coming(t) /\ Unqueued(t) /\ Arrived(t) /\ Durable(t) /\ Sane(t)
    BY DEF RetainedInv
  <2>2. Wished(t)' <=> Wished(t)
    BY <1>1 DEF Wished
  <2>3. Coming(t)'
    <3> SUFFICES ASSUME Wished(t), ~ Fetched(t), t # msg.topic
                 PROVE  Leads(inbound', t, wish[t])
      BY <1>1, <1>5, <2>2 DEF Coming
    <3> QED
      BY <1>7
  <2>4. Unqueued(t)'
    BY <1>5, <1>6, <2>1 DEF Unqueued
  <2>5. Arrived(t)'
    <3> SUFFICES ASSUME Wished(t), Fetched(t)'
                 PROVE  /\ BroughtOnly(queue', t, wish[t])
                        /\ Brought(queue', t) \/ world[t] = wish[t]
      BY <1>1, <2>2 DEF Arrived
    <3>1. CASE Fetched(t)
      <4>1. /\ BroughtOnly(queue, t, wish[t])
            /\ Brought(queue, t) \/ world[t] = wish[t]
        BY <2>1, <3>1 DEF Arrived
      <4>2. msg.topic \notin heard => ~ Brings(own, t)
        BY <1>4, <1>5, <3>1
      <4>3. BroughtOnly(queue', t, wish[t])
        BY <1>1, <1>2, <1>3, <4>1, <4>2, BroughtAppend
      <4> QED
        BY <1>6, <4>1, <4>3
    <3>2. CASE ~ Fetched(t)
      <4>1. t = msg.topic /\ t \notin heard
        BY <1>5, <3>2
      <4>2. msg.value = wish[t] /\ Decodes(msg)
        BY <1>7, <1>8, <2>1, <3>2, <4>1 DEF Sane, Decodes
      <4>3. queue' = Append(queue, own) /\ Brings(own, t)
        BY <1>1, <1>4, <4>1, <4>2
      <4>4. BroughtOnly(queue, t, wish[t])
        BY <2>1, <3>2 DEF Unqueued, Brought, BroughtOnly
      <4> QED
        BY <1>2, <1>3, <4>2, <4>3, <4>4, BroughtAppend
    <3> QED
      BY <3>1, <3>2
  <2>6. Durable(t)'
    <3> SUFFICES ASSUME Wished(t), t = "next" => Fetched(t)' /\ ~ Brought(queue', t)
                 PROVE  Persisted(wire, retained, t, wish[t])
      BY <1>1, <2>2 DEF Durable
    <3>1. t = "next" => Fetched(t)
      <4> SUFFICES ASSUME t = "next", ~ Fetched(t) PROVE FALSE
        OBVIOUS
      <4>1. t = msg.topic /\ t \notin heard
        BY <1>5
      <4>2. Decodes(msg)
        BY <1>7, <1>8, <2>1, <4>1 DEF Sane, Decodes
      <4>3. Brought(queue', t)
        BY <1>1, <1>2, <1>3, <1>4, <4>1, <4>2, BroughtAppend
      <4> QED
        BY <4>3
    <3> QED
      BY <1>6, <2>1, <3>1 DEF Durable
  <2> QED
    BY <1>1, <2>1, <2>2, <2>3, <2>4, <2>5, <2>6 DEF Sane
<1>10. KnobFirst'
  <2> SUFFICES ASSUME Wished("knob")
               PROVE  /\ Brought(queue', "writes") => Fetched("knob")'
                      /\ KnobBefore(queue')
    BY <1>1 DEF KnobFirst, Wished
  <2>1. "knob" \in Kept /\ "writes" \in Rivals("knob")
    BY DEF Kept, Topics, Rivals
  <2>2. /\ Brought(queue, "writes") => Fetched("knob")
        /\ KnobBefore(queue)
    BY DEF RetainedInv, KnobFirst
  <2>3. msg.topic = "writes" => Fetched("knob")
    BY <1>7, <2>1
  <2>4. Brought(queue', "writes") => Fetched("knob")'
    BY <1>5, <1>6, <2>2, <2>3
  <2>5. msg.topic \notin heard => ~ (Brings(own, "knob") /\ Brought(queue, "writes"))
    BY <1>4, <1>5, <2>2
  <2>6. KnobBefore(queue')
    BY <1>1, <1>2, <1>3, <2>2, <2>5, BroughtAppend
  <2> QED
    BY <2>4, <2>6
<1>11. Announcing'
  BY <1>1 DEF RetainedInv, Announcing
<1>12. CarShut'
  <2>1. \A i \in 1 .. Len(queue') : queue'[i].by \in {"System", "User"}
    BY <1>1, <1>2, <1>3, AppendFacts DEF RetainedInv, CarShut
  <2> QED
    BY <1>2, <2>1 DEF CarShut
<1> QED
  BY <1>1, <1>9, <1>10, <1>11, <1>12 DEF RetainedInv

\* However the bootstrap ends.
LEMMA LeaveKeeps ==
  ASSUME RetainedInv, RetainedTypeOK', ~ Live, Leave,
         UNCHANGED <<world, retained, publishing, wire, wish>>,
         spoiled \subseteq spoiled',
         \A t \in Kept : Wished(t) /\ t \notin spoiled' => Fetched(t)
  PROVE  RetainedInv'
<1>1. /\ phase' = "Live" /\ queue' = Append(queue, Reset) /\ Live'
      /\ queue \in Seq(Messages)
  BY DEF Leave, Live, RetainedInv, RetainedTypeOK
<1>2. \A t \in Kept : Brought(queue', t) <=> Brought(queue, t)
  BY <1>1, ResetType, BroughtAppend DEF Brings, Kept
<1>3. \A t : Wished(t)' => Wished(t) /\ t \notin spoiled'
  BY DEF Wished
<1>4. \A t : Fetched(t)'
  BY <1>1 DEF Fetched
<1>5. ASSUME NEW t \in Kept
      PROVE  Coming(t)' /\ Unqueued(t)' /\ Arrived(t)' /\ Durable(t)' /\ Sane(t)'
  <2>1. Arrived(t) /\ Durable(t) /\ Sane(t)
    BY DEF RetainedInv
  <2>2. ~ Brings(Reset, t)
    BY ResetType DEF Brings, Kept
  <2>3. Wished(t)' => BroughtOnly(queue', t, wish[t])
    BY <1>1, <1>3, <2>1, <2>2, ResetType, BroughtAppend DEF Arrived
  <2> QED
    BY <1>2, <1>3, <1>4, <2>1, <2>3 DEF Coming, Unqueued, Arrived, Durable, Sane
<1>6. KnobFirst'
  <2>1. Wished("knob") => KnobBefore(queue)
    BY DEF RetainedInv, KnobFirst
  <2>2. ~ Brings(Reset, "knob")
    BY ResetType DEF Brings
  <2>3. Wished("knob") => KnobBefore(queue')
    BY <1>1, <2>1, <2>2, ResetType, BroughtAppend
  <2> QED
    BY <1>3, <1>4, <2>3 DEF KnobFirst
<1>7. Announcing'
  BY <1>1 DEF RetainedInv, Announcing, Live
<1>8. CarShut'
  <2>1. \A i \in 1 .. Len(queue') : queue'[i].by \in {"System", "User"}
    BY <1>1, ResetType, AppendFacts DEF RetainedInv, CarShut
  <2>2. Shut(queue') /\ Brought(queue', "allow")
    BY <1>1, ResetType, BroughtAppend DEF Brings
  <2> QED
    BY <2>1, <2>2 DEF CarShut
<1> QED
  BY <1>1, <1>5, <1>6, <1>7, <1>8 DEF RetainedInv

LEMMA WindowEndsKeeps ==
  RetainedInv /\ RetainedTypeOK' /\ WindowEnds => RetainedInv'
<1> SUFFICES ASSUME RetainedInv, RetainedTypeOK', WindowEnds PROVE RetainedInv'
  OBVIOUS
<1>1. /\ phase = "Window" /\ inbound = <<>> /\ Leave
      /\ UNCHANGED <<world, retained, publishing, wire, wish, spoiled>>
  BY DEF WindowEnds
<1>2. \A t \in Kept : Wished(t) => Fetched(t)
  BY <1>1, NothingLeads DEF RetainedInv, Coming
<1> QED
  BY <1>1, <1>2, LeaveKeeps DEF Live

LEMMA WindowCutKeeps ==
  RetainedInv /\ RetainedTypeOK' /\ WindowCut => RetainedInv'
<1> SUFFICES ASSUME RetainedInv, RetainedTypeOK', WindowCut PROVE RetainedInv'
  OBVIOUS
<1>1. /\ ~ Live /\ Leave /\ spoiled' = spoiled \union (Topics \ heard)
      /\ UNCHANGED <<world, retained, publishing, wire, wish>>
  BY DEF WindowCut
<1>2. \A t \in Kept : t \notin spoiled' => Fetched(t)
  BY <1>1 DEF Fetched, Kept
<1>3. spoiled \subseteq spoiled'
  BY <1>1
<1> QED
  BY <1>1, <1>2, <1>3, LeaveKeeps

LEMMA RestartKeeps ==
  RetainedInv /\ RetainedTypeOK' /\ Restart => RetainedInv'
<1> SUFFICES ASSUME RetainedInv, RetainedTypeOK', Restart PROVE RetainedInv'
  OBVIOUS
<1>1. /\ phase' = "Connecting" /\ queue' = <<Reset>>
      /\ inbound' = <<>> /\ heard' = {} /\ publishing' = <<>> /\ wire' = <<>>
      /\ spoiled' = spoiled \union {t \in Topics : LostByRestart(t)}
      /\ wish' = [wish EXCEPT !["allow"] = Absent]
      /\ retained' = retained
  BY DEF Restart
<1>2. /\ wire \in Seq(Messages) /\ queue \in Seq(Messages)
      /\ wish \in [Topics -> AnyPayload \union {Absent}]
      /\ DOMAIN wire = 1 .. Len(wire)
  BY LenProperties DEF RetainedInv, RetainedTypeOK
<1>3. ~ Live'
  BY <1>1 DEF Live
<1>4. /\ Len(queue') = 1 /\ queue'[1] = Reset
      /\ ~ Brought(queue', "writes") /\ KnobBefore(queue')
      /\ \A t \in Kept : ~ Brought(queue', t)
      /\ \A i \in 1 .. Len(queue') : queue'[i].by \in {"System", "User"}
  <2>1. Len(queue') = 1 /\ queue'[1] = Reset
    BY <1>1
  <2> QED
    BY <2>1, ResetType DEF Brought, KnobBefore, Brings, Kept
<1>5. ASSUME NEW t \in Kept
      PROVE  Coming(t)' /\ Unqueued(t)' /\ Arrived(t)' /\ Durable(t)' /\ Sane(t)'
  <2>1. Durable(t) /\ Sane(t) /\ t \in Topics /\ wish'[t] = wish[t]
    BY <1>1, <1>2 DEF RetainedInv, Kept
  <2>2. Wished(t)' => Wished(t) /\ ~ LostByRestart(t)
    BY <1>1, <2>1 DEF Wished
  <2>3. ~ Fetched(t)'
    BY <1>1, <1>3 DEF Fetched
  <2>4. Wished(t)' => retained[t] = wish[t] /\ Persisted(<<>>, retained, t, wish[t])
    <3> SUFFICES ASSUME Wished(t), ~ LostByRestart(t)
                 PROVE  retained[t] = wish[t] /\ Persisted(<<>>, retained, t, wish[t])
      BY <2>2
    <3>1. \A i \in 1 .. Len(wire) : wire[i].topic = t => wire[i].value = retained[t]
      BY <1>2 DEF LostByRestart
    <3>2. t = "next" => Fetched(t) /\ ~ Brought(queue, t)
      BY <1>2, AwaitedIs DEF LostByRestart, Fetched
    <3>3. Persisted(wire, retained, t, wish[t])
      BY <2>1, <3>2 DEF Durable
    <3> QED
      BY <1>2, <3>1, <3>3, PersistedHome
  <2> QED
    BY <1>1, <1>4, <2>1, <2>2, <2>3, <2>4
       DEF Coming, Unqueued, Arrived, Durable, Sane
<1>6. KnobFirst' /\ Announcing' /\ CarShut'
  BY <1>1, <1>3, <1>4 DEF KnobFirst, Announcing, CarShut
<1> QED
  BY <1>1, <1>5, <1>6 DEF RetainedInv

LEMMA AnnounceKeeps ==
  RetainedInv /\ RetainedTypeOK' /\ Announce => RetainedInv'
<1> SUFFICES ASSUME RetainedInv, RetainedTypeOK', Announce PROVE RetainedInv'
  OBVIOUS
<1>1. /\ phase = "Live" /\ phase' = "Announced" /\ \A t \in Topics : ~ Awaited(t)
      /\ publishing' = <<Message("knob", world.knob, "Initial"),
                         Message("allow", world.allow, "Initial")>>
      /\ UNCHANGED <<world, retained, inbound, heard, queue, wire, wish, spoiled>>
  BY DEF Announce, AnnounceDue
<1>2. Live /\ Live' /\ queue \in Seq(Messages)
  BY <1>1 DEF Live, RetainedInv, RetainedTypeOK
<1>3. \A t \in Topics : ~ Brought(queue, t)
  BY <1>1, <1>2, AwaitedIs
<1>4. /\ Len(publishing') = 2
      /\ publishing'[1].topic = "knob" /\ publishing'[1].value = world.knob
      /\ publishing'[2].topic = "allow"
  BY <1>1 DEF Message
<1>5. \A i \in 1 .. Len(publishing') : i = 1 \/ i = 2
  BY <1>4
<1>6. /\ Without(publishing', "writes") /\ Without(publishing', "next")
      /\ ~ Without(publishing', "knob")
      /\ \A i \in 1 .. Len(publishing') :
           publishing'[i].topic = "knob" => publishing'[i].value = world.knob
  BY <1>4, <1>5 DEF Without
<1>7. Announcing'
  BY <1>1, <1>3, <1>6 DEF Announcing
<1>8. \A t : (Wished(t)' <=> Wished(t)) /\ Fetched(t) /\ Fetched(t)'
  BY <1>1, <1>2 DEF Wished, Fetched
<1>9. \A t \in Kept : Coming(t)' /\ Unqueued(t)' /\ Arrived(t)' /\ Durable(t)' /\ Sane(t)'
  BY <1>1, <1>8 DEF RetainedInv, Coming, Unqueued, Arrived, Durable, Sane
<1>10. KnobFirst' /\ CarShut'
  BY <1>1, <1>2, <1>8 DEF RetainedInv, KnobFirst, CarShut
<1> QED
  BY <1>1, <1>7, <1>9, <1>10 DEF RetainedInv

LEMMA WithoutTail ==
  ASSUME NEW s \in Seq(Messages), s # <<>>, NEW t
  PROVE  Without(s, t) <=> Head(s).topic # t /\ Without(Tail(s), t)
<1>1. /\ Len(s) \in Nat /\ Len(s) >= 1 /\ Head(s) = s[1]
      /\ Len(Tail(s)) = Len(s) - 1
      /\ \A k \in 1 .. Len(Tail(s)) : Tail(s)[k] = s[k + 1]
  BY TailFacts
<1>2. /\ \A i \in 1 .. Len(s) :
           i = 1 \/ (i - 1 \in 1 .. Len(Tail(s)) /\ Tail(s)[i - 1] = s[i])
      /\ \A i \in 1 .. Len(Tail(s)) : i + 1 \in 1 .. Len(s) /\ Tail(s)[i] = s[i + 1]
      /\ 1 \in 1 .. Len(s)
  BY <1>1
<1> QED
  BY <1>1, <1>2 DEF Without

LEMMA PublishNextKeeps ==
  RetainedInv /\ RetainedTypeOK' /\ PublishNext => RetainedInv'
<1> SUFFICES ASSUME RetainedInv, RetainedTypeOK', PublishNext PROVE RetainedInv'
  OBVIOUS
<1> DEFINE m == Head(publishing)
<1>1. /\ publishing # <<>> /\ wire' = Append(wire, m) /\ publishing' = Tail(publishing)
      /\ UNCHANGED <<world, retained, phase, inbound, heard, queue, wish, spoiled>>
  BY DEF PublishNext
<1>2. /\ publishing \in Seq(Messages) /\ wire \in Seq(Messages)
  BY DEF RetainedInv, RetainedTypeOK
<1>3. /\ m \in Messages /\ m = publishing[1] /\ Len(publishing) \in Nat
      /\ Len(publishing) >= 1 /\ Len(Tail(publishing)) = Len(publishing) - 1
      /\ \A i \in 1 .. Len(Tail(publishing)) : Tail(publishing)[i] = publishing[i + 1]
  BY <1>1, <1>2, TailFacts
<1>4. /\ \A i \in 1 .. Len(publishing') :
           i + 1 \in 1 .. Len(publishing) /\ publishing'[i] = publishing[i + 1]
      /\ 1 \in 1 .. Len(publishing)
  BY <1>1, <1>3
<1>5. phase = "Announced" /\ Live /\ Live'
  BY <1>1 DEF RetainedInv, Announcing, Live
<1>6. /\ \A t \in Topics : ~ Brought(queue, t)
      /\ Without(publishing, "writes") /\ Without(publishing, "next")
      /\ "knob" \notin spoiled =>
           /\ \A i \in 1 .. Len(publishing) :
                publishing[i].topic = "knob" => publishing[i].value = world.knob
           /\ \/ ~ Without(publishing, "knob")
              \/ Persisted(wire, retained, "knob", world.knob)
  BY <1>5 DEF RetainedInv, Announcing
<1>7. /\ m.topic # "writes" /\ m.topic # "next"
      /\ Without(publishing', "writes") /\ Without(publishing', "next")
      /\ Without(publishing, "knob") <=> m.topic # "knob" /\ Without(publishing', "knob")
      /\ "knob" \notin spoiled /\ m.topic = "knob" => m.value = world.knob
  BY <1>1, <1>2, <1>3, <1>4, <1>6, WithoutTail
<1> HIDE DEF m
<1>8. /\ Persisted(wire', retained, m.topic, m.value)
      /\ \A t, v : m.topic # t /\ Persisted(wire, retained, t, v)
                     => Persisted(wire', retained, t, v)
  BY <1>1, <1>2, <1>3, PersistedAppend
<1>9. Announcing'
  <2>1. "knob" \notin spoiled =>
          \A i \in 1 .. Len(publishing') :
             publishing'[i].topic = "knob" => publishing'[i].value = world.knob
    BY <1>4, <1>6
  <2>2. "knob" \notin spoiled => \/ ~ Without(publishing', "knob")
                                 \/ Persisted(wire', retained, "knob", world.knob)
    BY <1>6, <1>7, <1>8
  <2> QED
    BY <1>1, <1>5, <1>6, <1>7, <2>1, <2>2 DEF Announcing
<1>10. ASSUME NEW t \in Kept
       PROVE  Coming(t)' /\ Unqueued(t)' /\ Arrived(t)' /\ Durable(t)' /\ Sane(t)'
  <2>1. Coming(t) /\ Unqueued(t) /\ Arrived(t) /\ Durable(t) /\ Sane(t)
    BY DEF RetainedInv
  <2>2. (Wished(t)' <=> Wished(t)) /\ Fetched(t) /\ Fetched(t)' /\ ~ Brought(queue, t)
    BY <1>1, <1>5, <1>6 DEF Wished, Fetched, Kept
  <2>3. Wished(t) => Persisted(wire', retained, t, wish[t])
    <3> SUFFICES ASSUME Wished(t) PROVE Persisted(wire', retained, t, wish[t])
      OBVIOUS
    <3>1. Persisted(wire, retained, t, wish[t]) /\ world[t] = wish[t] /\ t \notin spoiled
      BY <2>1, <2>2 DEF Durable, Arrived, Wished
    <3>2. CASE m.topic = t
      <4>1. t = "knob"
        BY <1>7, <3>2 DEF Kept, Topics
      <4> QED
        BY <1>7, <1>8, <3>1, <3>2, <4>1
    <3>3. CASE m.topic # t
      BY <1>8, <3>1, <3>3
    <3> QED
      BY <3>2, <3>3
  <2> QED
    BY <1>1, <2>1, <2>2, <2>3 DEF Coming, Unqueued, Arrived, Durable, Sane
<1>11. KnobFirst' /\ CarShut'
  BY <1>1, <1>5 DEF RetainedInv, KnobFirst, CarShut, Wished, Fetched
<1> QED
  BY <1>1, <1>5, <1>9, <1>10, <1>11 DEF RetainedInv

LEMMA BrokerTakesKeeps ==
  RetainedInv /\ RetainedTypeOK' /\ BrokerTakes => RetainedInv'
<1> SUFFICES ASSUME RetainedInv, RetainedTypeOK', BrokerTakes PROVE RetainedInv'
  OBVIOUS
<1> DEFINE m == Head(wire)
<1>1. /\ wire # <<>> /\ phase # "Connecting" /\ wire' = Tail(wire)
      /\ retained' = [retained EXCEPT ![m.topic] = m.value]
      /\ inbound' = IF phase = "Window" THEN Append(inbound, m) ELSE inbound
      /\ UNCHANGED <<world, phase, heard, queue, publishing, wish, spoiled>>
  BY DEF BrokerTakes, HearsOwn
<1>2. /\ wire \in Seq(Messages) /\ inbound \in Seq(Messages) /\ m \in Messages
      /\ retained \in [Topics -> AnyPayload \union {Absent}]
  BY <1>1, TailFacts DEF RetainedInv, RetainedTypeOK
<1>3. \A t \in Topics : \A v : Persisted(wire, retained, t, v)
                                 => Persisted(wire', retained', t, v)
  BY <1>1, <1>2, PersistedTail
<1> HIDE DEF m
<1>4. \A t, v : Leads(inbound, t, v) => Leads(inbound', t, v)
  BY <1>1, <1>2, LeadsAppend
<1>5. Live' <=> Live
  BY <1>1 DEF Live
<1>6. \A t \in Kept : Coming(t)' /\ Unqueued(t)' /\ Arrived(t)' /\ Durable(t)' /\ Sane(t)'
  <2> TAKE t \in Kept
  <2>1. Coming(t) /\ Unqueued(t) /\ Arrived(t) /\ Durable(t) /\ Sane(t) /\ t \in Topics
    BY DEF RetainedInv, Kept
  <2>2. (Wished(t)' <=> Wished(t)) /\ (Fetched(t)' <=> Fetched(t))
    BY <1>1, <1>5 DEF Wished, Fetched
  <2>3. Coming(t)'
    BY <1>1, <1>4, <2>1, <2>2 DEF Coming
  <2>4. Durable(t)'
    BY <1>1, <1>3, <2>1, <2>2 DEF Durable
  <2> QED
    BY <1>1, <2>1, <2>2, <2>3, <2>4 DEF Unqueued, Arrived, Sane
<1>7. Announcing'
  BY <1>1, <1>3 DEF RetainedInv, Announcing, Topics
<1>8. KnobFirst' /\ CarShut'
  BY <1>1, <1>5 DEF RetainedInv, KnobFirst, CarShut, Wished, Fetched
<1> QED
  BY <1>1, <1>6, <1>7, <1>8 DEF RetainedInv

LEMMA UserSetsKeeps ==
  ASSUME RetainedInv, RetainedTypeOK', NEW u \in Topics, NEW x \in Payloads[u],
         UserSets(u, x)
  PROVE  RetainedInv'
<1> DEFINE m == Message(u, x, "User")
<1>1. /\ queue' = Append(queue, m)
      /\ UNCHANGED <<world, retained, phase, inbound, heard, publishing, wire, wish,
                     spoiled>>
  BY DEF UserSets
<1>2. /\ queue \in Seq(Messages) /\ m \in Messages /\ m.by = "User"
  BY MessageType DEF RetainedInv, RetainedTypeOK
<1> HIDE DEF m
<1>3. \A t : ~ Brings(m, t)
  BY <1>2 DEF Brings
<1>4. /\ \A t : Brought(queue', t) <=> Brought(queue, t)
      /\ \A t, v : BroughtOnly(queue, t, v) => BroughtOnly(queue', t, v)
      /\ KnobBefore(queue) => KnobBefore(queue')
      /\ Shut(queue) => Shut(queue')
  BY <1>1, <1>2, <1>3, BroughtAppend
<1>5. Live' <=> Live
  BY <1>1 DEF Live
<1>6. \A t \in Kept : Coming(t)' /\ Unqueued(t)' /\ Arrived(t)' /\ Durable(t)' /\ Sane(t)'
  <2> TAKE t \in Kept
  <2>1. Coming(t) /\ Unqueued(t) /\ Arrived(t) /\ Durable(t) /\ Sane(t)
    BY DEF RetainedInv
  <2>2. (Wished(t)' <=> Wished(t)) /\ (Fetched(t)' <=> Fetched(t))
    BY <1>1, <1>5 DEF Wished, Fetched
  <2>3. Arrived(t)'
    BY <1>1, <1>4, <2>1, <2>2 DEF Arrived
  <2> QED
    BY <1>1, <1>4, <2>1, <2>2, <2>3 DEF Coming, Unqueued, Durable, Sane
<1>7. Announcing'
  BY <1>1, <1>4 DEF RetainedInv, Announcing
<1>8. KnobFirst'
  BY <1>1, <1>4, <1>5 DEF RetainedInv, KnobFirst, Wished, Fetched
<1>9. CarShut'
  <2>1. \A i \in 1 .. Len(queue') : queue'[i].by \in {"System", "User"}
    BY <1>1, <1>2, AppendFacts DEF RetainedInv, CarShut
  <2> QED
    BY <1>1, <1>4, <1>5, <2>1 DEF RetainedInv, CarShut
<1> QED
  BY <1>1, <1>6, <1>7, <1>8, <1>9 DEF RetainedInv

LEMMA SensorEventKeeps ==
  RetainedInv /\ RetainedTypeOK' /\ SensorEvent => RetainedInv'
<1> SUFFICES ASSUME RetainedInv, RetainedTypeOK', SensorEvent PROVE RetainedInv'
  OBVIOUS
<1> DEFINE m == Message("next", "Seeded", "Core")
<1>1. /\ world["next"] = "Cleared" /\ world' = Seeded(world, TRUE)
      /\ wire' = wire \o SeedOf(world, TRUE) /\ Seeds(world, TRUE)
      /\ UNCHANGED <<retained, phase, inbound, heard, queue, publishing, wish, spoiled>>
  BY DEF SensorEvent, Seeds
<1>2. /\ wire \in Seq(Messages) /\ world \in [Topics -> AnyPayload]
      /\ \A t \in Topics : world[t] \in Payloads[t]
  BY DEF RetainedInv, RetainedTypeOK
<1>3. /\ \A t \in Topics : t # "next" => world'[t] = world[t]
      /\ m \in Messages /\ m.topic = "next" /\ SeedOf(world, TRUE) = <<m>>
  BY <1>1, <1>2, SeededType
<1> HIDE DEF m
<1>4. wire' = Append(wire, m)
  <2>1. \A n \in Messages : wire \o <<n>> = Append(wire, n)
    BY <1>2
  <2> QED
    BY <1>1, <1>3, <2>1
<1>5. \A t, v : t # "next" /\ Persisted(wire, retained, t, v)
                  => Persisted(wire', retained, t, v)
  BY <1>2, <1>3, <1>4, PersistedAppend
<1>6. Live' <=> Live
  BY <1>1 DEF Live
<1>7. \A t \in Kept : Coming(t)' /\ Unqueued(t)' /\ Arrived(t)' /\ Durable(t)' /\ Sane(t)'
  <2> TAKE t \in Kept
  <2>1. Coming(t) /\ Unqueued(t) /\ Arrived(t) /\ Durable(t) /\ Sane(t) /\ t \in Topics
    BY DEF RetainedInv, Kept
  <2>2. (Wished(t)' <=> Wished(t)) /\ (Fetched(t)' <=> Fetched(t))
    BY <1>1, <1>6 DEF Wished, Fetched
  <2>3. t = "next" /\ Wished(t) /\ Fetched(t) => Brought(queue, t)
    BY <1>1, <2>1 DEF Arrived, Wished
  <2>4. Arrived(t)'
    BY <1>1, <1>3, <2>1, <2>2, <2>3 DEF Arrived
  <2>5. Durable(t)'
    BY <1>1, <1>5, <2>1, <2>2, <2>3 DEF Durable
  <2> QED
    BY <1>1, <2>1, <2>2, <2>4, <2>5 DEF Coming, Unqueued, Sane
<1>8. world'["knob"] = world["knob"] /\ world'["allow"] = world["allow"]
  BY <1>3 DEF Topics
<1>9. Announcing' /\ KnobFirst' /\ CarShut'
  BY <1>1, <1>5, <1>6, <1>8
     DEF RetainedInv, Announcing, KnobFirst, CarShut, Wished, Fetched
<1> QED
  BY <1>1, <1>7, <1>9 DEF RetainedInv

\* Who published last is what the broker will keep: the wire after a command.
LEMMA WireOfTake ==
  ASSUME RetainedTypeOK, NEW usable \in BOOLEAN, NEW sent \in BOOLEAN,
         Take(usable, sent)
  PROVE  LET msg == Head(queue)
         IN  /\ \A t \in Topics : \A v :
                  /\ Persisted(wire, retained, t, v)
                  /\ t # msg.topic \/ ~ Publishes(msg)
                  /\ t # "next" \/ [world EXCEPT ![msg.topic] = msg.value]["next"] # "Cleared"
                  => Persisted(wire', retained, t, v)
             /\ sent /\ Publishes(msg) /\ (msg.topic = "next" => msg.value # "Cleared")
                  => Persisted(wire', retained, msg.topic, msg.value)
<1> DEFINE msg == Head(queue)
           w == [world EXCEPT ![msg.topic] = msg.value]
           seed == Message("next", "Seeded", "Core")
           one == IF Publishes(msg) THEN Append(wire, msg) ELSE wire
<1>1. /\ msg \in Messages /\ one \in Seq(Messages)
      /\ w \in [Topics -> AnyPayload] /\ w[msg.topic] = msg.value
      /\ \A t \in Topics : w[t] \in Payloads[t]
      /\ wire' = IF ~ sent THEN wire
                 ELSE IF Seeds(w, usable) THEN Append(one, seed) ELSE one
  BY TakeType
<1>2. wire \in Seq(Messages)
  BY DEF RetainedTypeOK
<1>3. Seeds(w, usable) => w["next"] = "Cleared"
  BY DEF Seeds
<1> HIDE DEF w
<1>4. seed \in Messages /\ seed.topic = "next"
  BY <1>1, SeededType
<1> HIDE DEF msg, seed
<1>5. ASSUME NEW t, NEW v, Persisted(wire, retained, t, v),
             t # msg.topic \/ ~ Publishes(msg)
      PROVE  Persisted(one, retained, t, v)
  <2>1. CASE Publishes(msg)
    BY <1>1, <1>2, <1>5, <2>1, PersistedAppend
  <2>2. CASE ~ Publishes(msg)
    BY <1>5, <2>2
  <2> QED
    BY <2>1, <2>2
<1>6. Publishes(msg) => Persisted(one, retained, msg.topic, msg.value)
  BY <1>1, <1>2, PersistedAppend
<1> HIDE DEF one
<1>7. ASSUME NEW t, NEW v, Persisted(one, retained, t, v), sent,
             t # "next" \/ w["next"] # "Cleared"
      PROVE  Persisted(wire', retained, t, v)
  <2>1. CASE Seeds(w, usable)
    BY <1>1, <1>3, <1>4, <1>7, <2>1, PersistedAppend
  <2>2. CASE ~ Seeds(w, usable)
    BY <1>1, <1>7, <2>2
  <2> QED
    BY <2>1, <2>2
<1>8. ASSUME NEW t \in Topics, NEW v, Persisted(wire, retained, t, v),
             t # msg.topic \/ ~ Publishes(msg), t # "next" \/ w["next"] # "Cleared"
      PROVE  Persisted(wire', retained, t, v)
  BY <1>1, <1>5, <1>7, <1>8
<1>9. ASSUME sent, Publishes(msg), msg.topic = "next" => msg.value # "Cleared"
      PROVE  Persisted(wire', retained, msg.topic, msg.value)
  BY <1>1, <1>6, <1>7, <1>9
<1> QED
  BY <1>8, <1>9 DEF msg, w

\* A command of a user that mends its topic, or finds it sound.
LEMMA OutsideGaps ==
  ASSUME RetainedInv, NEW usable \in BOOLEAN, NEW sent \in BOOLEAN,
         Take(usable, sent), Head(queue).topic \notin spoiled'
  PROVE  LET msg == Head(queue)
         IN  /\ sent
             /\ ~ Publishes(msg) =>
                  /\ msg.topic \notin spoiled
                  /\ msg.topic \in {"knob", "allow"} /\ world[msg.topic] = msg.value
             /\ msg.by = "User" =>
                  /\ Live /\ ~ Brought(queue, msg.topic) /\ msg.value # "Wild"
                  /\ Without(publishing, msg.topic)
                  /\ ~ Publishes(msg) => phase = "Announced"
             /\ msg.by # "User" => msg.topic \notin spoiled
<1> DEFINE msg == Head(queue)
<1>1. spoiled' = IF ~ sent \/ (msg.by = "User" /\ InGap(msg))
                 THEN spoiled \union {msg.topic}
                 ELSE IF msg.by = "User" /\ Publishes(msg)
                 THEN spoiled \ {msg.topic} ELSE spoiled
  BY DEF Take
<1>2. /\ queue \in Seq(Messages) /\ publishing \in Seq(Messages)
      /\ DOMAIN publishing = 1 .. Len(publishing)
  BY LenProperties DEF RetainedInv, RetainedTypeOK
<1> HIDE DEF msg
<1>3. sent /\ ~ (msg.by = "User" /\ InGap(msg)) /\ msg.topic \notin spoiled'
  BY <1>1 DEF msg
<1>4. ~ Publishes(msg) => /\ msg.topic \notin spoiled
                          /\ msg.topic \in {"knob", "allow"} /\ world[msg.topic] = msg.value
  BY <1>1, <1>3 DEF Publishes
<1>5. ASSUME msg.by = "User"
      PROVE  /\ Live /\ ~ Brought(queue, msg.topic) /\ msg.value # "Wild"
             /\ Without(publishing, msg.topic)
             /\ ~ Publishes(msg) => phase = "Announced"
  <2>1. ~ InGap(msg)
    BY <1>3, <1>5
  <2>2. ~ Awaited(msg.topic)
    BY <2>1 DEF InGap
  <2>3. Live /\ ~ Brought(queue, msg.topic)
    BY <1>2, <2>2, AwaitedIs
  <2>4. Without(publishing, msg.topic)
    BY <1>2, <2>1 DEF InGap, Without
  <2> QED
    BY <2>1, <2>3, <2>4 DEF InGap, Decodes
<1>6. msg.by # "User" => msg.topic \notin spoiled
  BY <1>1, <1>3
<1> QED
  BY <1>3, <1>4, <1>5, <1>6 DEF msg

LEMMA TakeKeeps ==
  ASSUME RetainedInv, RetainedTypeOK', NEW usable \in BOOLEAN, NEW sent \in BOOLEAN,
         Take(usable, sent)
  PROVE  RetainedInv'
<1> DEFINE msg == Head(queue)
           w == [world EXCEPT ![msg.topic] = msg.value]
<1>1. /\ msg \in Messages /\ msg.topic \in Topics /\ msg.value \in AnyPayload
      /\ queue # <<>> /\ queue' = Tail(queue)
      /\ w \in [Topics -> AnyPayload] /\ w[msg.topic] = msg.value
      /\ \A t \in Topics : w[t] \in Payloads[t] /\ (t # msg.topic => w[t] = world[t])
      /\ world' = Seeded(w, usable)
  BY TakeType DEF RetainedInv
<1>2. /\ wish' = IF msg.by = "User"
                 THEN [wish EXCEPT ![msg.topic] = msg.value] ELSE wish
      /\ spoiled' = IF ~ sent \/ (msg.by = "User" /\ InGap(msg))
                    THEN spoiled \union {msg.topic}
                    ELSE IF msg.by = "User" /\ Publishes(msg)
                    THEN spoiled \ {msg.topic} ELSE spoiled
      /\ UNCHANGED <<retained, phase, inbound, heard, publishing>>
  BY DEF Take
<1>3. /\ queue \in Seq(Messages) /\ wish \in [Topics -> AnyPayload \union {Absent}]
      /\ RetainedTypeOK
  BY DEF RetainedInv, RetainedTypeOK
<1>4. /\ \A t : Brought(queue, t) <=> Brings(msg, t) \/ Brought(queue', t)
      /\ \A t, v : BroughtOnly(queue, t, v) =>
           BroughtOnly(queue', t, v) /\ (Brings(msg, t) => msg.value = v)
      /\ KnobBefore(queue) => KnobBefore(queue')
      /\ Shut(queue) =>
           /\ Shut(queue')
           /\ Brings(msg, "allow") /\ msg.value = "on" => Brought(queue', "allow")
  BY <1>1, <1>3, BroughtTail
<1>5. /\ \A t \in Topics : t # "next" => world'[t] = w[t]
      /\ w["next"] # "Cleared" => world' = w
  BY <1>1, SeededType
<1>6. /\ \A t \in Topics : \A v :
           /\ Persisted(wire, retained, t, v)
           /\ t # msg.topic \/ ~ Publishes(msg)
           /\ t # "next" \/ w["next"] # "Cleared"
           => Persisted(wire', retained, t, v)
      /\ sent /\ Publishes(msg) /\ (msg.topic = "next" => msg.value # "Cleared")
           => Persisted(wire', retained, msg.topic, msg.value)
  BY <1>3, WireOfTake
<1>7. msg.topic \notin spoiled' =>
        /\ sent
        /\ ~ Publishes(msg) =>
             /\ msg.topic \notin spoiled
             /\ msg.topic \in {"knob", "allow"} /\ world[msg.topic] = msg.value
        /\ msg.by = "User" =>
             /\ Live /\ ~ Brought(queue, msg.topic) /\ msg.value # "Wild"
             /\ Without(publishing, msg.topic)
             /\ ~ Publishes(msg) => phase = "Announced"
        /\ msg.by # "User" => msg.topic \notin spoiled
  BY OutsideGaps
<1>8. msg.by \in {"System", "User"}
  <2>1. Len(queue) \in Nat /\ Len(queue) >= 1 /\ msg = queue[1]
    BY <1>1, <1>3, TailFacts
  <2> QED
    BY <2>1 DEF RetainedInv, CarShut
<1> HIDE DEF msg, w
<1>9. /\ \A t \in Topics : t # msg.topic =>
           wish'[t] = wish[t] /\ (t \in spoiled' <=> t \in spoiled)
      /\ msg.by = "User" => wish'[msg.topic] = msg.value
      /\ msg.by # "User" => wish' = wish
  BY <1>1, <1>2, <1>3
<1>10. (Live' <=> Live) /\ \A t : Fetched(t)' <=> Fetched(t)
  BY <1>2 DEF Live, Fetched
<1>11. ASSUME NEW t \in Kept, t # msg.topic
       PROVE  Coming(t)' /\ Unqueued(t)' /\ Arrived(t)' /\ Durable(t)' /\ Sane(t)'
  <2>1. Coming(t) /\ Unqueued(t) /\ Arrived(t) /\ Durable(t) /\ Sane(t) /\ t \in Topics
    BY DEF RetainedInv, Kept
  <2>2. (Wished(t)' <=> Wished(t)) /\ wish'[t] = wish[t]
    BY <1>9, <1>11, <2>1 DEF Wished
  <2>3. Brought(queue', t) <=> Brought(queue, t)
    BY <1>4, <1>11 DEF Brings
  <2>4. w[t] = world[t]
    BY <1>1, <1>11, <2>1
  <2>5. Wished(t) /\ Fetched(t) /\ ~ Brought(queue, t) =>
          world[t] = wish[t] /\ (t = "next" => w["next"] # "Cleared") /\ world'[t] = world[t]
    BY <1>5, <2>1, <2>4 DEF Arrived, Wished
  <2>6. Arrived(t)'
    BY <1>4, <1>10, <2>1, <2>2, <2>3, <2>5 DEF Arrived
  <2>7. Durable(t)'
    BY <1>2, <1>6, <1>10, <1>11, <2>1, <2>2, <2>3, <2>5 DEF Durable
  <2> QED
    BY <1>2, <1>10, <2>1, <2>2, <2>3, <2>6, <2>7 DEF Coming, Unqueued, Sane
<1>12. ASSUME NEW t \in Kept, t = msg.topic
       PROVE  Coming(t)' /\ Unqueued(t)' /\ Arrived(t)' /\ Durable(t)' /\ Sane(t)'
  <2>1. Coming(t) /\ Unqueued(t) /\ Arrived(t) /\ Durable(t) /\ Sane(t) /\ t \in Topics
    BY DEF RetainedInv, Kept
  <2>2. Unqueued(t)'
    BY <1>4, <1>10, <2>1 DEF Unqueued
  <2>3. CASE t \in spoiled'
    BY <2>2, <2>3 DEF Coming, Arrived, Durable, Sane, Wished
  <2>4. ASSUME t \notin spoiled', msg.by = "System"
        PROVE  Coming(t)' /\ Arrived(t)' /\ Durable(t)' /\ Sane(t)'
    <3>1. wish' = wish /\ t \notin spoiled /\ sent /\ Brings(msg, t)
      BY <1>7, <1>9, <1>12, <2>4 DEF Brings
    <3>2. (Wished(t)' <=> Wished(t)) /\ Fetched(t)
      BY <1>4, <2>1, <2>4, <3>1 DEF Wished, Unqueued
    <3>3. ASSUME Wished(t)
          PROVE  /\ msg.value = wish[t] /\ world'[t] = wish[t]
                 /\ BroughtOnly(queue', t, wish[t])
                 /\ Persisted(wire', retained, t, wish[t])
      <4>1. msg.value = wish[t] /\ BroughtOnly(queue', t, wish[t])
        BY <1>4, <2>1, <3>1, <3>2, <3>3 DEF Arrived
      <4>2. w[t] = wish[t] /\ wish[t] # "Cleared"
        BY <1>1, <1>12, <3>3, <4>1 DEF Wished
      <4>3. world'[t] = wish[t]
        BY <1>5, <2>1, <4>2
      <4>4. CASE Publishes(msg)
        BY <1>6, <1>12, <3>1, <4>1, <4>2, <4>3, <4>4
      <4>5. CASE ~ Publishes(msg)
        <5>1. t # "next"
          BY <1>7, <1>12, <2>4, <4>5
        <5>2. Persisted(wire, retained, t, wish[t])
          BY <2>1, <3>3, <5>1 DEF Durable
        <5> QED
          BY <1>6, <2>1, <4>1, <4>3, <4>5, <5>1, <5>2
      <4> QED
        BY <4>4, <4>5
    <3> QED
      BY <1>2, <1>10, <2>1, <3>1, <3>2, <3>3 DEF Coming, Arrived, Durable, Sane
  <2>5. ASSUME t \notin spoiled', msg.by = "User"
        PROVE  Coming(t)' /\ Arrived(t)' /\ Durable(t)' /\ Sane(t)'
    <3>1. /\ sent /\ Live /\ ~ Brought(queue, t) /\ msg.value # "Wild"
          /\ Without(publishing, t) /\ wish'[t] = msg.value
          /\ ~ Publishes(msg) => /\ phase = "Announced" /\ t \notin spoiled
                                 /\ t \in {"knob", "allow"} /\ world[t] = msg.value
      BY <1>7, <1>9, <1>12, <2>5
    <3>2. Fetched(t)' /\ ~ Brought(queue', t) /\ \A v : BroughtOnly(queue', t, v)
      BY <1>4, <1>10, <3>1 DEF Fetched, Brought, BroughtOnly
    <3>3. ASSUME Wished(t)'
          PROVE  world'[t] = wish'[t] /\ Persisted(wire', retained, t, wish'[t])
      <4>1. w[t] = wish'[t] /\ wish'[t] # "Cleared"
        BY <1>1, <1>12, <3>1, <3>3 DEF Wished
      <4>2. world'[t] = wish'[t]
        BY <1>5, <2>1, <4>1
      <4>3. CASE Publishes(msg)
        BY <1>6, <1>12, <3>1, <4>1, <4>2, <4>3
      <4>4. CASE ~ Publishes(msg)
        <5>1. t = "knob"
          BY <3>1, <4>4 DEF Kept
        <5>2. Persisted(wire, retained, "knob", world.knob)
          BY <3>1, <4>4, <5>1 DEF RetainedInv, Announcing
        <5>3. Persisted(wire, retained, t, wish'[t])
          BY <3>1, <4>4, <5>1, <5>2
        <5> QED
          BY <1>6, <2>1, <4>2, <4>4, <5>1, <5>3
      <4> QED
        BY <4>3, <4>4
    <3> QED
      BY <1>2, <3>1, <3>2, <3>3 DEF Coming, Arrived, Durable, Sane
  <2> QED
    BY <1>8, <2>2, <2>3, <2>4, <2>5
<1>13. KnobFirst'
  <2> SUFFICES ASSUME Wished("knob")'
               PROVE  /\ Brought(queue', "writes") => Fetched("knob")'
                      /\ KnobBefore(queue')
    BY DEF KnobFirst
  <2>1. "knob" \in Topics /\ "knob" \notin spoiled'
    BY DEF Wished, Kept
  <2>2. CASE Wished("knob")
    BY <1>4, <1>10, <2>2 DEF RetainedInv, KnobFirst
  <2>3. CASE ~ Wished("knob")
    <3>1. msg.topic = "knob" /\ msg.by = "User"
      BY <1>7, <1>8, <1>9, <2>1, <2>3 DEF Wished
    <3>2. Live /\ ~ Brought(queue', "knob")
      BY <1>4, <1>7, <2>1, <3>1
    <3>3. KnobBefore(queue')
      <4>1. queue' \in Seq(Messages)
        BY <1>1, <1>3
      <4>2. Len(queue') \in Nat
        BY <4>1
      <4>3. \A i \in 1 .. Len(queue') : \A j \in i + 1 .. Len(queue') :
              j \in 1 .. Len(queue')
        BY <4>2
      <4> QED
        BY <3>2, <4>3 DEF KnobBefore, Brought
    <3> QED
      BY <1>10, <3>2, <3>3 DEF Fetched
  <2> QED
    BY <2>2, <2>3
<1>14. Announcing'
  <2>1. CASE phase # "Announced"
    BY <1>2, <2>1 DEF RetainedInv, Announcing
  <2>2. CASE phase = "Announced"
    <3>1. /\ \A t \in Topics : ~ Brought(queue, t)
          /\ Without(publishing, "writes") /\ Without(publishing, "next")
          /\ "knob" \notin spoiled =>
               /\ \A i \in 1 .. Len(publishing) :
                    publishing[i].topic = "knob" => publishing[i].value = world.knob
               /\ \/ ~ Without(publishing, "knob")
                  \/ Persisted(wire, retained, "knob", world.knob)
      BY <2>2 DEF RetainedInv, Announcing
    <3>2. \A t \in Topics : ~ Brought(queue', t)
      BY <1>4, <3>1
    <3>3. ASSUME "knob" \notin spoiled'
          PROVE  /\ \A i \in 1 .. Len(publishing) :
                      publishing[i].topic = "knob" => publishing[i].value = world'["knob"]
                 /\ \/ ~ Without(publishing, "knob")
                    \/ Persisted(wire', retained, "knob", world'["knob"])
      <4>1. "knob" \in Topics /\ world'["knob"] = w["knob"]
        BY <1>5 DEF Topics
      <4>2. CASE msg.topic # "knob"
        <5>1. "knob" \notin spoiled /\ w["knob"] = world["knob"]
          BY <1>1, <1>9, <3>3, <4>1, <4>2
        <5> QED
          BY <1>6, <3>1, <4>1, <4>2, <5>1
      <4>3. CASE msg.topic = "knob"
        <5>1. msg.by = "User"
          BY <1>4, <1>8, <3>1, <4>1, <4>3 DEF Brings
        <5>2. Without(publishing, "knob") /\ sent /\ w["knob"] = msg.value
          BY <1>1, <1>7, <3>3, <4>3, <5>1
        <5>3. CASE Publishes(msg)
          BY <1>6, <4>1, <4>3, <5>2, <5>3 DEF Without
        <5>4. CASE ~ Publishes(msg)
          <6>1. "knob" \notin spoiled /\ world["knob"] = msg.value
            BY <1>7, <3>3, <4>3, <5>4
          <6> QED
            BY <1>6, <3>1, <4>1, <5>2, <5>4, <6>1 DEF Without
        <5> QED
          BY <5>3, <5>4
      <4> QED
        BY <4>2, <4>3
    <3> QED
      BY <1>2, <2>2, <3>1, <3>2, <3>3 DEF Announcing
  <2> QED
    BY <2>1, <2>2
<1>15. CarShut'
  <2>1. \A i \in 1 .. Len(queue') : queue'[i].by \in {"System", "User"}
    <3>1. /\ Len(queue) \in Nat /\ Len(queue') = Len(queue) - 1
          /\ \A i \in 1 .. Len(queue') : queue'[i] = queue[i + 1]
      BY <1>1, <1>3, TailFacts
    <3>2. \A i \in 1 .. Len(queue') : i + 1 \in 1 .. Len(queue)
      BY <3>1
    <3> QED
      BY <3>1, <3>2 DEF RetainedInv, CarShut
  <2>2. "allow" \in Topics /\ world'["allow"] = w["allow"]
    BY <1>5 DEF Topics
  <2>3. ASSUME Live, world'["allow"] = "on"
        PROVE  Brought(queue', "allow") \/ wish'["allow"] = "on"
    <3>1. Shut(queue) /\ (world["allow"] = "on"
                            => Brought(queue, "allow") \/ wish["allow"] = "on")
      BY <2>3 DEF RetainedInv, CarShut
    <3>2. CASE msg.topic # "allow"
      <4>1. world["allow"] = "on" /\ wish'["allow"] = wish["allow"]
        BY <1>1, <1>9, <2>2, <2>3, <3>2
      <4> QED
        BY <1>4, <3>1, <3>2, <4>1 DEF Brings
    <3>3. CASE msg.topic = "allow"
      <4>1. msg.value = "on"
        BY <1>1, <2>2, <2>3, <3>3
      <4>2. CASE msg.by = "User"
        BY <1>9, <3>3, <4>1, <4>2
      <4>3. CASE msg.by = "System"
        BY <1>4, <3>1, <3>3, <4>1, <4>3 DEF Brings
      <4> QED
        BY <1>8, <4>2, <4>3
    <3> QED
      BY <3>2, <3>3
  <2> QED
    BY <1>4, <1>10, <2>1, <2>3 DEF RetainedInv, CarShut
<1> QED
  BY <1>2, <1>11, <1>12, <1>13, <1>14, <1>15 DEF RetainedInv

LEMMA StutterKeeps ==
  RetainedInv /\ UNCHANGED retainedVars => RetainedInv'
<1> SUFFICES ASSUME RetainedInv, UNCHANGED retainedVars PROVE RetainedInv'
  OBVIOUS
<1>1. /\ RetainedTypeOK'
      /\ UNCHANGED <<world, retained, phase, inbound, heard, queue, publishing, wire,
                     wish, spoiled>>
  BY RetainedTypeKept DEF RetainedInv, retainedVars
<1>2. (Live' <=> Live) /\ \A t : (Fetched(t)' <=> Fetched(t)) /\ (Wished(t)' <=> Wished(t))
  BY <1>1 DEF Live, Fetched, Wished
<1>3. \A t \in Kept : Coming(t)' /\ Unqueued(t)' /\ Arrived(t)' /\ Durable(t)' /\ Sane(t)'
  BY <1>1, <1>2 DEF RetainedInv, Coming, Unqueued, Arrived, Durable, Sane
<1>4. KnobFirst' /\ Announcing' /\ CarShut'
  BY <1>1, <1>2 DEF RetainedInv, KnobFirst, Announcing, CarShut
<1> QED
  BY <1>1, <1>3, <1>4 DEF RetainedInv

THEOREM RetainedInvariance == RetainedSpec => []RetainedInv
<1>1. RetainedInv /\ [RetainedNext]_retainedVars => RetainedInv'
  <2> SUFFICES ASSUME RetainedInv, [RetainedNext]_retainedVars PROVE RetainedInv'
    OBVIOUS
  <2>1. RetainedTypeOK'
    BY RetainedTypeKept DEF RetainedInv
  <2>2. CASE Subscribe \/ Deliver \/ WindowEnds \/ WindowCut
    BY <2>1, <2>2, SubscribeKeeps, DeliverKeeps, WindowEndsKeeps, WindowCutKeeps
  <2>3. CASE \E usable, sent \in BOOLEAN : Take(usable, sent)
    BY <2>1, <2>3, TakeKeeps
  <2>4. CASE SensorEvent
    BY <2>1, <2>4, SensorEventKeeps
  <2>5. CASE \E t \in Topics : \E v \in Payloads[t] : UserSets(t, v)
    BY <2>1, <2>5, UserSetsKeeps
  <2>6. CASE Announce \/ PublishNext \/ BrokerTakes \/ Restart
    BY <2>1, <2>6, AnnounceKeeps, PublishNextKeeps, BrokerTakesKeeps, RestartKeeps
  <2>7. CASE UNCHANGED retainedVars
    BY <2>7, StutterKeeps
  <2> QED
    BY <2>2, <2>3, <2>4, <2>5, <2>6, <2>7 DEF RetainedNext
<1> QED
  BY <1>1, RetainedInitial, PTL DEF RetainedSpec

\* Topics, values and the queues between user, core and broker are well typed
\* (mqtt/serialize.rs 59-126).
THEOREM RetainedTypeCorrect == RetainedSpec => []RetainedTypeOK
<1>1. RetainedInv => RetainedTypeOK
  BY DEF RetainedInv
<1> QED
  BY <1>1, RetainedInvariance, PTL

\* Outside the gaps, what users set is in force in every booted program, after
\* any number of restarts (Subscriber::run, apply_command).
THEOREM WishesAreInForce == RetainedSpec => []WishInForce
<1>1. RetainedInv => WishInForce
  <2> SUFFICES ASSUME RetainedInv, NEW t \in Kept,
                      wish[t] \notin {Absent, "Cleared"}, t \notin spoiled, ~ Awaited(t)
               PROVE  world[t] = wish[t]
    BY DEF WishInForce
  <2>1. Live /\ ~ Brought(queue, t)
    BY AwaitedIs DEF RetainedInv, RetainedTypeOK
  <2> QED
    BY <2>1 DEF RetainedInv, Arrived, Wished, Fetched
<1> QED
  BY <1>1, RetainedInvariance, PTL

\* The battery is open to the car only for a user who asked since the boot: a
\* retained permission is always followed by the reset (mqtt/mod.rs 657-668).
THEOREM BatteryIsKept == RetainedSpec => []BatteryKeptFromCar
<1>1. RetainedInv => BatteryKeptFromCar
  <2> SUFFICES ASSUME RetainedInv, world["allow"] = "on", ~ Awaited("allow")
               PROVE  wish["allow"] = "on"
    BY DEF BatteryKeptFromCar
  <2>1. Live /\ ~ Brought(queue, "allow")
    BY AwaitedIs DEF RetainedInv, RetainedTypeOK
  <2> QED
    BY <2>1 DEF RetainedInv, CarShut
<1> QED
  BY <1>1, RetainedInvariance, PTL

\* When the retained kill switch turns the controllers on, the retained knobs
\* are in force (state_topics, mqtt/mod.rs 555-602).
THEOREM WritesComeLast == RetainedSpec => WritesAwaitKnobs
<1>1. RetainedInv /\ [RetainedNext]_retainedVars =>
        [SwitchedOnByRetained /\ "knob" \notin spoiled
           => wish.knob \in {Absent, world.knob}]_retainedVars
  <2> SUFFICES ASSUME RetainedInv, SwitchedOnByRetained, "knob" \notin spoiled,
                      wish["knob"] # Absent
               PROVE  wish["knob"] = world["knob"]
    OBVIOUS
  <2>1. /\ queue \in Seq(Messages) /\ queue # <<>>
        /\ wish["knob"] \in Payloads["knob"] \union {Absent}
    BY DEF RetainedInv, RetainedTypeOK, SwitchedOnByRetained, Topics
  <2>2. Wished("knob") /\ "knob" \in Kept
    BY <2>1, PayloadTypes DEF Wished, Kept, Topics
  <2>3. Brings(Head(queue), "writes") /\ ~ Brings(Head(queue), "knob")
    BY DEF SwitchedOnByRetained, Message, Brings
  <2>4. /\ Brought(queue, "writes")
        /\ Brought(queue, "knob") <=> Brought(Tail(queue), "knob")
        /\ KnobBefore(queue) => ~ Brought(Tail(queue), "knob")
    BY <2>1, <2>3, BroughtTail
  <2>5. Fetched("knob") /\ ~ Brought(queue, "knob")
    BY <2>2, <2>4 DEF RetainedInv, KnobFirst
  <2> QED
    BY <2>2, <2>5 DEF RetainedInv, Arrived
<1> QED
  BY <1>1, RetainedInvariance, PTL DEF RetainedSpec, WritesAwaitKnobs
=============================================================================
