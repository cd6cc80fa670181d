----------------------------- MODULE ZappiProofs -----------------------------
(***************************************************************************)
(* Theorems about Zappi, for every retry age and any number of calls in    *)
(* flight.                                                                 *)
(*                                                                         *)
(* Two facts make the inductive invariant.  A call for Fast is in flight   *)
(* neither by day nor in the stop window once a time unit has passed       *)
(* there, so none is left to land by day.  And once a tick has looked, the *)
(* verdict in Auto is of the date.                                         *)
(***************************************************************************)
EXTENDS Zappi, SequenceTheorems, TLAPS

NoFastInFlight ==
  slot = "Day" \/ (slot = "Stop" /\ stay = "Long") =>
    \A i \in DOMAIN calls : calls[i] # "Fast"

VerdictDated ==
  slot \notin {"Night", "Boost"} /\ stay # "New" /\ mode = "Auto" =>
    verdict.stamp = "Today"

IInv == TypeOK /\ NoFastInFlight /\ VerdictDated

\* The part of TypeOK about a target, of any target.
WellFormed(t) ==
  t \in Targets(0 .. RetryAge) /\ (t.value = None <=> t.phase = "Unset")

\* The parts of the step an event takes that Process leaves to its caller.
Verdicts == [value : BOOLEAN, stamp : {"Never", "Before", "Today"}]
Sights == [mode : Modes \union {"NotFresh"}, reached : BOOLEAN]

-----------------------------------------------------------------------------
(* Lemmas about the operators.                                             *)

LEMMA RuleType ==
  ASSUME NEW s \in Slots, NEW b \in BOOLEAN, NEW ext \in BOOLEAN, NEW z \in Sights
  PROVE  /\ Rule(s, b, ext, z) \in Modes \union {"Leave"}
         /\ s = "Day" => Rule(s, b, ext, z) = "Leave"
         /\ s = "Stop" => Rule(s, b, ext, z) # "Fast"
         /\ s = "Extended" => Rule(s, b, ext, z) = ModeFor(ext)
BY DEF Rule, ModeFor, Slots, Modes

\* What a proposal and the mark of a call leave is well formed; a call carries
\* the mode wanted.
LEMMA ProposalWellFormed ==
  ASSUME NEW t, WellFormed(t), NEW want \in Modes
  PROVE  /\ WellFormed(Proposal(t, want))
         /\ WellFormed(MarkCommanded(Proposal(t, want)))
         /\ Proposal(t, want).value = want
<1>1. want # None /\ want # "Leave"
  BY ZappiAssumption DEF Modes
<1>2. Proposal(t, want) = ProposeTarget(t, want, Owner)
  BY <1>1 DEF Proposal
<1>3. CASE ProposeChanges(t, want, Owner)
  <2>1. ProposeTarget(t, want, Owner)
          = [value |-> want, owner |-> Owner, phase |-> "Pending", age |-> 0]
    BY <1>3 DEF ProposeTarget
  <2>2. MarkCommanded(ProposeTarget(t, want, Owner))
          = [value |-> want, owner |-> Owner, phase |-> "Commanded", age |-> 0]
    BY <2>1 DEF MarkCommanded, Outstanding
  <2> QED
    BY <1>1, <1>2, <2>1, <2>2, ZappiAssumption DEF WellFormed, Targets, Phases
<1>4. CASE ~ ProposeChanges(t, want, Owner)
  <2>1. ProposeTarget(t, want, Owner) = t /\ t.value = want
    BY <1>4 DEF ProposeTarget, ProposeChanges
  <2>2. WellFormed(MarkCommanded(t))
    BY ZappiAssumption DEF WellFormed, Targets, Phases, MarkCommanded, Outstanding
  <2> QED
    BY <1>2, <2>1, <2>2
<1> QED
  BY <1>3, <1>4

LEMMA WithoutCalls ==
  ASSUME calls \in Seq(Modes), NEW i \in DOMAIN calls
  PROVE  /\ Without(i) \in Seq(Modes)
         /\ Len(Without(i)) = Len(calls) - 1
         /\ \A j \in DOMAIN Without(i) : \E k \in DOMAIN calls : Without(i)[j] = calls[k]
<1> DEFINE a == SubSeq(calls, 1, i - 1)
           b == SubSeq(calls, i + 1, Len(calls))
<1>1. i \in 1 .. Len(calls) /\ Len(calls) \in Nat
  BY LenProperties
<1>2. a \in Seq(Modes) /\ Len(a) = i - 1 /\ \A j \in 1 .. i - 1 : a[j] = calls[j]
  BY <1>1, SubSeqProperties
<1>3. /\ b \in Seq(Modes) /\ Len(b) = Len(calls) - i
      /\ \A j \in 1 .. Len(calls) - i : b[j] = calls[i + j]
  BY <1>1, SubSeqProperties
<1>4. Without(i) = a \o b
  BY DEF Without
<1> HIDE DEF a, b
<1>5. /\ Without(i) \in Seq(Modes)
      /\ Len(Without(i)) = Len(calls) - 1
      /\ \A j \in 1 .. Len(calls) - 1 :
           Without(i)[j] = IF j <= i - 1 THEN a[j] ELSE b[j - (i - 1)]
  <2>1. /\ a \o b \in Seq(Modes)
        /\ Len(a \o b) = Len(a) + Len(b)
        /\ \A j \in 1 .. Len(a) + Len(b) :
             (a \o b)[j] = IF j <= Len(a) THEN a[j] ELSE b[j - Len(a)]
    BY <1>2, <1>3, ConcatProperties
  <2>2. Len(a) + Len(b) = Len(calls) - 1 /\ Len(a) = i - 1
    BY <1>1, <1>2, <1>3
  <2> QED
    BY <1>4, <2>1, <2>2
<1>6. ASSUME NEW j \in 1 .. Len(calls) - 1
      PROVE  \E k \in 1 .. Len(calls) : Without(i)[j] = calls[k]
  <2>1. CASE j <= i - 1
    BY <1>1, <1>2, <1>5, <2>1
  <2>2. CASE ~ (j <= i - 1)
    <3>1. j - (i - 1) \in 1 .. Len(calls) - i /\ j + 1 \in 1 .. Len(calls)
      BY <1>1, <2>2
    <3>2. b[j - (i - 1)] = calls[i + (j - (i - 1))]
      BY <1>3, <3>1
    <3>3. i + (j - (i - 1)) = j + 1
      BY <1>1
    <3> QED
      BY <1>5, <2>2, <3>1, <3>2, <3>3
  <2> QED
    BY <2>1, <2>2
<1>7. DOMAIN Without(i) = 1 .. Len(calls) - 1 /\ DOMAIN calls = 1 .. Len(calls)
  BY <1>5, LenProperties
<1> QED
  BY <1>5, <1>6, <1>7

-----------------------------------------------------------------------------
(* An event of the loop.                                                   *)

\* What an event may do to the calls: none by day, none for Fast in the stop
\* window, and in the extended window the one the knob and the verdict ask for.
MayCall(m, v) ==
  \/ calls' = calls
  \/ \E want \in Modes :
       /\ calls' = Append(calls, want)
       /\ slot # "Day"
       /\ slot = "Stop" => want # "Fast"
       /\ slot = "Extended" => want = ModeFor(Extended(m, v))

LEMMA ProcessStep ==
  ASSUME TypeOK, NEW m \in ExtendedModes, NEW b \in BOOLEAN, NEW v \in Verdicts,
         NEW t, WellFormed(t), NEW z \in Sights, NEW enabled \in BOOLEAN,
         Process(m, b, v, t, z, enabled)
  PROVE  /\ mode' = m /\ boost' = b /\ verdict' = v /\ seen' = z
         /\ writesEnabled' = enabled /\ slot' = slot /\ device' = device
         /\ WellFormed(target')
         /\ calls' \in Seq(Modes) /\ Len(calls') <= MaxCalls
         /\ MayCall(m, v)
<1> DEFINE ext == Extended(m, v)
           rule == Rule(slot, b, ext, z)
           want == IF z.mode = "NotFresh" THEN "Leave" ELSE rule
           calling == Fires(t, want) /\ enabled
<1>1. /\ calling => Len(calls) < MaxCalls
      /\ mode' = m /\ boost' = b /\ verdict' = v /\ seen' = z
      /\ writesEnabled' = enabled /\ slot' = slot /\ device' = device
      /\ target' = IF calling THEN MarkCommanded(Proposal(t, want)) ELSE Proposal(t, want)
      /\ calls' = IF calling THEN Append(calls, Proposal(t, want).value) ELSE calls
  BY DEF Process
<1>2. ext \in BOOLEAN
  BY DEF Extended, Verdicts
<1>3. /\ rule \in Modes \union {"Leave"}
      /\ slot = "Day" => rule = "Leave"
      /\ slot = "Stop" => rule # "Fast"
      /\ slot = "Extended" => rule = ModeFor(ext)
  BY <1>2, RuleType DEF TypeOK
<1> HIDE DEF rule, ext
<1>4. want \in Modes \union {"Leave"}
  BY <1>3
<1>5. CASE want = "Leave"
  <2>1. ~ calling /\ Proposal(t, want) = t
    BY <1>5 DEF Fires, Proposal
  <2> QED
    BY <1>1, <2>1 DEF TypeOK, MayCall
<1>6. CASE want \in Modes
  <2>1. "Leave" \notin Modes
    BY DEF Modes
  <2>2. want = rule /\ slot # "Day"
    BY <1>3, <1>6, <2>1
  <2>3. /\ WellFormed(Proposal(t, want))
        /\ WellFormed(MarkCommanded(Proposal(t, want)))
        /\ Proposal(t, want).value = want
    BY <1>6, ProposalWellFormed
  <2>4. WellFormed(target')
    BY <1>1, <2>3
  <2>5. CASE calling
    <3>1. calls' = Append(calls, want) /\ Len(calls) < MaxCalls
      BY <1>1, <2>3, <2>5
    <3>2. calls' \in Seq(Modes) /\ Len(calls') = Len(calls) + 1 /\ Len(calls) \in Nat
      BY <1>6, <3>1, AppendProperties, LenProperties DEF TypeOK
    <3>3. Len(calls') <= MaxCalls
      BY <3>1, <3>2, ZappiAssumption
    <3>4. MayCall(m, v)
      BY <1>3, <1>6, <2>2, <3>1 DEF MayCall, ext
    <3> QED
      BY <1>1, <2>4, <3>2, <3>3, <3>4
  <2>6. CASE ~ calling
    <3>1. calls' = calls
      BY <1>1, <2>6
    <3> QED
      BY <1>1, <2>4, <3>1 DEF TypeOK, MayCall
  <2> QED
    BY <2>5, <2>6
<1> QED
  BY <1>4, <1>5, <1>6

\* An event keeps everything but, perhaps, VerdictDated.
LEMMA EventKeeps ==
  ASSUME TypeOK, NoFastInFlight,
         NEW m \in ExtendedModes, NEW b \in BOOLEAN, NEW v \in Verdicts,
         NEW t, WellFormed(t), NEW z \in Sights, NEW enabled \in BOOLEAN,
         Process(m, b, v, t, z, enabled),
         stay' \in {"New", "Ticked", "Long"}, stay' = "Long" => stay = "Long"
  PROVE  TypeOK' /\ NoFastInFlight'
<1>1. /\ mode' = m /\ boost' = b /\ verdict' = v /\ seen' = z
      /\ writesEnabled' = enabled /\ slot' = slot /\ device' = device
      /\ WellFormed(target')
      /\ calls' \in Seq(Modes) /\ Len(calls') <= MaxCalls
      /\ MayCall(m, v)
  BY ProcessStep
<1>2. TypeOK'
  BY <1>1 DEF TypeOK, WellFormed, Verdicts, Sights
<1>3. ASSUME slot' = "Day" \/ (slot' = "Stop" /\ stay' = "Long"),
             NEW i \in DOMAIN calls'
      PROVE  calls'[i] # "Fast"
  <2>1. \A j \in DOMAIN calls : calls[j] # "Fast"
    BY <1>1, <1>3 DEF NoFastInFlight
  <2>2. CASE calls' = calls
    BY <1>3, <2>1, <2>2
  <2>3. CASE calls' # calls
    <3>1. PICK want \in Modes : calls' = Append(calls, want) /\ want # "Fast"
      BY <1>1, <1>3, <2>3 DEF MayCall
    <3>2. calls \in Seq(Modes) /\ Len(calls) \in Nat /\ DOMAIN calls = 1 .. Len(calls)
      BY LenProperties DEF TypeOK
    <3>3. i \in 1 .. Len(calls) + 1
      BY <1>1, <1>3, <3>1, <3>2, AppendProperties, LenProperties
    <3>4. calls'[i] = IF i = Len(calls) + 1 THEN want ELSE calls[i]
      BY <3>1, <3>2, <3>3, AppendProperties
    <3> QED
      BY <2>1, <3>1, <3>2, <3>3, <3>4
  <2> QED
    BY <2>2, <2>3
<1> QED
  BY <1>2, <1>3 DEF NoFastInFlight

-----------------------------------------------------------------------------
(* The inductive invariant.                                                *)

LEMMA InitInv == Init => IInv
<1> SUFFICES ASSUME Init PROVE IInv
  OBVIOUS
<1>1. WellFormed(target)
  BY ZappiAssumption
     DEF Init, WellFormed, UnsetTarget, Targets, Phases, NoOwner, Modes
<1>2. calls \in Seq(Modes) /\ Len(calls) <= MaxCalls
  BY ZappiAssumption DEF Init
<1>3. TypeOK
  BY <1>1, <1>2 DEF Init, TypeOK, WellFormed, NotSeen
<1> QED
  BY <1>3 DEF Init, IInv, NoFastInFlight, VerdictDated

LEMMA TickKeeps ==
  ASSUME IInv, NEW fresh \in BOOLEAN, NEW soc \in CarSocs, NEW tgt \in CarTargets,
         Tick(fresh, soc, tgt)
  PROVE  IInv'
<1> DEFINE v == Evaluate(verdict, slot, soc, tgt)
           z == IF fresh THEN seen ELSE NotSeen
<1>1. v \in Verdicts /\ z \in Sights /\ WellFormed(target)
  BY DEF IInv, TypeOK, Evaluate, CarWants, Verdicts, Sights, NotSeen, WellFormed
<1>2. mode = "Auto" /\ slot \notin {"Night", "Boost"} => v.stamp = "Today"
  BY DEF Evaluate, Due
<1>3. /\ Process(mode, boost, v, target, z, writesEnabled)
      /\ stay' = IF stay = "New" THEN "Ticked" ELSE stay
  BY DEF Tick
<1> HIDE DEF v, z
<1>4. TypeOK /\ mode \in ExtendedModes /\ boost \in BOOLEAN /\ writesEnabled \in BOOLEAN
  BY DEF IInv, TypeOK
<1>5. /\ stay' \in {"New", "Ticked", "Long"}
      /\ stay' = "Long" => stay = "Long"
  BY <1>3, <1>4 DEF TypeOK
<1>6. TypeOK' /\ NoFastInFlight'
  BY <1>1, <1>3, <1>4, <1>5, EventKeeps DEF IInv
<1>7. mode' = mode /\ verdict' = v /\ slot' = slot
  BY <1>1, <1>3, <1>4, ProcessStep
<1> QED
  BY <1>2, <1>6, <1>7 DEF IInv, VerdictDated

LEMMA PollKeeps ==
  ASSUME IInv, NEW reached \in BOOLEAN, PollAnswered(reached)
  PROVE  IInv'
<1> DEFINE t == ConfirmIf(target, OnReading(device, 0), target.value = device, 0)
           z == [mode |-> device, reached |-> reached]
<1>1. z \in Sights /\ verdict \in Verdicts
  BY DEF IInv, TypeOK, Sights, Verdicts
<1>2. WellFormed(t)
  BY ZappiAssumption
     DEF IInv, TypeOK, WellFormed, ConfirmIf, Outstanding, Targets, Phases
<1>3. Process(mode, boost, verdict, t, z, writesEnabled) /\ stay' = stay
  BY DEF PollAnswered
<1> HIDE DEF t, z
<1>4. TypeOK /\ mode \in ExtendedModes /\ boost \in BOOLEAN /\ writesEnabled \in BOOLEAN
  BY DEF IInv, TypeOK
<1>5. TypeOK' /\ NoFastInFlight'
  BY <1>1, <1>2, <1>3, <1>4, EventKeeps DEF IInv, TypeOK
<1>6. mode' = mode /\ verdict' = verdict /\ slot' = slot
  BY <1>1, <1>2, <1>3, <1>4, ProcessStep
<1> QED
  BY <1>3, <1>5, <1>6 DEF IInv, VerdictDated

LEMMA KnobKeeps ==
  ASSUME IInv, NEW m \in ExtendedModes, NEW b \in BOOLEAN, KnobEvent(m, b)
  PROVE  IInv'
<1>1. /\ TypeOK /\ WellFormed(target) /\ verdict \in Verdicts /\ seen \in Sights
      /\ writesEnabled \in BOOLEAN
  BY DEF IInv, TypeOK, WellFormed, Sights, Verdicts
<1>2. /\ Process(m, b, verdict, target, seen, writesEnabled)
      /\ stay' = IF m # mode THEN "New" ELSE stay
  BY DEF KnobEvent
<1>3. TypeOK' /\ NoFastInFlight'
  BY <1>1, <1>2, EventKeeps DEF IInv, TypeOK
<1>4. mode' = m /\ verdict' = verdict /\ slot' = slot
  BY <1>1, <1>2, ProcessStep
<1> QED
  BY <1>2, <1>3, <1>4 DEF IInv, VerdictDated

LEMMA KillSwitchKeeps ==
  ASSUME IInv, NEW on \in BOOLEAN, KillSwitchEvent(on)
  PROVE  IInv'
<1> DEFINE t == IF on /\ ~ writesEnabled THEN UnsetTarget ELSE target
<1>1. /\ TypeOK /\ verdict \in Verdicts /\ seen \in Sights
      /\ mode \in ExtendedModes /\ boost \in BOOLEAN
  BY DEF IInv, TypeOK, Sights, Verdicts
<1>2. WellFormed(t)
  BY ZappiAssumption
     DEF IInv, TypeOK, WellFormed, UnsetTarget, Targets, Phases, NoOwner, Modes
<1>3. Process(mode, boost, verdict, t, seen, on) /\ stay' = stay
  BY DEF KillSwitchEvent
<1> HIDE DEF t
<1>4. TypeOK' /\ NoFastInFlight'
  BY <1>1, <1>2, <1>3, EventKeeps DEF IInv, TypeOK
<1>5. mode' = mode /\ verdict' = verdict /\ slot' = slot
  BY <1>1, <1>2, <1>3, ProcessStep
<1> QED
  BY <1>3, <1>4, <1>5 DEF IInv, VerdictDated

LEMMA RestartKeeps == IInv /\ Restart => IInv'
<1> SUFFICES ASSUME IInv, Restart PROVE IInv'
  OBVIOUS
<1>1. WellFormed(target')
  BY ZappiAssumption
     DEF Restart, WellFormed, UnsetTarget, Targets, Phases, NoOwner, Modes
<1>2. TypeOK'
  BY <1>1 DEF IInv, TypeOK, Restart, knobs, WellFormed, NotSeen
<1> QED
  BY <1>2 DEF IInv, Restart, knobs, NoFastInFlight, VerdictDated

\* A call that ends leaves nothing in flight that was not.
LEMMA CallEndKeeps ==
  ASSUME IInv, NEW i, CallLands(i) \/ CallFails(i)
  PROVE  IInv'
<1>1. /\ i \in DOMAIN calls /\ calls' = Without(i)
      /\ UNCHANGED <<slot, stay, knobs, verdict, target, seen>>
      /\ device' = calls[i] \/ device' = device
  BY DEF CallLands, CallFails
<1>2. /\ calls \in Seq(Modes) /\ Len(calls) \in Nat /\ Len(calls) <= MaxCalls
      /\ calls[i] \in Modes
  BY <1>1, ElementOfSeq, LenProperties DEF IInv, TypeOK
<1>3. /\ calls' \in Seq(Modes)
      /\ Len(calls') = Len(calls) - 1
      /\ \A j \in DOMAIN calls' : \E k \in DOMAIN calls : calls'[j] = calls[k]
  BY <1>1, <1>2, WithoutCalls
<1>4. Len(calls') <= MaxCalls
  BY <1>2, <1>3, ZappiAssumption
<1>5. TypeOK'
  BY <1>1, <1>2, <1>3, <1>4 DEF IInv, TypeOK, knobs
<1>6. NoFastInFlight'
  BY <1>1, <1>3 DEF IInv, NoFastInFlight
<1> QED
  BY <1>1, <1>5, <1>6 DEF IInv, VerdictDated, knobs

LEMMA ForeignKeeps == ASSUME IInv, NEW v \in Modes, ForeignChange(v) PROVE IInv'
BY DEF IInv, TypeOK, NoFastInFlight, VerdictDated, ForeignChange, knobs

LEMMA ElapseKeeps == IInv /\ Elapse => IInv'
<1> SUFFICES ASSUME IInv, Elapse PROVE IInv'
  OBVIOUS
<1>1. WellFormed(target')
  BY ZappiAssumption DEF IInv, TypeOK, Elapse, WellFormed, Older, Targets
<1>2. TypeOK'
  BY <1>1 DEF IInv, TypeOK, Elapse, knobs, WellFormed
<1>3. NoFastInFlight'
  BY DEF Elapse, NoFastInFlight
<1> QED
  BY <1>2, <1>3 DEF IInv, Elapse, knobs, VerdictDated

LEMMA ClockKeeps == IInv /\ ClockEnters => IInv'
<1> SUFFICES ASSUME IInv, ClockEnters PROVE IInv'
  OBVIOUS
<1>1. slot' \in Slots /\ (slot' = "Day" => slot = "Stop")
  BY DEF IInv, TypeOK, ClockEnters, Slots, Following
<1>2. verdict' \in Verdicts
  BY DEF IInv, TypeOK, ClockEnters, Verdicts
<1>3. TypeOK'
  BY <1>1, <1>2 DEF IInv, TypeOK, ClockEnters, knobs, Verdicts
<1>4. NoFastInFlight'
  BY <1>1 DEF IInv, ClockEnters, NoFastInFlight
<1> QED
  BY <1>3, <1>4 DEF IInv, ClockEnters, VerdictDated

LEMMA NextInv == IInv /\ [Next]_vars => IInv'
<1> SUFFICES ASSUME IInv, [Next]_vars PROVE IInv'
  OBVIOUS
<1>1. CASE UNCHANGED vars
  BY <1>1 DEF vars, IInv, TypeOK, NoFastInFlight, VerdictDated
<1>2. CASE Next
  BY <1>2, TickKeeps, PollKeeps, KnobKeeps, KillSwitchKeeps, RestartKeeps,
     CallEndKeeps, ForeignKeeps, ElapseKeeps, ClockKeeps DEF Next
<1> QED
  BY <1>1, <1>2

\* The inductive invariant holds in every behaviour.
THEOREM Invariance == Spec => []IInv
BY InitInv, NextInv, PTL DEF Spec

\* Type correctness of the Zappi's slots, knobs, target and calls
\* (process.rs run_zappi_mode).
THEOREM TypeCorrect == Spec => []TypeOK
<1>1. IInv => TypeOK
  BY DEF IInv
<1> QED
  BY <1>1, Invariance, PTL

-----------------------------------------------------------------------------
(* The action properties.                                                  *)

\* A step that makes the calls longer is an event of the loop, and one that
\* calls for Fast in Auto in the extended window rests on the verdict.
LEMMA EventRests ==
  ASSUME TypeOK, VerdictDated',
         NEW m \in ExtendedModes, NEW b \in BOOLEAN, NEW v \in Verdicts,
         NEW t, WellFormed(t), NEW z \in Sights, NEW enabled \in BOOLEAN,
         Process(m, b, v, t, z, enabled)
  PROVE  LeftToTheUser /\ RestsOnVerdict
<1>1. /\ mode' = m /\ verdict' = v /\ slot' = slot /\ device' = device
      /\ MayCall(m, v)
  BY ProcessStep
<1>2. LeftToTheUser
  BY <1>1 DEF LeftToTheUser, MayCall
<1>3. ASSUME Spawns("Fast"), slot' = "Extended", mode' = "Auto", stay' # "New"
      PROVE  verdict' = [value |-> TRUE, stamp |-> "Today"]
  <2>1. calls \in Seq(Modes) /\ Len(calls) \in Nat
    BY LenProperties DEF TypeOK
  <2>2. calls' # calls
    BY <1>3, <2>1 DEF Spawns
  <2>3. PICK want \in Modes :
          calls' = Append(calls, want) /\ want = ModeFor(Extended(m, v))
    BY <1>1, <1>3, <2>2 DEF MayCall
  <2>4. calls'[Len(calls')] = want
    BY <2>1, <2>3, AppendProperties
  <2>5. Extended(m, v)
    BY <1>3, <2>3, <2>4 DEF Spawns, ModeFor
  <2>6. v.value
    BY <1>1, <1>3, <2>5 DEF Extended
  <2>7. v.stamp = "Today"
    BY <1>1, <1>3 DEF VerdictDated
  <2> QED
    BY <1>1, <2>6, <2>7 DEF Verdicts
<1> QED
  BY <1>2, <1>3 DEF RestsOnVerdict

\* No other step calls.
LEMMA OthersRest ==
  ASSUME TypeOK, Len(calls') <= Len(calls)
  PROVE  (\A v \in Modes : ~ Spawns(v)) /\ RestsOnVerdict
<1>1. Len(calls) \in Nat
  BY LenProperties DEF TypeOK
<1>2. ~ (Len(calls') > Len(calls))
  BY <1>1
<1> QED
  BY <1>2 DEF Spawns, RestsOnVerdict

LEMMA NextRests == IInv /\ IInv' /\ [Next]_vars => LeftToTheUser /\ RestsOnVerdict
<1> SUFFICES ASSUME IInv, IInv', [Next]_vars PROVE LeftToTheUser /\ RestsOnVerdict
  OBVIOUS
<1>1. TypeOK /\ VerdictDated'
  BY DEF IInv
<1>2. /\ mode \in ExtendedModes /\ boost \in BOOLEAN /\ verdict \in Verdicts
      /\ WellFormed(target) /\ seen \in Sights /\ writesEnabled \in BOOLEAN
  BY <1>1 DEF TypeOK, WellFormed, Sights, Verdicts
<1>3. ASSUME NEW fresh \in BOOLEAN, NEW soc \in CarSocs, NEW tgt \in CarTargets,
             Tick(fresh, soc, tgt)
      PROVE  LeftToTheUser /\ RestsOnVerdict
  <2>1. Evaluate(verdict, slot, soc, tgt) \in Verdicts
    BY <1>2 DEF Evaluate, CarWants, Verdicts
  <2>2. (IF fresh THEN seen ELSE NotSeen) \in Sights
    BY <1>2 DEF Sights, NotSeen
  <2> QED
    BY <1>1, <1>2, <1>3, <2>1, <2>2, EventRests DEF Tick
<1>4. ASSUME NEW reached \in BOOLEAN, PollAnswered(reached)
      PROVE  LeftToTheUser /\ RestsOnVerdict
  <2>1. [mode |-> device, reached |-> reached] \in Sights
    BY <1>1 DEF TypeOK, Sights
  <2>2. WellFormed(ConfirmIf(target, OnReading(device, 0), target.value = device, 0))
    BY <1>2, ZappiAssumption DEF WellFormed, ConfirmIf, Outstanding, Targets, Phases
  <2> QED
    BY <1>1, <1>2, <1>4, <2>1, <2>2, EventRests DEF PollAnswered
<1>5. ASSUME NEW m \in ExtendedModes, NEW b \in BOOLEAN, KnobEvent(m, b)
      PROVE  LeftToTheUser /\ RestsOnVerdict
  BY <1>1, <1>2, <1>5, EventRests DEF KnobEvent
<1>6. ASSUME NEW on \in BOOLEAN, KillSwitchEvent(on)
      PROVE  LeftToTheUser /\ RestsOnVerdict
  <2>1. WellFormed(IF on /\ ~ writesEnabled THEN UnsetTarget ELSE target)
    BY <1>2, ZappiAssumption
       DEF WellFormed, UnsetTarget, Targets, Phases, NoOwner, Modes
  <2> QED
    BY <1>1, <1>2, <1>6, <2>1, EventRests DEF KillSwitchEvent
<1>7. ASSUME NEW i, CallLands(i) \/ CallFails(i)
      PROVE  LeftToTheUser /\ RestsOnVerdict
  <2>1. i \in DOMAIN calls /\ calls' = Without(i) /\ slot' = slot
    BY <1>7 DEF CallLands, CallFails
  <2>2. calls \in Seq(Modes) /\ Len(calls) \in Nat
    BY <1>1, LenProperties DEF TypeOK
  <2>3. Len(calls') <= Len(calls)
    BY <2>1, <2>2, WithoutCalls
  <2>4. (\A v \in Modes : ~ Spawns(v)) /\ RestsOnVerdict
    BY <1>1, <2>3, OthersRest
  <2>5. slot = "Day" => calls[i] # "Fast"
    BY <2>1 DEF IInv, NoFastInFlight
  <2>6. slot = "Day" => ~ (device = "Off" /\ device' = "Fast")
    BY <1>7, <2>5 DEF CallLands, CallFails
  <2> QED
    BY <2>4, <2>6 DEF LeftToTheUser
<1>8. CASE calls' = calls
  <2>1. Len(calls) \in Nat
    BY <1>1, LenProperties DEF TypeOK
  <2>2. RestsOnVerdict
    BY <1>1, <1>8, <2>1, OthersRest
  <2> QED
    BY <1>8, <2>2 DEF LeftToTheUser
<1>9. (Restart \/ (\E v \in Modes : ForeignChange(v)) \/ Elapse \/ ClockEnters
         \/ UNCHANGED vars) => calls' = calls
  BY DEF Restart, ForeignChange, Elapse, ClockEnters, vars
<1> QED
  BY <1>3, <1>4, <1>5, <1>6, <1>7, <1>8, <1>9 DEF Next

\* By day nothing is called and no call lands to charge the car
\* (zappi_mode.rs 13-15 and 107-111).
THEOREM TheDayIsTheUsers == Spec => DayIsTheUsers
<1>1. IInv /\ IInv' /\ [Next]_vars => [LeftToTheUser]_vars
  BY NextRests
<1> QED
  BY <1>1, Invariance, PTL DEF Spec, DayIsTheUsers

\* Extended charging in Auto rests on the verdict of the date
\* (process.rs 1338-1371).
THEOREM TheVerdictIsTonights == Spec => VerdictIsTonights
<1>1. IInv /\ IInv' /\ [Next]_vars => [RestsOnVerdict]_vars
  BY NextRests
<1> QED
  BY <1>1, Invariance, PTL DEF Spec, VerdictIsTonights
=============================================================================
