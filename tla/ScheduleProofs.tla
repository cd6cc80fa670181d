---------------------------- MODULE ScheduleProofs ----------------------------
(***************************************************************************)
(* Theorems about the charge schedules.  First NightPlan, which says what  *)
(* they should be, for whatever the cores find in the world and any number *)
(* of edits; then ScheduleFeed, which gets one to the device and back, for *)
(* any schedules, caps and number of faults.                               *)
(*                                                                         *)
(* The inductive invariant of NightPlan says what the night leaves behind: *)
(* by 02:00 a tick has looked at the flag of the day before and the sunset *)
(* is of the day; by 05:00 no forecast of yesterday is fresh; and a        *)
(* schedule 1 that is off because its target was reached has latched the   *)
(* date.  That of ScheduleFeed says that what the accumulator holds and    *)
(* what the message being routed still has are two halves of one schedule. *)
(***************************************************************************)
EXTENDS NightPlan, ScheduleFeed, SequenceTheorems, TLAPS

Plans == [extended : BOOLEAN, dng : BOOLEAN, target : {"Target", "Full"},
          stamp : {"Never", "Before", "Today"}, basis : {NoDay, -1, 0, 1}]

FlagDated ==
  ticked \/ slot # "Small" => (plan.extended => plan.stamp = "Today")

SunDated == slot # "Small" => sun # "Yesterday"

ForecastDated == slot \in {"Extended", "Day", "Dark"} => forecast # "Yesterday"

OffIsLatched == weighed /\ schedules.extended = "Off" => above

Dated == FlagDated /\ SunDated /\ ForecastDated

IInv == TypeOK /\ Dated /\ OffIsLatched

-----------------------------------------------------------------------------
(* Lemmas about the two cores.                                             *)

LEMMA ClearedType ==
  ASSUME NEW p \in Plans, NEW tick \in BOOLEAN
  PROVE  /\ Cleared(p, tick) \in Plans
         /\ Cleared(p, tick).stamp = p.stamp /\ Cleared(p, tick).basis = p.basis
         /\ tick /\ Cleared(p, tick).extended => p.stamp = "Today"
         /\ Cleared(p, tick).extended => p.extended
BY DEF Cleared, Plans

\* The planner keeps the plan, or makes one of today.
LEMMA PlannedType ==
  ASSUME NEW p \in Plans, NEW in \in Inputs,
         slot # "Small" => sun' # "Yesterday"
  PROVE  /\ Planned(p, in) \in Plans
         /\ \/ Planned(p, in) = p
            \/ /\ Planned(p, in).stamp = "Today"
               /\ slot = "Extended" /\ forecast' # "Yesterday" =>
                    Planned(p, in).basis = 0
<1>1. in \in AllInputs
  BY NightPlanAssumption
<1>2. CASE ~ in.temperature \/ forecast' = "None"
  BY <1>2 DEF Planned
<1>3. CASE ~ (~ in.temperature \/ forecast' = "None")
  <2>1. Basis \in {-1, 0, 1}
    BY DEF Basis
  <2>2. slot = "Extended" /\ forecast' # "Yesterday" => Basis = 0
    BY DEF Basis, AfterSunset
  <2>3. Planned(p, in) =
          [extended |-> in.cell.extended \/ (in.full /\ in.dull),
           dng |-> in.cell.extended,
           target |-> IF in.full /\ in.dull THEN "Full" ELSE in.cell.target,
           stamp |-> "Today", basis |-> Basis]
    BY <1>3 DEF Planned
  <2>4. /\ in.cell.extended \in BOOLEAN /\ in.cell.target \in {"Target", "Full"}
        /\ in.full \in BOOLEAN /\ in.dull \in BOOLEAN
    BY <1>1 DEF AllInputs
  <2> HIDE DEF Basis
  <2>5. Planned(p, in) \in Plans
    BY <2>1, <2>3, <2>4 DEF Plans
  <2> QED
    BY <2>2, <2>3, <2>5
<1> QED
  BY <1>2, <1>3

LEMMA RuleType ==
  ASSUME NEW p \in Plans, NEW in \in Inputs
  PROVE  /\ Rule(p, in) \in [boost : {"Target", "Full"}, extended : Goals \union {"Off"}]
         /\ Weighs(p, in) \in BOOLEAN /\ Reached(p, in) \in BOOLEAN
         /\ Weighs(p, in) => (Rule(p, in).extended = "Off" <=> Reached(p, in))
         /\ Weighs(p, in) /\ above => Reached(p, in)
<1>1. Selected(p, in) \in {"Target", "Full"}
  BY DEF Selected, Plans
<1>2. Weighs(p, in) => Cbe(p, in)
  BY DEF Weighs
<1>3. /\ Weighs(p, in) \in BOOLEAN /\ Reached(p, in) \in BOOLEAN
      /\ Weighs(p, in) /\ above => Reached(p, in)
  BY DEF Weighs, Reached
<1> HIDE DEF Selected, Weighs, Reached, Cbe
<1> QED
  BY <1>1, <1>2, <1>3 DEF Rule, Goals

\* What the two cores of one event do.
LEMMA ProcessStep ==
  ASSUME TypeOK, OffIsLatched, NEW tick \in BOOLEAN, NEW in \in Inputs,
         slot # "Small" => sun' # "Yesterday",
         slot = "Extended" => forecast' # "Yesterday",
         Process(tick, in)
  PROVE  /\ plan' \in Plans
         /\ schedules' \in [boost : {"Target", "Full"}, extended : Goals \union {"Off"}]
         /\ above' \in BOOLEAN /\ weighed' \in BOOLEAN
         /\ OffIsLatched' /\ PlannedForToday /\ StayedOff
         /\ (plan.extended => plan.stamp = "Today") \/ tick =>
              (plan'.extended => plan'.stamp = "Today")
<1> DEFINE p == Cleared(plan, tick)
<1>1. plan \in Plans /\ above \in BOOLEAN /\ weighed \in BOOLEAN
  BY DEF TypeOK, Plans
<1>2. /\ p \in Plans /\ p.stamp = plan.stamp
      /\ tick /\ p.extended => plan.stamp = "Today"
      /\ p.extended => plan.extended
      /\ plan' = Planned(p, in)
  BY <1>1, ClearedType DEF Process
<1>3. p # plan => plan.stamp # "Today"
  BY DEF Cleared
<1> HIDE DEF p
<1>4. /\ plan' \in Plans
      /\ \/ plan' = p
         \/ /\ plan'.stamp = "Today"
            /\ slot = "Extended" => plan'.basis = 0
  BY <1>2, PlannedType
<1>5. PlannedForToday
  BY <1>2, <1>3, <1>4 DEF PlannedForToday
<1>6. (plan.extended => plan.stamp = "Today") \/ tick =>
        (plan'.extended => plan'.stamp = "Today")
  BY <1>2, <1>4
<1>7. CASE in.soc
  <2> DEFINE rule == Rule(plan', in)
             reached == Reached(plan', in)
             weighs == Weighs(plan', in)
  <2>1. /\ rule \in [boost : {"Target", "Full"}, extended : Goals \union {"Off"}]
        /\ weighs \in BOOLEAN /\ reached \in BOOLEAN
        /\ weighs => (rule.extended = "Off" <=> reached)
        /\ weighs /\ above => reached
    BY <1>4, RuleType
  <2>2. /\ schedules' = rule /\ above' = (above \/ reached) /\ weighed' = weighs
    BY <1>7 DEF Process
  <2> HIDE DEF rule, reached, weighs
  <2>3. OffIsLatched'
    BY <2>1, <2>2 DEF OffIsLatched
  <2>4. StayedOff
    BY <2>1, <2>2 DEF OffIsLatched, StayedOff
  <2>5. above' \in BOOLEAN
    BY <1>1, <2>1, <2>2
  <2> QED
    BY <1>4, <1>5, <1>6, <2>1, <2>2, <2>3, <2>4, <2>5
<1>8. CASE ~ in.soc
  <2>1. above' = above /\ schedules' = schedules /\ weighed' = weighed
    BY <1>8 DEF Process
  <2>2. OffIsLatched' /\ StayedOff
    BY <2>1 DEF OffIsLatched, StayedOff
  <2> QED
    BY <1>1, <1>4, <1>5, <1>6, <2>1, <2>2 DEF TypeOK
<1> QED
  BY <1>7, <1>8

-----------------------------------------------------------------------------
(* The inductive invariant and, with it, what a step may do.               *)

Allowed == PlannedForToday /\ StayedOff

LEMMA InitInv == Init => IInv
<1> SUFFICES ASSUME Init PROVE IInv
  OBVIOUS
<1>1. edits \in 0 .. MaxEdits
  BY NightPlanAssumption DEF Init
<1>2. plan \in Plans /\ ~ plan.extended
  BY DEF Init, NoPlan, Plans
<1>3. schedules \in [boost : {"Target", "Full"}, extended : Goals \union {"Off"}]
  BY DEF Init
<1>4. TypeOK
  BY <1>1, <1>2, <1>3 DEF Init, TypeOK, Plans
<1>5. Dated
  BY <1>2 DEF Init, Dated, FlagDated, SunDated, ForecastDated
<1> QED
  BY <1>4, <1>5 DEF Init, IInv, OffIsLatched

LEMMA TickKeeps ==
  ASSUME IInv, NEW in \in Inputs, Tick(in) PROVE IInv' /\ Allowed
<1>1. /\ ticked' = TRUE /\ UNCHANGED <<slot, sun, forecast, soc, cbeMode, edits>>
      /\ Process(TRUE, in)
  BY DEF Tick
<1>2. TypeOK /\ OffIsLatched /\ Dated
  BY DEF IInv
<1>3. /\ plan' \in Plans
      /\ schedules' \in [boost : {"Target", "Full"}, extended : Goals \union {"Off"}]
      /\ above' \in BOOLEAN /\ weighed' \in BOOLEAN
      /\ OffIsLatched' /\ PlannedForToday /\ StayedOff
      /\ plan'.extended => plan'.stamp = "Today"
  BY <1>1, <1>2, ProcessStep DEF Dated, SunDated, ForecastDated
<1>4. TypeOK'
  BY <1>1, <1>2, <1>3 DEF TypeOK, Plans
<1>5. Dated'
  BY <1>1, <1>2, <1>3 DEF Dated, FlagDated, SunDated, ForecastDated
<1> QED
  BY <1>3, <1>4, <1>5 DEF IInv, Allowed

LEMMA InputKeeps ==
  ASSUME IInv, NEW in \in Inputs,
         NEW s \in {sun, "Today"}, NEW f \in {forecast, "Today"}, InputEvent(s, f, in)
  PROVE  IInv' /\ Allowed
<1>1. /\ sun' = s /\ forecast' = f
      /\ UNCHANGED <<slot, ticked, soc, cbeMode, edits>>
      /\ Process(FALSE, in)
  BY DEF InputEvent
<1>2. TypeOK /\ OffIsLatched /\ Dated
  BY DEF IInv
<1>3. SunDated' /\ ForecastDated'
  BY <1>1, <1>2 DEF Dated, SunDated, ForecastDated
<1>4. /\ plan' \in Plans
      /\ schedules' \in [boost : {"Target", "Full"}, extended : Goals \union {"Off"}]
      /\ above' \in BOOLEAN /\ weighed' \in BOOLEAN
      /\ OffIsLatched' /\ PlannedForToday /\ StayedOff
      /\ (plan.extended => plan.stamp = "Today") =>
           (plan'.extended => plan'.stamp = "Today")
  BY <1>1, <1>2, <1>3, ProcessStep DEF SunDated, ForecastDated
<1>5. TypeOK'
  BY <1>1, <1>2, <1>4 DEF TypeOK, Plans
<1>6. Dated'
  BY <1>1, <1>2, <1>3, <1>4 DEF Dated, FlagDated
<1> QED
  BY <1>4, <1>5, <1>6 DEF IInv, Allowed

LEMMA KnobKeeps ==
  ASSUME IInv, NEW mode \in CbeModes, NEW in \in Inputs, KnobEvent(mode, in)
  PROVE  IInv' /\ Allowed
<1>1. /\ edits < MaxEdits /\ edits' = edits + 1 /\ cbeMode' = mode
      /\ UNCHANGED <<slot, ticked, sun, forecast, soc>> /\ Process(FALSE, in)
  BY DEF KnobEvent, env
<1>2. TypeOK /\ OffIsLatched /\ Dated
  BY DEF IInv
<1>3. edits' \in 0 .. MaxEdits
  BY <1>1, <1>2, NightPlanAssumption DEF TypeOK
<1>4. /\ plan' \in Plans
      /\ schedules' \in [boost : {"Target", "Full"}, extended : Goals \union {"Off"}]
      /\ above' \in BOOLEAN /\ weighed' \in BOOLEAN
      /\ OffIsLatched' /\ PlannedForToday /\ StayedOff
      /\ (plan.extended => plan.stamp = "Today") =>
           (plan'.extended => plan'.stamp = "Today")
  BY <1>1, <1>2, ProcessStep DEF Dated, SunDated, ForecastDated
<1>5. TypeOK'
  BY <1>1, <1>2, <1>3, <1>4 DEF TypeOK, Plans
<1>6. Dated'
  BY <1>1, <1>2, <1>4 DEF Dated, FlagDated, SunDated, ForecastDated
<1> QED
  BY <1>4, <1>5, <1>6 DEF IInv, Allowed

LEMMA RestartKeeps == IInv /\ Restart => IInv' /\ Allowed
<1> SUFFICES ASSUME IInv, Restart PROVE IInv' /\ Allowed
  OBVIOUS
<1>1. /\ plan' = NoPlan /\ sun' = "None" /\ forecast' = "None" /\ ticked' = FALSE
      /\ UNCHANGED <<slot, soc, cbeMode, above, schedules, weighed, edits>>
  BY DEF Restart
<1>2. plan' \in Plans /\ ~ plan'.extended /\ plan'.stamp # "Today"
  BY <1>1 DEF NoPlan, Plans
<1>3. TypeOK'
  BY <1>1, <1>2 DEF IInv, TypeOK, Plans
<1>4. Dated'
  BY <1>1, <1>2 DEF Dated, FlagDated, SunDated, ForecastDated
<1>5. OffIsLatched'
  BY <1>1 DEF IInv, OffIsLatched
<1> QED
  BY <1>1, <1>2, <1>3, <1>4, <1>5 DEF IInv, Allowed, PlannedForToday, StayedOff

\* The world moves, between two events and within a day.
LEMMA WorldKeeps ==
  ASSUME IInv, Stale \/ \E v \in Socs : SocDrifts(v)
  PROVE  IInv' /\ Allowed
<1>1. /\ UNCHANGED <<slot, ticked, sun, cbeMode, plan, above, schedules, weighed, edits>>
      /\ soc' \in Socs /\ forecast' \in {forecast, "None"}
  BY DEF IInv, TypeOK, Stale, SocDrifts, books
<1>2. TypeOK'
  BY <1>1 DEF IInv, TypeOK
<1>3. Dated' /\ OffIsLatched'
  BY <1>1 DEF IInv, Dated, FlagDated, SunDated, ForecastDated, OffIsLatched
<1> QED
  BY <1>1, <1>2, <1>3 DEF IInv, Allowed, PlannedForToday, StayedOff

LEMMA ClockKeeps == IInv /\ ClockEnters => IInv' /\ Allowed
<1> SUFFICES ASSUME IInv, ClockEnters PROVE IInv' /\ Allowed
  OBVIOUS
<1>1. /\ ticked /\ (slot = "Small" => sun # "Yesterday")
      /\ slot' = Following(slot) /\ slot \in Slots
      /\ UNCHANGED <<soc, cbeMode, schedules, edits>>
      /\ TypeOK /\ Dated /\ OffIsLatched
  BY DEF IInv, TypeOK, ClockEnters
<1>2. CASE slot = "Dark"
  <2>1. /\ ticked' = FALSE /\ above' = FALSE /\ weighed' = FALSE /\ slot' = "Small"
        /\ sun' = IF sun = "Today" THEN "Yesterday" ELSE sun
        /\ forecast' = IF forecast = "Today" THEN "Yesterday" ELSE forecast
        /\ plan' = [plan EXCEPT
             !.stamp = IF @ = "Today" THEN "Before" ELSE @,
             !.basis = IF @ \in {1, 0} THEN @ - 1 ELSE @]
    BY <1>1, <1>2 DEF ClockEnters, Following
  <2>2. plan' \in Plans
    <3> DEFINE st == IF plan.stamp = "Today" THEN "Before" ELSE plan.stamp
               ba == IF plan.basis \in {1, 0} THEN plan.basis - 1 ELSE plan.basis
    <3>1. plan \in Plans
      BY <1>1 DEF TypeOK, Plans
    <3>2. plan.basis \in {NoDay, -1, 0, 1} /\ plan.stamp \in {"Never", "Before", "Today"}
      BY <3>1 DEF Plans
    <3>3. plan.basis = 1 => ba = 0
      OBVIOUS
    <3>4. plan.basis = 0 => ba = -1
      OBVIOUS
    <3>5. plan.basis \notin {1, 0} => ba = plan.basis
      OBVIOUS
    <3>6. st \in {"Never", "Before", "Today"}
      BY <3>2
    <3>7. plan' = [plan EXCEPT !.stamp = st, !.basis = ba]
      BY <2>1
    <3> HIDE DEF st, ba
    <3>8. ba \in {NoDay, -1, 0, 1}
      BY <3>2, <3>3, <3>4, <3>5
    <3> QED
      BY <3>1, <3>6, <3>7, <3>8 DEF Plans
  <2>3. TypeOK'
    BY <1>1, <2>1, <2>2 DEF TypeOK, Plans, Slots
  <2> QED
    BY <1>2, <2>1, <2>3
       DEF IInv, Dated, FlagDated, SunDated, ForecastDated, OffIsLatched,
           Allowed, PlannedForToday, StayedOff
<1>3. CASE slot # "Dark"
  <2>1. /\ forecast' = FetchedBefore(slot')
        /\ UNCHANGED <<ticked, above, weighed, sun, plan>>
    BY <1>3 DEF ClockEnters
  <2>2. slot' \in Slots /\ slot' # "Small" /\ (slot' # "Extended" /\ slot' # "Boost" => slot \in {"Extended", "Day"})
    BY <1>1, <1>3 DEF Slots, Following
  <2>3. forecast' \in {forecast, "None"} /\ (slot' = "Extended" => forecast' # "Yesterday")
    <3>1. forecast' = IF slot' = "Extended" /\ forecast = "Yesterday" THEN "None" ELSE forecast
      BY <2>1 DEF FetchedBefore
    <3> QED
      BY <3>1
  <2>4. TypeOK'
    BY <1>1, <2>1, <2>2, <2>3 DEF TypeOK
  <2>5. ForecastDated'
    BY <1>1, <2>2, <2>3 DEF Dated, ForecastDated, Slots
  <2>6. FlagDated' /\ SunDated'
    BY <1>1, <2>1 DEF Dated, FlagDated, SunDated
  <2>7. OffIsLatched' /\ Allowed
    BY <1>1, <2>1 DEF OffIsLatched, Allowed, PlannedForToday, StayedOff
  <2> QED
    BY <2>4, <2>5, <2>6, <2>7 DEF IInv, Dated
<1> QED
  BY <1>2, <1>3

LEMMA NextInv == IInv /\ [Next]_vars => IInv' /\ Allowed
<1> SUFFICES ASSUME IInv, [Next]_vars PROVE IInv' /\ Allowed
  OBVIOUS
<1>1. CASE UNCHANGED vars
  BY <1>1 DEF vars, env, books, IInv, TypeOK, Dated, FlagDated, SunDated,
     ForecastDated, OffIsLatched, Allowed, PlannedForToday, StayedOff
<1>2. ASSUME NEW in \in Inputs,
             \/ InputEvent("Today", forecast, in) \/ InputEvent(sun, "Today", in)
             \/ InputEvent(sun, forecast, in)
      PROVE  IInv' /\ Allowed
  BY <1>2, InputKeeps
<1>3. CASE Next
  BY <1>2, <1>3, TickKeeps, KnobKeeps, RestartKeeps, WorldKeeps, ClockKeeps DEF Next
<1> QED
  BY <1>1, <1>3

\* The inductive invariant holds in every behaviour.
THEOREM Invariance == Spec => []IInv
BY InitInv, NextInv, PTL DEF Spec

\* The plan, the latches and the two schedules are well typed
\* (process.rs run_weather_soc and run_schedules).
THEOREM TypeCorrect == Spec => []TypeOK
<1>1. IInv => TypeOK
  BY DEF IInv
<1> QED
  BY <1>1, Invariance, PTL

\* The flag that keeps the extended window open was made on the same day
\* (process.rs 1142-1150, 2607-2609).
THEOREM FlagIsOfTheDay == Spec => []ExtendedRestsOnToday
<1>1. IInv => ExtendedRestsOnToday
  BY DEF IInv, Dated, FlagDated, ExtendedRestsOnToday
<1> QED
  BY <1>1, Invariance, PTL

\* A plan made in the extended window is for the sun of the same day
\* (process.rs 2396-2408).
THEOREM PlansRestOnTheDay == Spec => PlansAreForToday
<1>1. IInv /\ [Next]_vars => [PlannedForToday]_vars
  BY NextInv DEF Allowed
<1> QED
  BY <1>1, Invariance, PTL DEF Spec, PlansAreForToday

\* Once the target was reached schedule 1 stays off (schedules.rs 155-172).
THEOREM ReachedStaysOff == Spec => StaysOffOnceReached
<1>1. IInv /\ [Next]_vars => [StayedOff]_vars
  BY NextInv DEF Allowed
<1> QED
  BY <1>1, Invariance, PTL DEF Spec, StaysOffOnceReached

-----------------------------------------------------------------------------
(* ScheduleFeed.                                                           *)

\* Field by field, the accumulator or the envelope has what one schedule that
\* was on the device holds, and the other one nothing.
HalvesOf(v, f) ==
  \/ accumulator[f] = v[f] /\ envelope[f] = None
  \/ accumulator[f] = None /\ envelope[f] = v[f]

OneReply ==
  \/ accumulator = Empty /\ envelope = Empty
  \/ \E v \in contents : \A f \in Fields : HalvesOf(v, f)

Undisturbed ==
  /\ signals = <<>>
  /\ OneReply
  /\ \A i \in 1 .. Len(inbox) : inbox[i] \in contents
  /\ ConfirmedWasHeld

FeedInv ==
  /\ FeedTypeOK
  /\ device \in contents
  /\ outbox # <<>> => target.value # None
  /\ ~ disturbed => Undisturbed

Ready == 0 .. RetryAge

LEMMA Assumed ==
  /\ FieldOrder \in Seq(Fields) /\ Len(FieldOrder) \in Nat /\ Fields # {}
  /\ Specs \subseteq Values /\ None \notin Values
  /\ RetryAge \in Nat /\ 0 \in Ready /\ "ScheduleController" \in Owners
  /\ InboxCap \in Nat /\ SignalCap \in Nat /\ MaxFaults \in Nat
<1>1. FieldOrder \in Seq(Fields) /\ FieldOrder # <<>>
  BY ScheduleFeedAssumption
<1>2. 1 \in 1 .. Len(FieldOrder) /\ Len(FieldOrder) \in Nat
  BY <1>1
<1>3. Fields # {}
  BY <1>2 DEF Fields
<1> QED BY <1>1, <1>2, <1>3, ScheduleFeedAssumption DEF Ready

\* A schedule has a value in every field, and is determined by them.
LEMMA Schedules ==
  /\ \A v \in Values : \A f \in Fields : v[f] \in FieldValues(f) /\ v[f] # None
  /\ \A p \in Partials : Complete(p) => p \in Values
  /\ \A v \in Values : v \in Partials
  /\ \A v \in Values : \A p \in Partials : (\A f \in Fields : p[f] = v[f]) => p = v
  /\ Empty \in Partials
<1>1. /\ Values = {v \in [Fields -> AnyValue] : \A f \in Fields : v[f] \in FieldValues(f)}
      /\ None \notin AnyValue
  BY ScheduleFeedAssumption
<1>2. \A v \in Values : /\ v \in [Fields -> AnyValue]
                        /\ \A f \in Fields : v[f] \in FieldValues(f)
  BY <1>1
<1>3. \A v \in Values : \A f \in Fields : v[f] \in FieldValues(f) /\ v[f] # None
  BY <1>1, <1>2
<1>4. ASSUME NEW p \in Partials, Complete(p) PROVE p \in Values
  <2>1. /\ p \in [Fields -> AnyValue \union {None}]
        /\ \A f \in Fields : p[f] \in FieldValues(f)
    BY <1>4 DEF Partials, Complete
  <2>2. \A f \in Fields : p[f] \in AnyValue
    BY <2>1 DEF AnyValue
  <2>3. p \in [Fields -> AnyValue]
    BY <2>1, <2>2
  <2> QED BY <1>1, <2>1, <2>3
<1>5. \A v \in Values : v \in Partials
  BY <1>2 DEF Partials
<1>6. ASSUME NEW v \in Values, NEW p \in Partials, \A f \in Fields : p[f] = v[f]
      PROVE  p = v
  BY <1>2, <1>6 DEF Partials
<1>7. Empty \in Partials
  BY DEF Empty, Partials
<1> QED BY <1>3, <1>4, <1>5, <1>6, <1>7

\* The core's step: what it leaves typed, what is to be written has a value,
\* and a target is confirmed only if it was before.
LEMMA RunStep ==
  ASSUME FeedTypeOK, NEW t \in Targets(Ready), NEW a \in Actuals({0}),
         NEW live \in BOOLEAN, NEW w \in Specs \union {None},
         RunSchedules(t, a, live, w)
  PROVE  /\ target' \in Targets(Ready) /\ actual' \in Actuals({0})
         /\ writesEnabled' \in BOOLEAN /\ want' \in Specs \union {None}
         /\ outbox' \in Seq(Fields) /\ Len(outbox') <= Len(FieldOrder)
         /\ outbox' # <<>> => target'.value # None
         /\ target'.phase = "Confirmed" => target' = t
<1> DEFINE proposed == ProposeTarget(t, w, "ScheduleController")
           writes == Acts(t, w) /\ live
<1>1. /\ target' = IF ~ Acts(t, w) THEN t
                   ELSE IF live THEN MarkCommanded(proposed) ELSE proposed
      /\ actual' = IF writes THEN MarkCommandedActual(proposed, a) ELSE a
      /\ outbox' = IF writes THEN FieldOrder ELSE <<>>
      /\ writesEnabled' = live /\ want' = w
  BY DEF RunSchedules
<1>2. actual' \in Actuals({0})
  BY <1>1 DEF MarkCommandedActual, Deprecate, Actuals, Freshnesses
<1>3. outbox' \in Seq(Fields) /\ Len(outbox') <= Len(FieldOrder)
  <2>1. <<>> \in Seq(Fields) /\ Len(<<>>) = 0
    OBVIOUS
  <2> QED BY <1>1, <2>1, Assumed
<1>4. CASE ~ Acts(t, w)
  <2>1. target' = t /\ outbox' = <<>>
    BY <1>1, <1>4
  <2> QED BY <1>1, <1>2, <1>3, <2>1
<1>5. CASE Acts(t, w)
  <2>1. w # None /\ w \in Values
    BY <1>5, Assumed DEF Acts
  <2>2. /\ proposed \in Targets(Ready)
        /\ proposed.value # None
        /\ Outstanding(proposed)
    <3>1. CASE ProposeChanges(t, w, "ScheduleController")
      <4>1. proposed = [value |-> w, owner |-> "ScheduleController",
                        phase |-> "Pending", age |-> 0]
        BY <3>1 DEF ProposeTarget
      <4> QED BY <2>1, <4>1, Assumed DEF Targets, Phases, Outstanding
    <3>2. CASE ~ ProposeChanges(t, w, "ScheduleController")
      <4>1. proposed = t /\ t.value = w
        BY <3>2 DEF ProposeTarget, ProposeChanges
      <4>2. Outstanding(t)
        BY <1>5, <3>2 DEF Acts, NeedsActuation
      <4> QED BY <2>1, <4>1, <4>2
    <3> QED BY <3>1, <3>2
  <2> HIDE DEF proposed
  <2>3. /\ MarkCommanded(proposed) \in Targets(Ready)
        /\ MarkCommanded(proposed).value = proposed.value
        /\ MarkCommanded(proposed).phase = "Commanded"
    BY <2>2, Assumed DEF MarkCommanded, Targets, Phases
  <2>4. target' \in {proposed, MarkCommanded(proposed)}
    BY <1>1, <1>5
  <2>5. target'.phase # "Confirmed"
    BY <2>2, <2>3, <2>4 DEF Outstanding
  <2> QED BY <1>1, <1>2, <1>3, <2>2, <2>3, <2>4, <2>5
<1> QED BY <1>4, <1>5

-----------------------------------------------------------------------------
(* The invariant of ScheduleFeed, step by step.                            *)

LEMMA FeedInitial == FeedInit => FeedInv
<1> SUFFICES ASSUME FeedInit PROVE FeedInv
  OBVIOUS
<1>1. target \in Targets(Ready) /\ target.phase # "Confirmed"
  BY Assumed DEF FeedInit, UnsetTarget, Targets, Phases
<1>2. actual \in Actuals({0})
  BY DEF FeedInit, UnknownActual, Actuals, Freshnesses
<1>3. device \in Values /\ contents = {device}
  BY DEF FeedInit, Stored
<1>4. accumulator \in Partials /\ ~ Complete(accumulator) /\ envelope \in Partials
  <2>1. accumulator = Empty /\ envelope = Empty /\ Fields # {}
    BY Assumed DEF FeedInit
  <2> QED BY <2>1, Schedules DEF Complete, Empty
<1>5. /\ outbox = <<>> /\ signals = <<>> /\ inbox = <<>>
      /\ outbox \in Seq(Fields) /\ signals \in Seq(Partials) /\ inbox \in Seq(Values)
  BY DEF FeedInit
<1>6. Len(outbox) <= Len(FieldOrder) /\ Len(signals) <= SignalCap /\ Len(inbox) <= InboxCap
  BY <1>5, Assumed
<1>7. faults \in 0 .. MaxFaults
  BY Assumed DEF FeedInit
<1>8. FeedTypeOK
  BY <1>1, <1>2, <1>3, <1>4, <1>5, <1>6, <1>7 DEF FeedInit, FeedTypeOK, Ready
<1>9. Undisturbed
  BY <1>1, <1>5 DEF FeedInit, Undisturbed, OneReply, ConfirmedWasHeld
<1> QED BY <1>3, <1>5, <1>8, <1>9 DEF FeedInv

\* The parts of the state a handler of the core leaves alone.
LEMMA EventKeepsFeed ==
  ASSUME FeedInv, NEW t \in Targets(Ready), NEW a \in Actuals({0}),
         NEW live \in BOOLEAN, NEW w \in Specs \union {None},
         RunSchedules(t, a, live, w),
         UNCHANGED <<device, feed, faults, history>>,
         inbox' \in Seq(Values), Len(inbox') <= InboxCap,
         ~ disturbed => /\ \A i \in 1 .. Len(inbox') : inbox'[i] \in contents
                        /\ t.phase = "Confirmed" => t.value \in contents
  PROVE  FeedInv'
<1>1. /\ target' \in Targets(Ready) /\ actual' \in Actuals({0})
      /\ writesEnabled' \in BOOLEAN /\ want' \in Specs \union {None}
      /\ outbox' \in Seq(Fields) /\ Len(outbox') <= Len(FieldOrder)
      /\ outbox' # <<>> => target'.value # None
      /\ target'.phase = "Confirmed" => target' = t
  BY RunStep DEF FeedInv
<1>2. UNCHANGED <<device, accumulator, envelope, signals, faults, disturbed, contents>>
  BY DEF feed, history
<1>3. FeedTypeOK'
  BY <1>1, <1>2 DEF FeedInv, FeedTypeOK, Ready
<1>4. ~ disturbed => Undisturbed'
  <2> SUFFICES ASSUME ~ disturbed PROVE Undisturbed'
    OBVIOUS
  <2>1. signals = <<>> /\ OneReply
    BY DEF FeedInv, Undisturbed
  <2>2. OneReply'
    BY <1>2, <2>1 DEF OneReply, HalvesOf
  <2>3. ConfirmedWasHeld'
    BY <1>1, <1>2 DEF ConfirmedWasHeld
  <2> QED BY <1>2, <2>1, <2>2, <2>3 DEF Undisturbed
<1> QED BY <1>1, <1>2, <1>3, <1>4 DEF FeedInv

LEMMA TargetFacts ==
  ASSUME FeedInv
  PROVE  /\ target \in Targets(Ready) /\ actual \in Actuals({0})
         /\ writesEnabled \in BOOLEAN /\ want \in Specs \union {None}
         /\ inbox \in Seq(Values) /\ Len(inbox) \in Nat /\ Len(inbox) <= InboxCap
         /\ ~ disturbed => /\ \A i \in 1 .. Len(inbox) : inbox[i] \in contents
                           /\ target.phase = "Confirmed" => target.value \in contents
<1>1. inbox \in Seq(Values)
  BY DEF FeedInv, FeedTypeOK
<1> QED BY <1>1 DEF FeedInv, FeedTypeOK, Ready, Undisturbed, ConfirmedWasHeld

\* A readback confirms only a target equal to it, so only one that was held.
LEMMA ReadbackKeeps == FeedInv /\ ReadbackEvent => FeedInv'
<1> SUFFICES ASSUME FeedInv, ReadbackEvent PROVE FeedInv'
  OBVIOUS
<1> DEFINE a == OnReading(Head(inbox), 0)
           t == ConfirmIf(target, a, target.value = a.value, 0)
<1>1. /\ inbox # <<>> /\ inbox' = Tail(inbox)
      /\ RunSchedules(t, a, writesEnabled, want)
      /\ UNCHANGED <<device, feed, faults, history>>
  BY DEF ReadbackEvent
<1>2. /\ Head(inbox) \in Values /\ Head(inbox) = inbox[1] /\ 1 \in 1 .. Len(inbox)
      /\ Tail(inbox) \in Seq(Values) /\ Len(Tail(inbox)) = Len(inbox) - 1
      /\ \A i \in 1 .. Len(Tail(inbox)) : Tail(inbox)[i] = inbox[i + 1]
  BY <1>1, TargetFacts, HeadTailProperties
<1>3. a \in Actuals({0})
  BY <1>2 DEF OnReading, Actuals, Freshnesses
<1>4. t \in Targets(Ready)
  BY TargetFacts, Assumed DEF ConfirmIf, Outstanding, Targets, Phases
<1>5. ~ disturbed => (t.phase = "Confirmed" => t.value \in contents)
  <2>1. a.value = inbox[1]
    BY <1>2 DEF OnReading
  <2>2. t = target \/ t.value = a.value
    <3>1. \/ t = target
          \/ /\ target.value = a.value
             /\ t = [value |-> target.value, owner |-> target.owner,
                     phase |-> "Confirmed", age |-> 0]
      BY DEF ConfirmIf
    <3> QED BY <3>1
  <2> HIDE DEF a, t
  <2> QED BY <1>2, <2>1, <2>2, TargetFacts
<1>6. ~ disturbed => \A i \in 1 .. Len(inbox') : inbox'[i] \in contents
  <2>1. ASSUME NEW i \in 1 .. Len(Tail(inbox)) PROVE i + 1 \in 1 .. Len(inbox)
    BY <1>2, TargetFacts
  <2> QED BY <1>1, <1>2, <2>1, TargetFacts
<1>7. inbox' \in Seq(Values) /\ Len(inbox') <= InboxCap
  BY <1>1, <1>2, TargetFacts, Assumed
<1> HIDE DEF a, t
<1> QED BY <1>1, <1>3, <1>4, <1>5, <1>6, <1>7, TargetFacts, EventKeepsFeed

LEMMA CoreKeeps ==
  ASSUME FeedInv,
         \/ TickEvent
         \/ \E w \in Specs : GoalEvent(w)
         \/ \E live \in BOOLEAN : KillSwitchEvent(live)
  PROVE  FeedInv'
<1>1. CASE TickEvent
  BY <1>1, TargetFacts, EventKeepsFeed DEF TickEvent
<1>2. CASE \E w \in Specs : GoalEvent(w)
  BY <1>2, TargetFacts, EventKeepsFeed DEF GoalEvent
<1>3. ASSUME NEW live \in BOOLEAN, KillSwitchEvent(live) PROVE FeedInv'
  <2> DEFINE t == IF ~ writesEnabled /\ live THEN UnsetTarget ELSE target
  <2>1. /\ RunSchedules(t, actual, live, want)
        /\ UNCHANGED <<device, feed, inbox, faults, history>>
    BY <1>3 DEF KillSwitchEvent
  <2>2. t \in Targets(Ready) /\ (t.phase = "Confirmed" => t = target)
    BY TargetFacts, Assumed DEF UnsetTarget, Targets, Phases
  <2> HIDE DEF t
  <2> QED BY <2>1, <2>2, TargetFacts, EventKeepsFeed
<1> QED BY <1>1, <1>2, <1>3

\* The writer: the schedule on the device is made of the fields of schedules.
LEMMA WriterKeeps ==
  ASSUME FeedInv, Elapse \/ WriteField \/ WriteLost
  PROVE  FeedInv'
<1>1. /\ outbox \in Seq(Fields) /\ Len(outbox) \in Nat /\ Len(outbox) <= Len(FieldOrder)
      /\ device \in Values /\ contents \subseteq Values /\ target \in Targets(Ready)
  <2>1. outbox \in Seq(Fields)
    BY DEF FeedInv, FeedTypeOK
  <2> QED BY <2>1, TargetFacts DEF FeedInv, FeedTypeOK
<1>2. ASSUME outbox # <<>>, outbox' = Tail(outbox)
      PROVE  /\ outbox' \in Seq(Fields) /\ Len(outbox') <= Len(FieldOrder)
             /\ Head(outbox) \in Fields
  <2>1. /\ Head(outbox) \in Fields /\ Tail(outbox) \in Seq(Fields)
        /\ Len(Tail(outbox)) = Len(outbox) - 1
    BY <1>1, <1>2, HeadTailProperties
  <2> QED BY <1>1, <1>2, <2>1, Assumed
<1>3. ASSUME UNCHANGED <<accumulator, envelope, signals, inbox, disturbed>>,
             contents \subseteq contents', target'.value = target.value,
             target'.phase = target.phase, ~ disturbed
      PROVE  Undisturbed'
  <2>1. /\ signals = <<>> /\ OneReply /\ ConfirmedWasHeld
        /\ \A i \in 1 .. Len(inbox) : inbox[i] \in contents
    BY <1>3 DEF FeedInv, Undisturbed
  <2>2. OneReply'
    BY <1>3, <2>1 DEF OneReply, HalvesOf
  <2> QED BY <1>3, <2>1, <2>2 DEF Undisturbed, ConfirmedWasHeld
<1>4. CASE Elapse
  <2>1. /\ target' = Older(target, RetryAge)
        /\ UNCHANGED <<actual, writesEnabled, want, outbox, device, accumulator,
                       envelope, signals, inbox, faults, disturbed, contents>>
    BY <1>4 DEF Elapse, feed, history
  <2>2. /\ target' \in Targets(Ready)
        /\ target'.value = target.value /\ target'.phase = target.phase
    <3> DEFINE age == IF target.age < RetryAge THEN target.age + 1 ELSE RetryAge
    <3>1. target' = [target EXCEPT !.age = age]
      BY <2>1 DEF Older
    <3>2. age \in Ready
      BY <1>1, Assumed DEF Targets, Ready
    <3> HIDE DEF age
    <3> QED BY <1>1, <3>1, <3>2 DEF Targets
  <2>3. FeedTypeOK'
    BY <2>1, <2>2 DEF FeedInv, FeedTypeOK, Ready
  <2> QED BY <1>3, <2>1, <2>2, <2>3 DEF FeedInv
<1>5. CASE WriteField
  <2> DEFINE f == Head(outbox)
  <2>1. /\ outbox # <<>> /\ outbox' = Tail(outbox)
        /\ device' = [device EXCEPT ![f] = OnWire(f, target.value[f])]
        /\ contents' = contents \union {device'}
        /\ UNCHANGED <<target, actual, writesEnabled, want, accumulator, envelope,
                       signals, inbox, faults, disturbed>>
    BY <1>5 DEF WriteField, core, feed
  <2>2. f \in Fields /\ target.value \in Values
    BY <1>1, <1>2, <2>1 DEF FeedInv, Targets
  <2> HIDE DEF f
  <2>3. device' \in Values
    <3>1. Values = {v \in [Fields -> AnyValue] : \A g \in Fields : v[g] \in FieldValues(g)}
      BY ScheduleFeedAssumption
    <3>2. /\ device \in [Fields -> AnyValue] /\ target.value \in [Fields -> AnyValue]
          /\ \A g \in Fields : device[g] \in FieldValues(g)
          /\ OnWire(f, target.value[f]) \in FieldValues(f)
          /\ OnWire(f, target.value[f]) \in AnyValue
      <4>1. /\ device \in [Fields -> AnyValue] /\ target.value \in [Fields -> AnyValue]
            /\ \A g \in Fields : device[g] \in FieldValues(g)
            /\ target.value[f] \in FieldValues(f)
        BY <1>1, <2>2, <3>1
      <4>2. OnWire(f, target.value[f]) \in FieldValues(f)
        BY <2>2, <4>1, ScheduleFeedAssumption
      <4> QED BY <2>2, <4>1, <4>2 DEF AnyValue
    <3>3. device' \in [Fields -> AnyValue]
      BY <2>1, <2>2, <3>2
    <3>4. \A g \in Fields : device'[g] \in FieldValues(g)
      BY <2>1, <2>2, <3>2
    <3> QED BY <3>1, <3>3, <3>4
  <2>4. FeedTypeOK'
    BY <1>1, <1>2, <2>1, <2>3 DEF FeedInv, FeedTypeOK
  <2> QED BY <1>3, <2>1, <2>4 DEF FeedInv
<1>6. CASE WriteLost
  <2>1. /\ outbox # <<>> /\ outbox' = Tail(outbox)
        /\ faults < MaxFaults /\ faults' = faults + 1
        /\ UNCHANGED <<target, actual, writesEnabled, want, device, accumulator,
                       envelope, signals, inbox, disturbed, contents>>
    BY <1>6 DEF WriteLost, core, feed, history
  <2>2. faults' \in 0 .. MaxFaults
    BY <2>1, Assumed DEF FeedInv, FeedTypeOK
  <2>3. FeedTypeOK'
    BY <1>1, <1>2, <2>1, <2>2 DEF FeedInv, FeedTypeOK
  <2> QED BY <1>3, <2>1, <2>3 DEF FeedInv
<1> QED BY <1>4, <1>5, <1>6

\* A disturbance leaves the types only.
LEMMA DisturbanceKeeps ==
  ASSUME FeedInv, (\E v \in Stored : ForeignChange(v)) \/ SessionEnds
  PROVE  FeedInv'
<1>1. faults < MaxFaults /\ faults' = faults + 1 => faults' \in 0 .. MaxFaults
  BY Assumed DEF FeedInv, FeedTypeOK
<1>2. ASSUME NEW v \in Stored, ForeignChange(v) PROVE FeedInv'
  <2> DEFINE signal == [f \in Fields |-> IF v[f] = device[f] THEN None ELSE v[f]]
  <2>1. /\ faults < MaxFaults /\ faults' = faults + 1 /\ disturbed' = TRUE
        /\ device' = v /\ contents' = contents \union {v}
        /\ Len(signals) < SignalCap /\ signals' = Append(signals, signal)
        /\ UNCHANGED <<target, actual, writesEnabled, want, outbox, accumulator,
                       envelope, inbox>>
    BY <1>2 DEF ForeignChange, core
  <2> v \in Values
    BY DEF Stored
  <2>2. signal \in Partials
    <3>1. \A f \in Fields : v[f] \in FieldValues(f) /\ v[f] \in AnyValue
      BY Schedules DEF AnyValue
    <3> QED BY <3>1 DEF Partials
  <2> HIDE DEF signal
  <2>3. signals' \in Seq(Partials) /\ Len(signals') <= SignalCap
    <3>1. signals \in Seq(Partials)
      BY DEF FeedInv, FeedTypeOK
    <3>2. signals' \in Seq(Partials) /\ Len(signals') = Len(signals) + 1
      BY <2>1, <2>2, <3>1, AppendProperties
    <3> QED BY <2>1, <3>1, <3>2, Assumed
  <2>4. FeedTypeOK'
    BY <1>1, <2>1, <2>3 DEF FeedInv, FeedTypeOK
  <2> QED BY <2>1, <2>4 DEF FeedInv
<1>3. CASE SessionEnds
  <2>1. /\ faults < MaxFaults /\ faults' = faults + 1 /\ disturbed' = TRUE
        /\ envelope' = Empty /\ signals' = <<>>
        /\ UNCHANGED <<target, actual, writesEnabled, want, outbox, device,
                       accumulator, inbox, contents>>
    BY <1>3 DEF SessionEnds, core
  <2>2. signals' \in Seq(Partials) /\ Len(signals') <= SignalCap
    BY <2>1, Assumed
  <2>3. envelope' \in Partials
    BY <2>1, Schedules
  <2>4. FeedTypeOK'
    BY <1>1, <2>1, <2>2, <2>3 DEF FeedInv, FeedTypeOK
  <2> QED BY <2>1, <2>4 DEF FeedInv
<1> QED BY <1>2, <1>3

\* A new message is taken when the last one is routed: undisturbed, a reply,
\* with the accumulator empty.
LEMMA MessageKeeps ==
  ASSUME FeedInv, Reseed \/ TakeSignal
  PROVE  FeedInv'
<1>1. CASE Reseed
  <2>1. /\ envelope = Empty /\ envelope' = device
        /\ UNCHANGED <<target, actual, writesEnabled, want, outbox, device,
                       accumulator, signals, inbox, faults, disturbed, contents>>
    BY <1>1 DEF Reseed, core, history
  <2>2. device \in Values /\ device \in contents /\ device \in Partials
    BY Schedules DEF FeedInv, FeedTypeOK
  <2>3. FeedTypeOK'
    BY <2>1, <2>2 DEF FeedInv, FeedTypeOK
  <2>4. ASSUME ~ disturbed PROVE Undisturbed'
    <3>1. /\ signals = <<>> /\ OneReply /\ ConfirmedWasHeld
          /\ \A i \in 1 .. Len(inbox) : inbox[i] \in contents
      BY <2>4 DEF FeedInv, Undisturbed
    <3>2. /\ ~ Complete(accumulator) /\ contents \subseteq Values
          /\ \A f \in Fields : envelope[f] = None
      BY <2>1 DEF FeedInv, FeedTypeOK, Empty
    <3>3. accumulator = Empty
      <4> SUFFICES ASSUME accumulator # Empty PROVE FALSE
        OBVIOUS
      <4>1. PICK v \in contents : \A f \in Fields : HalvesOf(v, f)
        BY <3>1 DEF OneReply
      <4>2. \A f \in Fields : v[f] # None
        BY <3>2, Schedules
      <4>3. \A f \in Fields : accumulator[f] # None
        BY <3>2, <4>1, <4>2 DEF HalvesOf
      <4> QED BY <3>2, <4>3 DEF Complete
    <3>4. OneReply'
      <4>1. \A f \in Fields : accumulator'[f] = None /\ envelope'[f] = device[f]
        BY <2>1, <3>3 DEF Empty
      <4> QED BY <2>1, <2>2, <4>1 DEF OneReply, HalvesOf
    <3> QED BY <2>1, <3>1, <3>4 DEF Undisturbed, ConfirmedWasHeld
  <2> QED BY <2>1, <2>3, <2>4 DEF FeedInv
<1>2. CASE TakeSignal
  <2>1. /\ signals # <<>> /\ envelope' = Head(signals) /\ signals' = Tail(signals)
        /\ UNCHANGED <<target, actual, writesEnabled, want, outbox, device,
                       accumulator, inbox, faults, disturbed, contents>>
    BY <1>2 DEF TakeSignal, core, history
  <2>2. signals \in Seq(Partials) /\ Len(signals) <= SignalCap /\ Len(signals) \in Nat
    <3>1. signals \in Seq(Partials) /\ Len(signals) <= SignalCap
      BY DEF FeedInv, FeedTypeOK
    <3> QED BY <3>1
  <2>3. /\ envelope' \in Partials /\ signals' \in Seq(Partials)
        /\ Len(signals') = Len(signals) - 1
    BY <2>1, <2>2, HeadTailProperties
  <2>4. Len(signals') <= SignalCap
    BY <2>2, <2>3, Assumed
  <2>5. FeedTypeOK'
    BY <2>1, <2>3, <2>4 DEF FeedInv, FeedTypeOK
  <2>6. disturbed
    BY <2>1 DEF FeedInv, Undisturbed
  <2> QED BY <2>1, <2>5, <2>6 DEF FeedInv
<1> QED BY <1>1, <1>2

\* One field goes over from the envelope to the accumulator; with the last one
\* the accumulator is the schedule the reply came from.
LEMMA RouteKeeps ==
  ASSUME FeedInv, NEW f \in Fields, RouteField(f)
  PROVE  FeedInv'
<1> DEFINE filled == [accumulator EXCEPT ![f] = envelope[f]]
<1>1. /\ envelope[f] # None /\ Len(inbox) < InboxCap
      /\ IF Complete(filled)
         THEN accumulator' = Empty /\ inbox' = Append(inbox, filled)
         ELSE accumulator' = filled /\ UNCHANGED inbox
      /\ envelope' = [envelope EXCEPT ![f] = None]
      /\ UNCHANGED <<target, actual, writesEnabled, want, outbox, device, signals,
                     faults, disturbed, contents>>
  BY DEF RouteField, core, history
<1>2. /\ accumulator \in Partials /\ envelope \in Partials
      /\ inbox \in Seq(Values) /\ Len(inbox) \in Nat /\ contents \subseteq Values
  BY TargetFacts DEF FeedInv, FeedTypeOK
<1>3. /\ filled \in Partials /\ envelope' \in Partials
      /\ \A g \in Fields : filled[g] = IF g = f THEN envelope[f] ELSE accumulator[g]
      /\ \A g \in Fields : envelope'[g] = IF g = f THEN None ELSE envelope[g]
  BY <1>1, <1>2 DEF Partials
<1> HIDE DEF filled
<1>4. ASSUME ~ disturbed
      PROVE  /\ Complete(filled) => filled \in contents
             /\ OneReply'
  <2>1. ~ (accumulator = Empty /\ envelope = Empty)
    BY <1>1 DEF Empty
  <2>2. PICK v \in contents : \A g \in Fields : HalvesOf(v, g)
    BY <1>4, <2>1 DEF FeedInv, Undisturbed, OneReply
  <2>3. v \in Values /\ \A g \in Fields : v[g] # None
    BY <1>2, Schedules
  <2>4. envelope[f] = v[f] /\ accumulator[f] = None
    BY <1>1, <2>2 DEF HalvesOf
  <2>5. CASE Complete(filled)
    <3>1. \A g \in Fields : g # f => accumulator[g] # None
      BY <1>3, <2>5 DEF Complete
    <3>2. \A g \in Fields : g # f => accumulator[g] = v[g] /\ envelope[g] = None
      BY <2>2, <3>1 DEF HalvesOf
    <3>3. filled = v
      <4>1. \A g \in Fields : filled[g] = v[g]
        BY <1>3, <2>4, <3>2
      <4> QED BY <1>3, <2>3, <4>1, Schedules
    <3>4. envelope' = Empty
      <4>1. \A g \in Fields : envelope'[g] = None
        BY <1>3, <3>2
      <4> QED BY <1>3, <4>1 DEF Empty, Partials
    <3> QED BY <1>1, <2>5, <3>3, <3>4 DEF OneReply
  <2>6. CASE ~ Complete(filled)
    <3>1. \A g \in Fields : HalvesOf(v, g)'
      <4> SUFFICES ASSUME NEW g \in Fields
                   PROVE  \/ filled[g] = v[g] /\ envelope'[g] = None
                          \/ filled[g] = None /\ envelope'[g] = v[g]
        BY <1>1, <2>6 DEF HalvesOf
      <4>1. CASE g = f
        BY <1>3, <2>4, <4>1
      <4>2. CASE g # f
        BY <1>3, <2>2, <4>2 DEF HalvesOf
      <4> QED BY <4>1, <4>2
    <3> QED BY <1>1, <2>6, <3>1 DEF OneReply
  <2> QED BY <2>5, <2>6
<1>5. CASE Complete(filled)
  <2>1. filled \in Values
    BY <1>3, <1>5, Schedules
  <2>2. /\ inbox' \in Seq(Values) /\ Len(inbox') = Len(inbox) + 1
        /\ inbox'[Len(inbox) + 1] = filled
        /\ \A i \in 1 .. Len(inbox) : inbox'[i] = inbox[i]
    BY <1>1, <1>2, <1>5, <2>1, AppendProperties
  <2>3. Len(inbox') <= InboxCap
    BY <1>1, <1>2, <2>2, Assumed
  <2>4. accumulator' \in Partials /\ ~ Complete(accumulator')
    <3>1. accumulator' = Empty /\ Fields # {}
      BY <1>1, <1>5, Assumed
    <3> QED BY <3>1, Schedules DEF Complete, Empty
  <2>5. FeedTypeOK'
    BY <1>1, <1>3, <2>2, <2>3, <2>4 DEF FeedInv, FeedTypeOK
  <2>6. ASSUME ~ disturbed PROVE Undisturbed'
    <3>1. \A i \in 1 .. Len(inbox') : inbox'[i] \in contents
      <4>1. \A i \in 1 .. Len(inbox) : inbox[i] \in contents
        BY <2>6, TargetFacts
      <4>2. filled \in contents
        BY <1>4, <1>5, <2>6
      <4> QED BY <1>2, <2>2, <4>1, <4>2
    <3> QED BY <1>1, <1>4, <2>6, <3>1 DEF FeedInv, Undisturbed, ConfirmedWasHeld
  <2> QED BY <1>1, <2>5, <2>6 DEF FeedInv
<1>6. CASE ~ Complete(filled)
  <2>1. accumulator' = filled /\ inbox' = inbox
    BY <1>1, <1>6
  <2>2. FeedTypeOK'
    BY <1>1, <1>3, <1>6, <2>1 DEF FeedInv, FeedTypeOK
  <2>3. ~ disturbed => Undisturbed'
    BY <1>1, <1>4, <2>1 DEF FeedInv, Undisturbed, ConfirmedWasHeld
  <2> QED BY <1>1, <2>2, <2>3 DEF FeedInv
<1> QED BY <1>5, <1>6

LEMMA FeedNextKeeps == FeedInv /\ [FeedNext]_feedVars => FeedInv'
<1> SUFFICES ASSUME FeedInv, [FeedNext]_feedVars PROVE FeedInv'
  OBVIOUS
<1>1. CASE UNCHANGED feedVars
  <2>1. UNCHANGED <<target, actual, writesEnabled, want, outbox, device, accumulator,
                    envelope, signals, inbox, faults, disturbed, contents>>
    BY <1>1 DEF feedVars, core, feed, history
  <2>2. FeedTypeOK'
    BY <2>1 DEF FeedInv, FeedTypeOK
  <2>3. ~ disturbed => Undisturbed'
    BY <2>1 DEF FeedInv, Undisturbed, OneReply, HalvesOf, ConfirmedWasHeld
  <2> QED BY <2>1, <2>2, <2>3 DEF FeedInv
<1>2. CASE FeedNext
  BY <1>2, CoreKeeps, ReadbackKeeps, WriterKeeps, DisturbanceKeeps, MessageKeeps,
     RouteKeeps DEF FeedNext
<1> QED BY <1>1, <1>2

THEOREM FeedInvariance == FeedSpec => []FeedInv
<1> QED BY FeedInitial, FeedNextKeeps, PTL DEF FeedSpec

\* Every reachable state of the feed is well typed: the accumulator is never
\* left complete, and what comes out of it is a schedule.
THEOREM FeedTypeCorrect == FeedSpec => []FeedTypeOK
<1>1. FeedInv => FeedTypeOK
  BY DEF FeedInv
<1> QED BY <1>1, FeedInvariance, PTL

\* While nobody else has written and no session has ended inside a message, a
\* readback is a schedule the device has held, for any number of fields, of
\* values and of writes lost.
THEOREM ReadbacksWereHeld == FeedSpec => []ReadbackWasHeld
<1>1. FeedInv => ReadbackWasHeld
  BY DEF FeedInv, Undisturbed, ReadbackWasHeld
<1> QED BY <1>1, FeedInvariance, PTL

\* Then no confirmation outruns the writes of its fields: a confirmed schedule
\* has been on the device as a whole.
THEOREM ConfirmedOnlyAfterWrites == FeedSpec => []ConfirmedAfterWrites
<1>1. FeedInv => ConfirmedAfterWrites
  BY DEF FeedInv, Undisturbed, ConfirmedAfterWrites
<1> QED BY <1>1, FeedInvariance, PTL
=============================================================================
