------------------------------ MODULE LoadProofs ------------------------------
(***************************************************************************)
(* Theorems about the two components that steer the loads of the house:    *)
(* CurrentLimit, for any breaker, floor, margin, dead-band, unit and set   *)
(* of scenes that CurrentLimitAssumption admits; and Eddi, for any retry   *)
(* and dwell time, time-out and number of calls in flight.                 *)
(***************************************************************************)
EXTENDS CurrentLimit, Eddi, SequenceTheorems, TLAPS

-----------------------------------------------------------------------------
(* CurrentLimit: lemmas about the law.                                     *)

\* The relaxation is a whole number, and nothing once the breaker is full.
LEMMA UnderuseBound ==
  ASSUME NEW r \in AllReadings
  PROVE  /\ Underuse(r) \in Nat
         /\ r.grid >= MaxGrid => Underuse(r) = 0
<1> DEFINE k == (-(MaxGrid - r.grid)) \div Ampere
<1>1. r.grid \in Int /\ MaxGrid \in Int /\ Ampere \in Int /\ Ampere > 0
  BY CurrentLimitAssumption DEF AllReadings
<1>2. k \in Int
  BY <1>1
<1>3. r.grid >= MaxGrid => k >= 0
  BY <1>1
<1> HIDE DEF k
<1>4. k * Ampere \in Int
  BY <1>1, <1>2
<1>5. k >= 0 => k * Ampere >= 0
  BY <1>1, <1>2
<1>6. Ceil(MaxGrid - r.grid) = - (k * Ampere)
  BY <1>1, <1>2 DEF Ceil, k
<1> QED
  BY <1>3, <1>4, <1>5, <1>6 DEF Underuse, Higher

\* What a scene and a reading are made of.
LEMMA SceneType ==
  ASSUME NEW s \in Scenes
  PROVE  /\ s.target \in Nat /\ s.pv \in Nat /\ s.house \in Nat /\ s.car \in Nat
         /\ s.offgrid \in Nat /\ s.demand \in Nat
         /\ MinSystem + s.target <= MaxGrid
BY CurrentLimitAssumption DEF AllScenes

\* The fitted limit lies between the floor and the breaker; once the breaker is
\* full it leaves room for what is committed.
LEMMA FitBound ==
  ASSUME NEW s \in Scenes, NEW r \in AllReadings
  PROVE  /\ Fit(s, r) \in Int
         /\ r.grid >= MaxGrid /\ Committed(s, r) + MinSystem <= MaxGrid =>
              Committed(s, r) + Fit(s, r) <= MaxGrid
<1>1. /\ MaxGrid \in Int /\ MinSystem \in Int /\ Margin \in Nat
      /\ s.target \in Nat /\ MinSystem <= MaxGrid - s.target
      /\ MinSystem <= MaxGrid
  BY SceneType, CurrentLimitAssumption
<1>2. r.consumption \in Int /\ r.offgrid \in Int /\ r.car \in Int
  BY DEF AllReadings
<1> DEFINE u == Underuse(r)
           g == Gridside(r)
<1>3. u \in Int /\ g \in Int /\ (r.grid >= MaxGrid => u = 0)
  BY <1>2, UnderuseBound DEF Gridside
<1> HIDE DEF u, g
<1>4. CASE CarCounts(s, r)
  <2> DEFINE m == IF Ramping(s, r) THEN Margin ELSE 0
             x == MaxGrid - (g - r.car) - s.target - m + u
  <2>1. m \in Nat
    BY <1>1
  <2> HIDE DEF m
  <2>2. Fit(s, r) = Between(MinSystem, x, MaxGrid - s.target)
    BY <1>4 DEF Fit, m, u, g
  <2>3. Committed(s, r) = g - r.car + s.target
    BY <1>4 DEF Committed, ForCar, g
  <2>4. x \in Int /\ MaxGrid - s.target \in Int
    BY <1>1, <1>2, <1>3, <2>1
  <2>5. r.grid >= MaxGrid => x <= MaxGrid - (g - r.car + s.target)
    BY <1>1, <1>2, <1>3, <2>1
  <2> HIDE DEF x
  <2>6. /\ Fit(s, r) \in Int
        /\ x <= MinSystem => Fit(s, r) = MinSystem
        /\ MinSystem <= x => Fit(s, r) <= x
    BY <1>1, <2>2, <2>4 DEF Between, Higher, Lower
  <2> QED
    BY <1>1, <1>2, <1>3, <2>3, <2>4, <2>5, <2>6
<1>5. CASE ~ CarCounts(s, r)
  <2> DEFINE x == MaxGrid - g + u
  <2>1. Fit(s, r) = Between(MinSystem, x, MaxGrid)
    BY <1>5 DEF Fit, u, g
  <2>2. Committed(s, r) = g - r.car + r.car
    BY <1>5 DEF Committed, ForCar, g
  <2>3. x \in Int /\ (r.grid >= MaxGrid => x <= MaxGrid - g)
    BY <1>1, <1>3
  <2> HIDE DEF x
  <2>4. /\ Fit(s, r) \in Int
        /\ x <= MinSystem => Fit(s, r) = MinSystem
        /\ MinSystem <= x => Fit(s, r) <= x
    BY <1>1, <2>1, <2>3 DEF Between, Higher, Lower
  <2> QED
    BY <1>1, <1>2, <1>3, <2>2, <2>3, <2>4
<1> QED BY <1>4, <1>5

\* The limit is one the register takes; with the breaker full while the battery
\* is charged, it leaves room for what is committed.
LEMMA EvaluateBound ==
  ASSUME NEW s \in Scenes, NEW r \in AllReadings
  PROVE  /\ Evaluate(s, r) \in 0 .. MaxGrid
         /\ /\ s.window = "Charge" /\ r.battery
            /\ r.grid >= MaxGrid /\ Committed(s, r) + MinSystem <= MaxGrid
            => Committed(s, r) + Evaluate(s, r) <= MaxGrid
<1>1. MaxGrid \in Nat /\ MinSystem \in Nat
  BY CurrentLimitAssumption
<1>2. Fit(s, r) \in Int
  BY FitBound
<1>3. Branch(s, r) \in Int
  BY <1>1, <1>2, SceneType DEF Branch, AllReadings
<1>4. /\ Evaluate(s, r) \in 0 .. MaxGrid
      /\ Branch(s, r) <= 0 => Evaluate(s, r) = 0
      /\ 0 <= Branch(s, r) => Evaluate(s, r) <= Branch(s, r)
  BY <1>1, <1>3 DEF Evaluate, Between, Higher, Lower
<1>5. Committed(s, r) \in Int
  BY SceneType DEF Committed, ForCar, Gridside, AllReadings
<1>6. ASSUME s.window = "Charge", r.battery, r.grid >= MaxGrid,
             Committed(s, r) + MinSystem <= MaxGrid
      PROVE  Committed(s, r) + Evaluate(s, r) <= MaxGrid
  <2>1. Branch(s, r) = Fit(s, r)
    BY <1>6 DEF Branch
  <2>2. Committed(s, r) + Fit(s, r) <= MaxGrid
    BY <1>6, FitBound
  <2> QED BY <1>1, <1>2, <1>4, <1>5, <1>6, <2>1, <2>2
<1> QED BY <1>4, <1>6

-----------------------------------------------------------------------------
(* The invariant.                                                          *)

LEMMA PresentType ==
  ASSUME LimitTypeOK
  PROVE  /\ Present \in AllReadings
         /\ \A meter \in Meters : Reading(meter) \in AllReadings
<1>1. /\ scene.house \in Int /\ scene.car \in Int /\ scene.offgrid \in Int
      /\ scene.demand \in Int /\ applied \in Int
  BY SceneType, CurrentLimitAssumption DEF LimitTypeOK
<1>2. Draw \in Int
  BY <1>1 DEF Draw, Lower
<1>3. Grid \in Int /\ Consumption \in Int /\ Charging \in BOOLEAN
  BY <1>1, <1>2 DEF Grid, Consumption, Charging
<1> QED
  BY <1>1, <1>3 DEF Present, Reading, AllReadings, LimitTypeOK

\* A step of the core keeps the types, and leaves the limit the law computed or
\* one within the dead-band of it.
LEMMA LimitStep ==
  ASSUME LimitTypeOK, NEW settled \in BOOLEAN, NEW usable \in BOOLEAN,
         readings' \in AllReadings, RunCurrentLimit(settled, usable)
  PROVE  /\ LimitTypeOK'
         /\ usable => limit' <= Evaluate(scene, readings') + Deadband
<1>1. /\ scene \in Scenes /\ Evaluate(scene, readings') \in 0 .. MaxGrid
      /\ MaxGrid \in Nat /\ Deadband \in Nat
  BY EvaluateBound, CurrentLimitAssumption DEF LimitTypeOK
<1>2. limit' \in 0 .. MaxGrid
  BY <1>1 DEF RunCurrentLimit, LimitTypeOK
<1>3. confirmed' \in BOOLEAN
  BY DEF RunCurrentLimit
<1>4. usable => limit' <= Evaluate(scene, readings') + Deadband
  <2>1. CASE limit' = Evaluate(scene, readings')
    BY <1>1, <2>1
  <2>2. CASE limit' = limit /\ Near(limit, Evaluate(scene, readings'), Deadband)
    BY <1>1, <2>2 DEF Near, LimitTypeOK
  <2> QED BY <2>1, <2>2 DEF RunCurrentLimit
<1> QED
  BY <1>2, <1>3, <1>4 DEF RunCurrentLimit, LimitTypeOK

LEMMA LimitInitInv == LimitInit => LimitTypeOK
<1> SUFFICES ASSUME LimitInit PROVE LimitTypeOK
  OBVIOUS
<1>1. scene \in Scenes /\ MaxGrid \in Nat /\ applied = MaxGrid /\ MaxChanges \in Nat
  BY CurrentLimitAssumption DEF LimitInit
<1>2. /\ scene.house \in Int /\ scene.car \in Int /\ scene.offgrid \in Int
      /\ scene.demand \in Int
  BY <1>1, SceneType
<1>3. Draw \in Int
  BY <1>1, <1>2 DEF Draw, Lower
<1>4. Grid \in Int /\ Consumption \in Int /\ Charging \in BOOLEAN
  BY <1>2, <1>3 DEF Grid, Consumption, Charging
<1>5. Present \in AllReadings
  BY <1>2, <1>4 DEF Present, AllReadings
<1>6. readings \in AllReadings
  BY <1>5 DEF LimitInit
<1>7. /\ limit \in 0 .. MaxGrid /\ applied \in 0 .. MaxGrid
      /\ changes \in 0 .. MaxChanges
  BY <1>1 DEF LimitInit
<1>8. confirmed \in BOOLEAN
  BY DEF LimitInit
<1> QED
  BY <1>1, <1>6, <1>7, <1>8 DEF LimitTypeOK

LEMMA LimitNextInv == LimitTypeOK /\ [LimitNext]_limitVars => LimitTypeOK'
<1> SUFFICES ASSUME LimitTypeOK, [LimitNext]_limitVars PROVE LimitTypeOK'
  OBVIOUS
<1>1. ASSUME NEW usable \in BOOLEAN, NEW meter \in Meters, Read(meter, usable)
      PROVE  LimitTypeOK'
  <2>1. readings' \in AllReadings /\ RunCurrentLimit(confirmed, usable)
    BY <1>1, PresentType DEF Read
  <2> QED BY <2>1, LimitStep DEF LimitTypeOK
<1>2. ASSUME NEW usable \in BOOLEAN, Readback(usable) PROVE LimitTypeOK'
  <2> DEFINE settled == confirmed \/ Near(applied, limit, Tolerance + 1)
  <2>1. settled \in BOOLEAN /\ readings' \in AllReadings /\ RunCurrentLimit(settled, usable)
    BY <1>2 DEF Readback, LimitTypeOK, Near
  <2> HIDE DEF settled
  <2> QED BY <2>1, LimitStep
<1>3. ASSUME NEW usable \in BOOLEAN, Tick(usable) PROVE LimitTypeOK'
  BY <1>3, LimitStep DEF Tick, LimitTypeOK
<1>4. CASE Apply
  BY <1>4 DEF Apply, LimitTypeOK
<1>5. ASSUME NEW s \in Scenes, SceneChanges(s) PROVE LimitTypeOK'
  BY <1>5, CurrentLimitAssumption DEF SceneChanges, LimitTypeOK
<1>6. CASE UNCHANGED limitVars
  BY <1>6 DEF limitVars, LimitTypeOK
<1> QED BY <1>1, <1>2, <1>3, <1>4, <1>5, <1>6 DEF LimitNext

\* The limit is always one the register takes, from nothing to the rating of the
\* breaker (current_limit.rs 251, the clamp), whatever the readings.
THEOREM LimitTypeCorrect == LimitSpec => []LimitTypeOK
<1> QED BY LimitInitInv, LimitNextInv, PTL DEF LimitSpec

-----------------------------------------------------------------------------
(* The breaker.                                                            *)

LEMMA NextMakesRoom == LimitTypeOK /\ [LimitNext]_limitVars => LimitMakesRoom
<1> SUFFICES ASSUME LimitTypeOK, SeesOverload,
                    Committed(scene, readings') + MinSystem <= MaxGrid
             PROVE  Committed(scene, readings') + limit' <= MaxGrid + Deadband
  BY DEF LimitMakesRoom
<1>1. PICK meter \in Meters : Read(meter, TRUE)
  BY DEF SeesOverload
<1>2. readings' \in AllReadings /\ RunCurrentLimit(confirmed, TRUE)
  BY <1>1, PresentType DEF Read
<1>3. limit' <= Evaluate(scene, readings') + Deadband /\ limit' \in Int
  <2>1. LimitTypeOK' /\ limit' <= Evaluate(scene, readings') + Deadband
    BY <1>2, LimitStep DEF LimitTypeOK
  <2> QED BY <2>1, CurrentLimitAssumption DEF LimitTypeOK
<1>4. /\ Committed(scene, readings') + Evaluate(scene, readings') <= MaxGrid
      /\ Evaluate(scene, readings') \in 0 .. MaxGrid
  BY <1>2, EvaluateBound DEF SeesOverload, LimitTypeOK
<1>5. Committed(scene, readings') \in Int
  BY <1>2, SceneType DEF Committed, ForCar, Gridside, AllReadings, LimitTypeOK
<1> QED
  BY <1>3, <1>4, <1>5, CurrentLimitAssumption

\* An event that finds the breaker full while the battery is charged leaves room
\* for all loads seen and the car's target, for all hardware, knobs, scenes and
\* mixtures of old and new readings.
THEOREM OverloadsAreCut == LimitSpec => OverloadIsCut
<1> QED BY LimitTypeCorrect, NextMakesRoom, PTL DEF LimitSpec, OverloadIsCut

-----------------------------------------------------------------------------
(* Eddi: lemmas about the operators.                                       *)

\* The part of TypeOK about a target, of any target.
WellFormed(t) ==
  t \in Targets(Ages) /\ (t.value = None <=> t.phase = "Unset")

Sights == [value : Modes \union {None}, fresh : BOOLEAN]
Calls == [mode : Modes, age : 0 .. CallTimeout]

\* The dwell timer was last started by the last call, or by a later one that
\* the kill switch kept back.
DwellInv ==
  lastCall # None => lastTransition # None /\ lastTransition <= lastCall

EddiInv == TypeOK /\ DwellInv

LEMMA DecisionType ==
  ASSUME NEW q \in Socs, NEW w \in Windows, NEW cur \in Modes, NEW lt
  PROVE  LET dec == Decision(q, w, cur, lt)
         IN  /\ dec.mode \in Modes
             /\ dec.set /\ dec.mode = "Normal" =>
                  /\ q # "NotFresh"
                  /\ w = "Normal" \/ (w = "Open" /\ q = "High")
                  /\ lt = None \/ lt >= Dwell
<1> DEFINE d == Desired(q, w, cur)
<1>1. /\ d \in Modes
      /\ d = "Normal" /\ d # cur =>
           q # "NotFresh" /\ (w = "Normal" \/ (w = "Open" /\ q = "High"))
  BY DEF Desired, Socs, Windows, Modes
<1> HIDE DEF d
<1>2. /\ Decision(q, w, cur, lt).set = (d # cur /\ DwellMet(d, lt))
      /\ Decision(q, w, cur, lt).mode = IF DwellMet(d, lt) THEN d ELSE cur
  BY DEF Decision, d
<1>3. DwellMet("Normal", lt) => lt = None \/ lt >= Dwell
  BY DEF DwellMet
<1> QED BY <1>1, <1>2, <1>3

LEMMA TargetWellFormed ==
  ASSUME NEW t, WellFormed(t), NEW v \in Modes
  PROVE  /\ WellFormed(ProposeTarget(t, v, Owner))
         /\ WellFormed(MarkCommanded(ProposeTarget(t, v, Owner)))
<1>1. v # None /\ 0 \in Ages
  BY EddiAssumption DEF Ages, AgeCap
<1>2. ASSUME NEW u, WellFormed(u) PROVE WellFormed(MarkCommanded(u))
  BY <1>1, <1>2 DEF WellFormed, Targets, Phases, MarkCommanded, Outstanding
<1>3. WellFormed(ProposeTarget(t, v, Owner))
  BY <1>1 DEF WellFormed, Targets, Phases, ProposeTarget
<1> QED BY <1>2, <1>3

LEMMA WithoutCalls ==
  ASSUME calls \in Seq(Calls), NEW i \in DOMAIN calls
  PROVE  Without(i) \in Seq(Calls) /\ Len(Without(i)) = Len(calls) - 1
<1>1. i \in 1 .. Len(calls) /\ Len(calls) \in Nat
  BY LenProperties
<1>2. /\ SubSeq(calls, 1, i - 1) \in Seq(Calls)
      /\ Len(SubSeq(calls, 1, i - 1)) = i - 1
  BY <1>1, SubSeqProperties
<1>3. /\ SubSeq(calls, i + 1, Len(calls)) \in Seq(Calls)
      /\ Len(SubSeq(calls, i + 1, Len(calls))) = Len(calls) - i
  BY <1>1, SubSeqProperties
<1>4. /\ Without(i) \in Seq(Calls)
      /\ Len(Without(i)) = (i - 1) + (Len(calls) - i)
  BY <1>2, <1>3, ConcatProperties DEF Without
<1> QED BY <1>1, <1>4

-----------------------------------------------------------------------------
(* An event of the loop.                                                   *)

\* What a call for Normal rests on.
Grounds(q, w) ==
  /\ q # "NotFresh"
  /\ w = "Normal" \/ (w = "Open" /\ q = "High")
  /\ lastTransition = None \/ lastTransition >= Dwell

\* An event keeps the types, and calls for Normal on good grounds only.
LEMMA EventTypes ==
  ASSUME TypeOK, NEW t, WellFormed(t), NEW s \in Sights, NEW q \in Socs,
         NEW w \in Windows, NEW enabled \in BOOLEAN,
         Process(t, s, q, w, enabled),
         UNCHANGED <<device, foreign>>, poll' \in {poll, None}
  PROVE  /\ TypeOK'
         /\ Spawns("Normal") => Grounds(q, w) /\ soc' = q /\ window' = w
         /\ \/ lastTransition' = lastTransition /\ lastCall' = lastCall
            \/ lastTransition' = 0 /\ lastCall' \in {0, lastCall}
<1> DEFINE dec == Decision(q, w, Current(s), lastTransition)
           calling == Fires(t, dec) /\ enabled
           proposed == ProposeTarget(t, dec.mode, Owner)
<1>1. /\ calling => Len(calls) < MaxCalls
      /\ target' = IF calling THEN MarkCommanded(proposed) ELSE proposed
      /\ seen' = s /\ soc' = q /\ window' = w /\ writesEnabled' = enabled
      /\ lastTransition' = IF Fires(t, dec) THEN 0 ELSE lastTransition
      /\ calls' = IF calling THEN Append(calls, [mode |-> dec.mode, age |-> 0])
                  ELSE calls
      /\ lastCall' = IF calling THEN 0 ELSE lastCall
  BY DEF Process, TransitionClock
<1>2. Current(s) \in Modes
  BY DEF Current, Sights, Modes
<1>3. /\ dec.mode \in Modes
      /\ dec.set /\ dec.mode = "Normal" => Grounds(q, w)
  BY <1>2, DecisionType DEF Grounds
<1>4. Fires(t, dec) => dec.set
  BY DEF Fires
<1> HIDE DEF dec
<1>5. WellFormed(target')
  BY <1>1, <1>3, TargetWellFormed
<1>6. /\ calls \in Seq(Calls) /\ Len(calls) \in Nat /\ Len(calls) <= MaxCalls
      /\ MaxCalls \in Nat /\ [mode |-> dec.mode, age |-> 0] \in Calls
  <2>1. calls \in Seq(Calls) /\ Len(calls) <= MaxCalls
    BY DEF TypeOK, Calls
  <2>2. [mode |-> dec.mode, age |-> 0] \in Calls
    BY <1>3, EddiAssumption DEF Calls
  <2> QED BY <2>1, <2>2, EddiAssumption, LenProperties
<1>7. /\ calls' \in Seq(Calls) /\ Len(calls') <= MaxCalls
      /\ Spawns("Normal") => calling /\ dec.mode = "Normal"
  <2>1. CASE calling
    <3> DEFINE call == [mode |-> dec.mode, age |-> 0]
    <3>1. call \in Calls /\ call.mode = dec.mode
      BY <1>6
    <3>2. calls' = Append(calls, call) /\ Len(calls) < MaxCalls
      BY <1>1, <2>1
    <3> HIDE DEF call
    <3>3. /\ calls' \in Seq(Calls) /\ Len(calls') = Len(calls) + 1
          /\ calls'[Len(calls) + 1] = call
      BY <1>6, <3>1, <3>2, AppendProperties
    <3> QED BY <1>6, <2>1, <3>1, <3>2, <3>3 DEF Spawns
  <2>2. CASE ~ calling
    BY <1>1, <1>6, <2>2 DEF Spawns
  <2> QED BY <2>1, <2>2
<1>8. /\ lastTransition' \in Ages \union {None} /\ lastCall' \in Ages \union {None}
      /\ poll' \in Modes \union {None}
  BY <1>1, EddiAssumption DEF TypeOK, Ages, AgeCap
<1>9. TypeOK'
  BY <1>1, <1>5, <1>7, <1>8 DEF TypeOK, WellFormed, Sights, Calls
<1> QED BY <1>1, <1>3, <1>4, <1>7, <1>9

\* So it keeps the invariant, and the dwell time.
LEMMA EventKeeps ==
  ASSUME EddiInv, NEW t, WellFormed(t), NEW s \in Sights, NEW q \in Socs,
         NEW w \in Windows, NEW enabled \in BOOLEAN,
         Process(t, s, q, w, enabled),
         UNCHANGED <<device, foreign>>, poll' \in {poll, None}
  PROVE  /\ EddiInv'
         /\ Spawns("Normal") =>
              /\ soc' # "NotFresh"
              /\ window' = "Normal" \/ (window' = "Open" /\ soc' = "High")
              /\ lastCall = None \/ lastCall >= Dwell
<1>1. /\ TypeOK'
      /\ Spawns("Normal") => Grounds(q, w) /\ soc' = q /\ window' = w
      /\ \/ lastTransition' = lastTransition /\ lastCall' = lastCall
         \/ lastTransition' = 0 /\ lastCall' \in {0, lastCall}
  BY EventTypes DEF EddiInv
<1>2. /\ lastTransition \in Nat \union {None} /\ lastCall \in Nat \union {None}
      /\ None \notin Nat /\ Dwell \in Nat
  BY EddiAssumption DEF EddiInv, TypeOK, Ages, AgeCap
<1>3. DwellInv
  BY DEF EddiInv
<1>4. DwellInv'
  BY <1>1, <1>2, <1>3 DEF DwellInv
<1>5. Spawns("Normal") => lastCall = None \/ lastCall >= Dwell
  BY <1>1, <1>2, <1>3 DEF DwellInv, Grounds
<1> QED BY <1>1, <1>4, <1>5 DEF EddiInv, Grounds

-----------------------------------------------------------------------------
(* The invariant of Eddi.                                                  *)

LEMMA EddiInit == Init => EddiInv
<1> SUFFICES ASSUME Init PROVE EddiInv
  OBVIOUS
<1>1. 0 \in Ages
  BY EddiAssumption DEF Ages, AgeCap
<1>2. target \in Targets(Ages) /\ (target.value = None <=> target.phase = "Unset")
  BY <1>1 DEF Init, UnsetTarget, Targets, Phases
<1>3. calls \in Seq([mode : Modes, age : 0 .. CallTimeout]) /\ Len(calls) <= MaxCalls
  BY EddiAssumption DEF Init
<1>4. foreign \in 0 .. MaxForeign
  BY EddiAssumption DEF Init
<1>5. TypeOK
  BY <1>2, <1>3, <1>4 DEF Init, TypeOK, Socs
<1> QED BY <1>5 DEF Init, EddiInv, DwellInv

\* What an event may do, of whatever kind it is.
LoopEvent ==
  \/ \E q \in Socs, w \in Windows, fresh \in BOOLEAN : TickEvent(q, w, fresh)
  \/ \E q \in Socs : SocEvent(q)
  \/ ReadingEvent
  \/ \E on \in BOOLEAN : KillSwitchEvent(on)

LEMMA LoopEventKeeps ==
  ASSUME EddiInv, LoopEvent
  PROVE  /\ EddiInv'
         /\ Spawns("Normal") =>
              /\ soc' # "NotFresh"
              /\ window' = "Normal" \/ (window' = "Open" /\ soc' = "High")
              /\ lastCall = None \/ lastCall >= Dwell
<1>1. /\ WellFormed(target) /\ seen \in Sights /\ soc \in Socs
      /\ window \in Windows /\ writesEnabled \in BOOLEAN
      /\ poll \in Modes \union {None}
  BY DEF EddiInv, TypeOK, WellFormed, Sights
<1>2. ASSUME NEW q \in Socs, NEW w \in Windows, NEW fresh \in BOOLEAN,
             TickEvent(q, w, fresh)
      PROVE  /\ [seen EXCEPT !.fresh = fresh] \in Sights
             /\ Process(target, [seen EXCEPT !.fresh = fresh], q, w, writesEnabled)
             /\ UNCHANGED <<device, foreign, poll>>
  BY <1>1, <1>2 DEF TickEvent, Sights
<1>3. CASE \E q \in Socs, w \in Windows, fresh \in BOOLEAN : TickEvent(q, w, fresh)
  BY <1>1, <1>2, <1>3, EventKeeps
<1>4. CASE \E q \in Socs : SocEvent(q)
  BY <1>1, <1>4, EventKeeps DEF SocEvent
<1>5. CASE ReadingEvent
  <2> DEFINE reading == [value |-> poll, freshness |-> "Fresh", age |-> 0]
             t == ConfirmIf(target, reading, target.value = poll, 0)
             s == [value |-> poll, fresh |-> TRUE]
  <2>1. /\ poll \in Modes /\ poll' = None /\ UNCHANGED <<device, foreign>>
        /\ Process(t, s, soc, window, writesEnabled)
    BY <1>1, <1>5 DEF ReadingEvent
  <2>2. s \in Sights
    BY <2>1 DEF Sights
  <2>3. 0 \in Ages
    BY EddiAssumption DEF Ages, AgeCap
  <2>4. WellFormed(t)
    BY <1>1, <2>3 DEF WellFormed, ConfirmIf, Outstanding, Targets, Phases
  <2> HIDE DEF t, s
  <2> QED BY <1>1, <2>1, <2>2, <2>4, EventKeeps
<1>6. ASSUME NEW on \in BOOLEAN, KillSwitchEvent(on)
      PROVE  \E t : /\ WellFormed(t) /\ Process(t, seen, soc, window, on)
                    /\ UNCHANGED <<device, foreign, poll>>
  <2> DEFINE t == IF on /\ ~ writesEnabled THEN UnsetTarget ELSE target
  <2>1. 0 \in Ages
    BY EddiAssumption DEF Ages, AgeCap
  <2>2. WellFormed(t)
    BY <1>1, <2>1 DEF WellFormed, UnsetTarget, Targets, Phases
  <2>3. Process(t, seen, soc, window, on) /\ UNCHANGED <<device, foreign, poll>>
    BY <1>6 DEF KillSwitchEvent
  <2> HIDE DEF t
  <2> QED BY <2>2, <2>3
<1>7. CASE \E on \in BOOLEAN : KillSwitchEvent(on)
  BY <1>1, <1>6, <1>7, EventKeeps
<1> QED BY <1>3, <1>4, <1>5, <1>7 DEF LoopEvent

\* Time and the world outside spawn no call.
LEMMA OutsideKeeps ==
  ASSUME EddiInv, [Next]_vars, ~ LoopEvent
  PROVE  EddiInv' /\ ~ Spawns("Normal")
<1>1. /\ calls \in Seq(Calls) /\ Len(calls) \in Nat /\ Len(calls) <= MaxCalls
      /\ MaxCalls \in Nat
  <2>1. calls \in Seq(Calls) /\ Len(calls) <= MaxCalls
    BY DEF EddiInv, TypeOK, Calls
  <2> QED BY <2>1, EddiAssumption, LenProperties
<1>2. ASSUME NEW i, CallLands(i) \/ CallFails(i)
      PROVE  EddiInv' /\ ~ Spawns("Normal")
  <2>1. /\ i \in DOMAIN calls /\ calls' = Without(i)
        /\ UNCHANGED <<core, poll, foreign, lastCall>>
        /\ device' = device \/ device' = calls[i].mode
    BY <1>2 DEF CallLands, CallFails
  <2>2. calls[i].mode \in Modes
    <3>1. calls[i] \in Calls
      BY <1>1, <2>1, ElementOfSeq, LenProperties
    <3> QED BY <3>1 DEF Calls
  <2>3. /\ calls' \in Seq(Calls) /\ Len(calls') = Len(calls) - 1
    BY <1>1, <2>1, WithoutCalls
  <2>4. Len(calls') <= MaxCalls /\ ~ Spawns("Normal")
    BY <1>1, <2>3 DEF Spawns
  <2>5. TypeOK'
    BY <2>1, <2>2, <2>3, <2>4 DEF EddiInv, TypeOK, Calls, core
  <2>6. DwellInv'
    BY <2>1 DEF EddiInv, DwellInv, core
  <2> QED BY <2>4, <2>5, <2>6 DEF EddiInv
<1>3. CASE PollerPoll
  <2>1. UNCHANGED <<core, calls, device, foreign, lastCall>> /\ poll' = device
    BY <1>3 DEF PollerPoll
  <2> QED BY <1>1, <2>1 DEF EddiInv, TypeOK, DwellInv, core, Spawns
<1>4. CASE \E v \in Modes : ForeignChange(v)
  <2>1. /\ UNCHANGED <<core, calls, poll, lastCall>>
        /\ device' \in Modes /\ foreign' = foreign + 1 /\ foreign < MaxForeign
    BY <1>4 DEF ForeignChange
  <2>2. foreign' \in 0 .. MaxForeign
    BY <2>1, EddiAssumption DEF EddiInv, TypeOK
  <2> QED BY <1>1, <2>1, <2>2 DEF EddiInv, TypeOK, DwellInv, core, Spawns
<1>5. CASE Elapse
  <2>1. /\ target' = Older(target, AgeCap)
        /\ lastTransition' = OlderOrNone(lastTransition)
        /\ lastCall' = OlderOrNone(lastCall)
        /\ calls' = [i \in DOMAIN calls |->
                       [calls[i] EXCEPT !.age = calls[i].age + 1]]
        /\ \A i \in DOMAIN calls : calls[i].age < CallTimeout
        /\ UNCHANGED <<seen, soc, window, writesEnabled, device, poll, foreign>>
    BY <1>5 DEF Elapse
  <2>2. AgeCap \in Nat /\ None \notin Int
    BY EddiAssumption DEF AgeCap
  <2>3. DOMAIN calls = 1 .. Len(calls) /\ \A i \in 1 .. Len(calls) : calls[i] \in Calls
    BY <1>1, ElementOfSeq, LenProperties
  <2>4. calls' \in Seq(Calls) /\ Len(calls') = Len(calls)
    <3>1. ASSUME NEW i \in 1 .. Len(calls)
          PROVE  [calls[i] EXCEPT !.age = calls[i].age + 1] \in Calls
      <4>1. calls[i] \in Calls /\ calls[i].age < CallTimeout
        BY <2>1, <2>3
      <4>2. calls[i].age + 1 \in 0 .. CallTimeout
        BY <4>1, EddiAssumption DEF Calls
      <4> QED BY <4>1, <4>2 DEF Calls
    <3>2. calls' \in [1 .. Len(calls) -> Calls]
      BY <2>1, <2>3, <3>1
    <3> QED BY <1>1, <3>2
  <2>5. \A a \in Ages \union {None} : OlderOrNone(a) \in Ages \union {None}
    BY <2>2 DEF OlderOrNone, Ages
  <2>6. WellFormed(target')
    <3> DEFINE a == IF target.age < AgeCap THEN target.age + 1 ELSE AgeCap
    <3>1. WellFormed(target) /\ target' = [target EXCEPT !.age = a]
      BY <2>1 DEF EddiInv, TypeOK, WellFormed, Older
    <3>2. target.age \in 0 .. AgeCap
      BY <3>1 DEF WellFormed, Targets, Ages
    <3>3. a \in Ages
      BY <2>2, <3>2 DEF Ages
    <3> HIDE DEF a
    <3> QED BY <3>1, <3>3 DEF WellFormed, Targets
  <2>7. TypeOK'
    <3>1. lastTransition' \in Ages \union {None} /\ lastCall' \in Ages \union {None}
      BY <2>1, <2>5 DEF EddiInv, TypeOK
    <3>2. calls' \in Seq([mode : Modes, age : 0 .. CallTimeout]) /\ Len(calls') <= MaxCalls
      BY <1>1, <2>4 DEF Calls
    <3> QED BY <2>1, <2>6, <3>1, <3>2 DEF EddiInv, TypeOK, WellFormed
  <2>8. DwellInv'
    BY <2>1, <2>2 DEF EddiInv, TypeOK, DwellInv, OlderOrNone, Ages
  <2> QED BY <1>1, <2>4, <2>7, <2>8 DEF EddiInv, Spawns
<1>6. CASE UNCHANGED vars
  BY <1>1, <1>6 DEF EddiInv, TypeOK, DwellInv, vars, core, Spawns
<1> QED BY <1>2, <1>3, <1>4, <1>5, <1>6 DEF Next, LoopEvent

THEOREM EddiInvariance == Spec => []EddiInv
<1>1. EddiInv /\ [Next]_vars => EddiInv'
  BY LoopEventKeeps, OutsideKeeps
<1> QED BY EddiInit, <1>1, PTL DEF Spec

\* Every reachable state of the Eddi controller is well typed, and no more
\* calls are in flight than the bound.
THEOREM EddiTypeCorrect == Spec => []TypeOK
<1>1. EddiInv => TypeOK
  BY DEF EddiInv
<1> QED BY <1>1, EddiInvariance, PTL

\* The Eddi is told to divert on a fresh SoC and in a Normal window or, outside
\* the windows, at the enable threshold, and never otherwise: for all knobs,
\* time-outs and interleavings of calls, polls, ticks and the kill switch.
THEOREM DivertsAuthorised == Spec => NormalIsAuthorised
<1>1. EddiInv /\ [Next]_vars =>
        (Spawns("Normal") =>
           /\ soc' # "NotFresh"
           /\ window' = "Normal" \/ (window' = "Open" /\ soc' = "High"))
  BY LoopEventKeeps, OutsideKeeps
<1> QED BY <1>1, EddiInvariance, PTL DEF Spec, NormalIsAuthorised

\* No call for Normal comes within the dwell time of an earlier call, for every
\* dwell and retry time.
THEOREM DwellIsKept == Spec => DwellKept
<1>1. EddiInv /\ [Next]_vars =>
        (Spawns("Normal") => lastCall = None \/ lastCall >= Dwell)
  BY LoopEventKeeps, OutsideKeeps
<1> QED BY <1>1, EddiInvariance, PTL DEF Spec, DwellKept
=============================================================================
