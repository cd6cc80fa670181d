----------------------------- MODULE SetpointProofs -----------------------------
(***************************************************************************)
(* What holds of the setpoint for all knobs, hardware, scenes and readings:*)
(* it is well typed, within the grid caps, idle when told to stop, and     *)
(* imports by the hard clamp only.  Whatever the law computes, run_setpoint*)
(* clips; so the lemmas on the law say only that it yields an integer no   *)
(* greater than idle.                                                      *)
(***************************************************************************)
EXTENDS Setpoint, TLAPS

\* The parts of a scene that the law computes with.
IsScene(s) ==
  /\ {s.hours, s.soc, s.exportLimit, s.solar, s.consumption, s.car, s.load}
       \subseteq Nat
  /\ s.slot \in Slots

\* Quotients are integers.
LEMMA DivInt == ASSUME NEW a \in Int, NEW b \in Nat \ {0} PROVE a \div b \in Int
  OBVIOUS

\* The law's drain loop steps to an integer, whatever the readings.
LEMMA DrainLoopInt ==
  ASSUME NEW s, IsScene(s), NEW drain \in Int, NEW prev \in Int
  PROVE  DrainLoop(s, drain, prev) \in Int
<1>1. DrainLoopGoal(s) \in Int
  BY SetpointLawAssumption DEF IsScene, DrainLoopGoal, Higher
<1>2. KpPercent * (drain - DrainThreshold) \in Int
  BY SetpointLawAssumption
<1>3. (KpPercent * (drain - DrainThreshold)) \div 100 \in Int
  BY <1>2, DivInt
<1> QED
  BY <1>1, <1>3, SetpointLawAssumption DEF DrainLoop, Higher, Lower

\* The evening's spread of the spare energy is an integer.
LEMMA EveningInt ==
  ASSUME NEW s, IsScene(s)
  PROVE  Evening(s) \in Int
<1>1. EndOfDaySoc(s) \in Nat
  BY SetpointLawAssumption DEF EndOfDaySoc, Higher
<1>2. Pessimism(s.hours) \in Int
  BY DEF IsScene, Pessimism, Lower
<1>3. ASSUME NEW draw \in Nat PROVE Spare(s, draw) \in Int
  <2>1. BatteryWh * s.soc \in Int /\ BatteryWh * EndOfDaySoc(s) \in Int
    BY <1>1, SetpointLawAssumption DEF IsScene
  <2>2. (BatteryWh * s.soc) \div 100 \in Int /\ (BatteryWh * EndOfDaySoc(s)) \div 100 \in Int
    BY <2>1, DivInt
  <2>3. draw * s.hours \in Int
    BY DEF IsScene
  <2>4. draw * s.hours * Pessimism(s.hours) \in Int
    BY <1>2, <2>3
  <2> QED
    BY <2>2, <2>4 DEF Spare, Higher
<1>4. EveningSolar(s) \in Int
  BY DEF EveningSolar, IsScene
<1>5. 80 * s.hours * (EveningSolar(s) - s.consumption) \in Int
  BY <1>4 DEF IsScene
<1>6. Higher(0, Spare(s, s.consumption))
        + 80 * s.hours * (EveningSolar(s) - s.consumption) \in Int
  BY <1>3, <1>5 DEF IsScene, Higher
<1>7. CASE s.hours = 0
  BY <1>7, SetpointLawAssumption DEF Evening
<1>8. CASE s.hours # 0
  <2>1. 80 * s.hours \in Nat \ {0}
    BY <1>8 DEF IsScene
  <2>2. (-(Higher(0, Spare(s, s.consumption))
             + 80 * s.hours * (EveningSolar(s) - s.consumption))) \div (80 * s.hours)
          \in Int
    BY <1>6, <2>1, DivInt
  <2> QED
    BY <1>8, <2>2 DEF Evening, Lower
<1> QED
  BY <1>7, <1>8

\* Every SoC is on some rung: the multiplier is defined.
LEMMA PvTenthsNat ==
  ASSUME NEW s, IsScene(s), ExportThreshold(s) \in Nat
  PROVE  PvTenths(s) \in Nat
<1> DEFINE above == s.soc - (ExportThreshold(s) + 3)
<1>1. above \in Int
  BY DEF IsScene
<1>2. CASE ExportThreshold(s) <= 67
  BY <1>1, <1>2 DEF PvTenths
<1>3. CASE ~ (ExportThreshold(s) <= 67)
  BY <1>1, <1>3 DEF PvTenths
<1> QED
  BY <1>2, <1>3

\* So is the day's multiple of the solar power.
LEMMA DayInt ==
  ASSUME NEW s, IsScene(s)
  PROVE  Day(s) \in Int
<1>1. ExportThreshold(s) \in Nat
  BY SetpointLawAssumption DEF ExportThreshold
<1>2. PvTenths(s) \in Nat
  BY <1>1, PvTenthsNat
<1>3. s.solar * PvTenths(s) \in Nat
  BY <1>2 DEF IsScene
<1> DEFINE badWeather == s.solar <= 1100
           margin == IF s.soc < ExportThreshold(s) + 3 THEN 100 ELSE 0
           export10 == Higher(0, (IF badWeather THEN 0 ELSE s.solar * PvTenths(s))
                                 - 10 * s.consumption)
<1>4. export10 \in Int
  BY <1>3 DEF IsScene, Higher
<1>5. (10 * margin - export10) \div 10 \in Int
  BY <1>4, DivInt
<1> HIDE DEF margin, export10
<1>6. Lower(IF badWeather THEN 10 ELSE -200, (10 * margin - export10) \div 10) \in Int
  BY <1>5 DEF Lower
<1> QED
  BY <1>6, SetpointLawAssumption DEF Day, margin, export10

\* prepare_setpoint never imports.
LEMMA PrepareBound ==
  ASSUME NEW s, IsScene(s), NEW w \in Int
  PROVE  Prepare(s, w) \in Int /\ Prepare(s, w) <= Idle
<1>1. DischargeLimit(s) \in Int
  BY SetpointLawAssumption DEF DischargeLimit, IsScene, Lower
<1> DEFINE x == Higher(w, -DischargeLimit(s))
           q == (-2 * x + Round) \div (2 * Round)
<1>2. x \in Int
  BY <1>1 DEF Higher
<1>3. q \in Int
  BY <1>2, DivInt, SetpointLawAssumption
<1> HIDE DEF x, q
<1>4. -Round * q \in Int
  BY <1>3, SetpointLawAssumption
<1>5. Prepare(s, w) = IF -Round * q >= 0 THEN Idle ELSE -Round * q
  BY DEF Prepare, x, q
<1> QED
  BY <1>4, <1>5, SetpointLawAssumption

\* Nor does the law.
LEMMA EvaluateBound ==
  ASSUME NEW s, IsScene(s), NEW d \in Int, NEW l \in Int, NEW prev \in Int
  PROVE  Evaluate(s, d, l, prev) \in Int /\ Evaluate(s, d, l, prev) <= Idle
<1>1. DrainLoop(s, CompensatedDrain(d, l), prev) \in Int
  <2>1. CompensatedDrain(d, l) \in Int
    BY DEF CompensatedDrain, Higher
  <2> QED
    BY <2>1, DrainLoopInt
<1>2. Evening(s) \in Int /\ Day(s) \in Int /\ Idle \in Int
  BY EveningInt, DayInt, SetpointLawAssumption
<1> DEFINE clocked == CASE s.slot = "Evening" -> Evening(s)
                       [] s.slot = "Day" -> Day(s)
                       [] s.slot \in {"Protection", "Night"} -> Idle
           raw == CASE s.forceDisable -> Idle
                    [] DrainLoopRuns(s) -> DrainLoop(s, CompensatedDrain(d, l), prev)
                    [] OTHER -> clocked
<1>3. clocked \in Int
  BY <1>2 DEF IsScene, Slots
<1>4. raw \in Int
  <2> HIDE DEF clocked
  <2>1. CASE s.forceDisable
    BY <1>2, <2>1 DEF DrainLoopRuns
  <2>2. CASE DrainLoopRuns(s)
    BY <1>1, <2>2 DEF DrainLoopRuns
  <2>3. CASE ~ s.forceDisable /\ ~ DrainLoopRuns(s)
    BY <1>3, <2>3
  <2> QED
    BY <2>1, <2>2, <2>3
<1>5. Evaluate(s, d, l, prev) = Prepare(s, raw)
  BY DEF Evaluate
<1> QED
  <2> HIDE DEF raw
  <2> QED BY <1>4, <1>5, PrepareBound

-----------------------------------------------------------------------------
(* run_setpoint.                                                           *)

Loads == [value : Nat, fresh : BOOLEAN]

\* What is proposed lies between the caps, is no export when told to stop, and
\* imports only if the hard clamp is engaged.
LEMMA ProposalBound ==
  ASSUME NEW s \in Scenes, NEW ok \in BOOLEAN, NEW d \in Int, NEW l \in Loads,
         NEW prev \in Int
  PROVE  LET w == Proposal(s, ok, d, l, prev)
         IN  /\ w \in Int
             /\ -ExportCap(s) <= w /\ w <= Higher(ImportCap, 10)
             /\ (~ ok \/ s.forceDisable) => w >= 0
             /\ w > Higher(Idle, 10) =>
                  HardClampEngaged(s, fast, CompensatedDrain(d, l.value))
<1> DEFINE drain == CompensatedDrain(d, l.value)
           law == Evaluate(s, d, l.value, prev)
           clamped == HardClamped(s, fast, drain, law)
<1>1. IsScene(s) /\ l.value \in Int
  BY SetpointAssumption DEF IsScene, Loads
<1>2. law \in Int /\ law <= Idle
  BY <1>1, EvaluateBound
<1>3. drain \in Nat
  BY <1>1 DEF CompensatedDrain, Higher
<1>4. ExportCap(s) \in Nat /\ ImportCap \in Nat
  BY SetpointAssumption DEF ExportCap, ImportCap, Lower
<1>5. Idle \in Nat /\ HardClamp \in Nat
  BY SetpointLawAssumption, SetpointAssumption
<1>6. s.forceDisable => law >= 0
  <2> SUFFICES ASSUME s.forceDisable PROVE law >= 0
    OBVIOUS
  <2>1. law = Prepare(s, Idle)
    BY DEF Evaluate, DrainLoopRuns
  <2>2. DischargeLimit(s) \in Nat
    BY <1>1, SetpointLawAssumption DEF DischargeLimit, IsScene, Lower
  <2>3. Higher(Idle, -DischargeLimit(s)) = Idle
    BY <2>2, <1>5 DEF Higher
  <2> DEFINE q == (-2 * Idle + Round) \div (2 * Round)
  <2>4. q \in Int /\ q <= 0
    BY <1>5, SetpointLawAssumption
  <2> HIDE DEF q
  <2>5. -Round * q >= 0
    BY <2>4, SetpointLawAssumption
  <2>6. law = IF -Round * q >= 0 THEN Idle ELSE -Round * q
    BY <2>1, <2>3 DEF Prepare, q
  <2> QED
    BY <2>5, <2>6, <1>5
<1> HIDE DEF drain, law
<1>7. /\ clamped \in Int /\ clamped >= law
      /\ clamped = law \/ HardClampEngaged(s, fast, drain)
  BY <1>2, <1>3, <1>5 DEF HardClamped, HardClampEngaged
<1> HIDE DEF clamped
<1>8. CASE ok
  <2>1. Proposal(s, ok, d, l, prev) = GridCapped(s, clamped)
    BY <1>8 DEF Proposal, clamped, law, drain
  <2> DEFINE w == GridCapped(s, clamped)
  <2>2. w \in Int /\ -ExportCap(s) <= w /\ w <= Higher(ImportCap, 10)
    BY <1>4, <1>7 DEF GridCapped, Higher, Lower
  <2>3. s.forceDisable => w >= 0
    BY <1>2, <1>4, <1>6, <1>7 DEF GridCapped, Higher, Lower
  <2>4. w > Higher(Idle, 10) => clamped > law
    BY <1>2, <1>4, <1>5, <1>7 DEF GridCapped, Higher, Lower
  <2>5. w > Higher(Idle, 10) => HardClampEngaged(s, fast, CompensatedDrain(d, l.value))
    BY <1>2, <1>7, <2>4 DEF drain
  <2> HIDE DEF w
  <2>6. Proposal(s, ok, d, l, prev) = w
    BY <2>1 DEF w
  <2> QED
    BY <1>8, <2>2, <2>3, <2>5, <2>6
<1>9. CASE ~ ok
  <2>1. Proposal(s, ok, d, l, prev) = 10
    BY <1>9 DEF Proposal
  <2> QED
    BY <2>1, <1>4, <1>5 DEF Higher
<1> QED
  BY <1>8, <1>9

-----------------------------------------------------------------------------
(* The inductive invariant: the three invariants together.                 *)

IInv == TypeOK /\ CapsHeld /\ ExportStopsWhenTold

\* A value within the dead-band of a bounded one is bounded.
LEMMA NearBound ==
  ASSUME NEW x \in Int, NEW w \in Int, NEW b \in Nat, NEW low \in Int, NEW high \in Int,
         low <= w, w <= high,
         x = w \/ (x - w < b /\ w - x < b)
  PROVE  x >= low - b /\ x <= high + b
  OBVIOUS

\* Any event takes the invariant to the invariant, and imports by the clamp only.
LEMMA ProcessStep ==
  ASSUME IInv, NEW s \in Scenes, NEW ok \in BOOLEAN, NEW d \in Int,
         NEW l \in Loads, NEW c \in BOOLEAN, c => setpoint # None,
         Process(s, ok, d, l, c)
  PROVE  /\ setpoint' \in Int /\ confirmed' \in BOOLEAN
         /\ scene' = s /\ usable' = ok /\ dc' = d /\ load' = l
         /\ CapsHeld' /\ ExportStopsWhenTold'
         /\ (setpoint' # setpoint /\ setpoint' > Higher(Idle, 10)) =>
              HardClampEngaged(s, fast, CompensatedDrain(d, l.value))
<1> DEFINE prev == IF setpoint = None THEN Idle ELSE setpoint
           w == Proposal(s, ok, d, l, prev)
<1>1. setpoint \in Int \union {None} /\ None \notin Int
  BY SetpointAssumption DEF IInv, TypeOK
<1>2. prev \in Int
  BY <1>1, SetpointLawAssumption
<1> HIDE DEF prev
<1>3. /\ w \in Int
      /\ -ExportCap(s) <= w /\ w <= Higher(ImportCap, 10)
      /\ (~ ok \/ s.forceDisable) => w >= 0
      /\ w > Higher(Idle, 10) => HardClampEngaged(s, fast, CompensatedDrain(d, l.value))
  BY <1>2, ProposalBound
<1>4. /\ setpoint' = IF Keeps(w, c) THEN setpoint ELSE w
      /\ confirmed' = (c /\ Keeps(w, c))
      /\ scene' = s /\ usable' = ok /\ dc' = d /\ load' = l
  BY DEF Process, prev
<1> HIDE DEF w
<1>5. /\ setpoint' \in Int
      /\ setpoint' = w \/ (setpoint' = setpoint /\ setpoint' - w < Deadband
                                                /\ w - setpoint' < Deadband)
  BY <1>1, <1>3, <1>4 DEF Keeps
<1>6. /\ ExportCap(s) \in Int /\ Higher(ImportCap, 10) \in Int /\ Deadband \in Nat
      /\ Higher(Idle, 10) \in Int
  BY SetpointAssumption, SetpointLawAssumption DEF ExportCap, ImportCap, Lower, Higher
<1>7. setpoint' >= -ExportCap(s) - Deadband /\ setpoint' <= Higher(ImportCap, 10) + Deadband
  <2> DEFINE low == -ExportCap(s)
             high == Higher(ImportCap, 10)
             next == setpoint'
  <2>1. low \in Int /\ high \in Int /\ Deadband \in Nat
    BY <1>6
  <2>2. next \in Int /\ w \in Int /\ low <= w /\ w <= high
    BY <1>3, <1>5
  <2>3. next = w \/ (next - w < Deadband /\ w - next < Deadband)
    BY <1>5
  <2> HIDE DEF low, high, next
  <2>4. next >= low - Deadband /\ next <= high + Deadband
    BY <2>1, <2>2, <2>3, NearBound
  <2> QED
    BY <2>4 DEF low, high, next
<1>8. (~ ok \/ s.forceDisable) => setpoint' >= -Deadband
  <2> SUFFICES ASSUME ~ ok \/ s.forceDisable PROVE setpoint' >= -Deadband
    OBVIOUS
  <2> DEFINE next == setpoint'
  <2>1. next \in Int /\ w \in Int /\ w >= 0 /\ Deadband \in Nat
    BY <1>3, <1>5, <1>6
  <2>2. next = w \/ w - next < Deadband
    BY <1>5
  <2> HIDE DEF next
  <2>3. next >= -Deadband
    BY <2>1, <2>2
  <2> QED
    BY <2>3 DEF next
<1>9. CapsHeld'
  BY <1>4, <1>7 DEF CapsHeld, ExportCap, ImportCap
<1>10. ExportStopsWhenTold'
  BY <1>4, <1>8 DEF ExportStopsWhenTold
<1>11. confirmed' \in BOOLEAN
  BY <1>4 DEF Keeps
<1>12. (setpoint' # setpoint /\ setpoint' > Higher(Idle, 10)) =>
         HardClampEngaged(s, fast, CompensatedDrain(d, l.value))
  BY <1>3, <1>5
<1> QED
  BY <1>4, <1>5, <1>9, <1>10, <1>11, <1>12

\* Every step keeps the invariant and imports only when it may.
LEMMA Step ==
  ASSUME IInv, [Next]_vars
  PROVE  IInv' /\ ImportWarranted
<1>1. ASSUME NEW s \in Scenes, NEW ok \in BOOLEAN, NEW d \in Int, NEW l \in Loads,
             NEW c \in BOOLEAN, c => setpoint # None,
             Process(s, ok, d, l, c), applied' = applied, fast' \in BOOLEAN
      PROVE  IInv' /\ ImportWarranted
  <2>1. /\ setpoint' \in Int /\ confirmed' \in BOOLEAN
        /\ scene' = s /\ usable' = ok /\ dc' = d /\ load' = l
        /\ CapsHeld' /\ ExportStopsWhenTold'
    BY <1>1, ProcessStep
  <2>2. (setpoint' # setpoint /\ setpoint' > Higher(Idle, 10)) =>
           HardClampEngaged(s, fast, CompensatedDrain(d, l.value))
    BY <1>1, ProcessStep
  <2>3. TypeOK'
    BY <1>1, <2>1, SetpointAssumption DEF IInv, TypeOK, Loads
  <2>4. ImportWarranted
    BY <2>1, <2>2 DEF ImportWarranted, HardClampEngaged
  <2> QED
    BY <2>1, <2>3, <2>4 DEF IInv
<1>2. /\ scene \in Scenes /\ usable \in BOOLEAN /\ dc \in Int /\ load \in Loads
      /\ confirmed \in BOOLEAN /\ fast \in BOOLEAN /\ applied \in Int
      /\ setpoint \in Int \union {None} /\ (confirmed => setpoint # None)
  BY DEF IInv, TypeOK, Loads
<1>3. ASSUME NEW s \in Scenes PROVE BatteryPower(s, applied) \in Int /\ s.load \in Nat
  BY <1>2, SetpointAssumption DEF BatteryPower
<1>4. CASE TickEvent
  BY <1>1, <1>2, <1>4 DEF TickEvent
<1>5. ASSUME NEW s \in Scenes, SceneEvent(s) PROVE IInv' /\ ImportWarranted
  BY <1>1, <1>2, <1>5 DEF SceneEvent
<1>6. ASSUME NEW ok \in BOOLEAN, UsableEvent(ok) PROVE IInv' /\ ImportWarranted
  BY <1>1, <1>2, <1>6 DEF UsableEvent
<1>7. CASE DcReading
  BY <1>1, <1>2, <1>3, <1>7 DEF DcReading
<1>8. CASE LoadReading
  <2> DEFINE l == [value |-> scene.load, fresh |-> TRUE]
  <2>1. l \in Loads
    BY <1>2, <1>3 DEF Loads
  <2>2. Process(scene, usable, dc, l, confirmed) /\ applied' = applied /\ fast' = fast
    BY <1>8 DEF LoadReading
  <2> HIDE DEF l
  <2> QED
    BY <1>1, <1>2, <2>1, <2>2
<1>9. CASE LoadStale
  <2> DEFINE l == [load EXCEPT !.fresh = FALSE]
  <2>1. l \in Loads
    BY <1>2 DEF Loads
  <2>2. Process(scene, usable, dc, l, confirmed) /\ applied' = applied /\ fast' = fast
    BY <1>9 DEF LoadStale
  <2> HIDE DEF l
  <2> QED
    BY <1>1, <1>2, <2>1, <2>2
<1>10. CASE SetpointReading
  <2> DEFINE close == /\ setpoint # None
                      /\ applied - setpoint <= Tolerance
                      /\ setpoint - applied <= Tolerance
             c == confirmed \/ close
  <2>1. c \in BOOLEAN /\ (c => setpoint # None)
    BY <1>2
  <2>2. Process(scene, usable, dc, load, c) /\ applied' = applied /\ fast' = fast
    BY <1>10 DEF SetpointReading
  <2> HIDE DEF c
  <2> QED
    BY <1>1, <1>2, <2>1, <2>2
<1>11. CASE Apply
  <2>1. /\ setpoint # None /\ applied' = setpoint
        /\ UNCHANGED <<setpoint, confirmed, inputs, fast>>
    BY <1>11 DEF Apply
  <2>2. TypeOK'
    BY <1>2, <2>1 DEF TypeOK, IInv, inputs
  <2>3. CapsHeld' /\ ExportStopsWhenTold'
    BY <2>1 DEF IInv, CapsHeld, ExportStopsWhenTold, ExportCap, ImportCap, inputs
  <2> QED
    BY <2>1, <2>2, <2>3 DEF IInv, ImportWarranted
<1>12. CASE UNCHANGED vars
  BY <1>12 DEF IInv, TypeOK, CapsHeld, ExportStopsWhenTold, ExportCap, ImportCap,
               ImportWarranted, vars, inputs
<1> QED
  BY <1>4, <1>5, <1>6, <1>7, <1>8, <1>9, <1>10, <1>11, <1>12 DEF Next

-----------------------------------------------------------------------------
\* The invariant holds in every reachable state.
THEOREM Invariance == Spec => []IInv
<1>1. Init => IInv
  <2> SUFFICES ASSUME Init  PROVE IInv
    OBVIOUS
  <2>1. setpoint = None /\ load = [value |-> 0, fresh |-> FALSE]
    BY DEF Init
  <2>2. applied \in Int /\ dc \in Int
    BY SetpointLawAssumption DEF Init
  <2>3. load \in [value : Nat, fresh : BOOLEAN]
    BY <2>1, 0 \in Nat, FALSE \in BOOLEAN
  <2>4. TypeOK
    BY <2>1, <2>2, <2>3 DEF Init, TypeOK
  <2>5. CapsHeld /\ ExportStopsWhenTold
    BY <2>1 DEF CapsHeld, ExportStopsWhenTold
  <2> QED
    BY <2>4, <2>5 DEF IInv
<1>2. IInv /\ [Next]_vars => IInv'
  BY Step
<1> QED
  BY <1>1, <1>2, PTL DEF Spec

\* Every reachable state is well typed, and a target confirmed has a value.
THEOREM TypeCorrect == Spec => []TypeOK
<1>1. IInv => TypeOK
  BY DEF IInv
<1> QED
  BY <1>1, Invariance, PTL

\* No setpoint in force is beyond the caps of the present knobs, up to the dead-band.
THEOREM CapsAreHeld == Spec => []CapsHeld
<1>1. IInv => CapsHeld
  BY DEF IInv
<1> QED
  BY <1>1, Invariance, PTL

\* Losing a required sensor or the export kill switch ends every export.
THEOREM ExportStops == Spec => []ExportStopsWhenTold
<1>1. IInv => ExportStopsWhenTold
  BY DEF IInv
<1> QED
  BY <1>1, Invariance, PTL

\* Nothing but the Fast-mode hard clamp ever draws on the grid.
THEOREM ImportsAreClamped == Spec => ImportOnlyByHardClamp
<1>1. IInv /\ [Next]_vars => ImportWarranted
  BY Step
<1> QED
  BY <1>1, Invariance, PTL DEF Spec, ImportOnlyByHardClamp
=============================================================================
