-------------------------------- MODULE Tass --------------------------------
(***************************************************************************)
(* Target/Actual state separation (crates/core/src/tass).  An actuated     *)
(* entity pairs a target (what the controllers want) with an actual (what  *)
(* the last readback said).  Every mutating method of Target, Actual and   *)
(* Actuated is an operator from the old record to the new one.             *)
(*                                                                         *)
(* The code keeps `since: Instant` and only ever reads `now - since`, so a *)
(* record here keeps the elapsed time, `age`, in whole time units; Older   *)
(* is the passage of time, saturating at a cap that is above every         *)
(* threshold the age is compared with.                                     *)
(***************************************************************************)
EXTENDS Naturals

CONSTANTS
  Values,    \* the values the entity can hold
  Owners,    \* who may own a target (crates/core/src/owner.rs)
  None       \* Option::None for values

ASSUME NoneAssumption == None \notin Values

NoOwner == "Unset"           \* Owner::Unset

Freshnesses == {"Unknown", "Fresh", "Stale", "Deprecated"}
Phases == {"Unset", "Pending", "Commanded", "Confirmed"}

Actuals(ages) ==
  [value : Values \union {None}, freshness : Freshnesses, age : ages]

Targets(ages) ==
  [value : Values \union {None}, owner : Owners \union {NoOwner},
   phase : Phases, age : ages]

-----------------------------------------------------------------------------
(* The actual side.                                                        *)

UnknownActual == [value |-> None, freshness |-> "Unknown", age |-> 0]

\* A reading taken `age` ago: always Fresh, whatever the freshness was.
OnReading(v, age) == [value |-> v, freshness |-> "Fresh", age |-> age]

Deprecate(a) ==
  IF a.freshness \in {"Fresh", "Stale"}
  THEN [value |-> a.value, freshness |-> "Deprecated", age |-> 0]
  ELSE a

\* Fresh -> Stale once older than the staleness threshold.
Decay(a, threshold) ==
  IF a.freshness = "Fresh" /\ a.age > threshold
  THEN [value |-> a.value, freshness |-> "Stale", age |-> a.age]
  ELSE a

Usable(a) == a.freshness = "Fresh" /\ a.value # None

-----------------------------------------------------------------------------
(* The target side.                                                        *)

UnsetTarget ==
  [value |-> None, owner |-> NoOwner, phase |-> "Unset", age |-> 0]

Outstanding(t) == t.phase \in {"Pending", "Commanded"}

\* `(value, owner)` equal and past Unset: no change.
ProposeChanges(t, v, o) ==
  ~ (t.value = v /\ t.owner = o /\ t.phase # "Unset")

ProposeTarget(t, v, o) ==
  IF ProposeChanges(t, v, o)
  THEN [value |-> v, owner |-> o, phase |-> "Pending", age |-> 0]
  ELSE t

NeedsActuation(t, retryAge) == Outstanding(t) /\ t.age >= retryAge

\* Variant: a retry does not restart the retry clock.
MarkCommandedKeepsClock(t) ==
  IF Outstanding(t)
  THEN [value |-> t.value, owner |-> t.owner,
        phase |-> "Commanded", age |-> t.age]
  ELSE t

\* Pending or Commanded becomes Commanded and restarts the retry clock; the
\* readback it makes obsolete is deprecated by MarkCommandedActual.
MarkCommanded(t) ==
  IF Outstanding(t)
  THEN [value |-> t.value, owner |-> t.owner, phase |-> "Commanded", age |-> 0]
  ELSE t

\* Variant: the readback from before the write stays usable.
MarkCommandedActualKeeps(t, a) == a

MarkCommandedActual(t, a) == IF Outstanding(t) THEN Deprecate(a) ELSE a

\* Variant: any readback confirms.
ConfirmIfAny(t, a, close, age) ==
  IF Outstanding(t) /\ t.value # None /\ a.value # None
  THEN [value |-> t.value, owner |-> t.owner,
        phase |-> "Confirmed", age |-> age]
  ELSE t

\* Pending or Commanded becomes Confirmed when the caller's predicate holds of
\* the target and the readback (`close`); the readback was taken `age` ago.
ConfirmIf(t, a, close, age) ==
  IF /\ Outstanding(t)
     /\ t.value # None
     /\ a.value # None
     /\ close
  THEN [value |-> t.value, owner |-> t.owner,
        phase |-> "Confirmed", age |-> age]
  ELSE t

-----------------------------------------------------------------------------
\* One time unit passes for a record that carries an age.
Older(r, cap) == [r EXCEPT !.age = IF r.age < cap THEN r.age + 1 ELSE cap]
=============================================================================
