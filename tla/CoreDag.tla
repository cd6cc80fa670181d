------------------------------- MODULE CoreDag -------------------------------
(***************************************************************************)
(* The core registry (crates/core/src/core_dag/mod.rs): `build` validates  *)
(* the dependency graph of the cores and sorts it with Kahn's algorithm,   *)
(* ties broken by CoreId; `run_all` then runs every core once per event in *)
(* that order.                                                             *)
(*                                                                         *)
(* A CoreId is its discriminant.  An in-degree is kept as the set of       *)
(* dependencies it counts, and depends_on as a set: an edge declared twice *)
(* is counted and released twice, to the same effect.                      *)
(***************************************************************************)
EXTENDS Integers, Sequences, FiniteSets

CONSTANTS
  CoreIds,        \* discriminants of CoreId
  Arguments,      \* what `build` can be given: a sequence of core ids, and the
                  \* depends_on of each: [CoreIds -> SUBSET CoreIds]
  None,
  MaxTicks        \* bound: how many events are processed

ASSUME CoreDagAssumption ==
  /\ CoreIds \subseteq Int
  /\ Arguments \subseteq Seq(CoreIds) \X [CoreIds -> SUBSET CoreIds]
  /\ MaxTicks \in Nat

VARIABLES
  cores, deps,   \* the argument of build
  stage,         \* how far build is
  error,         \* the CoreGraphError, or None
  inDegree,      \* of each core, the dependencies not yet in the order
  ready,         \* the cores without such dependencies
  order,         \* the execution order
  tick,          \* number of the event being processed
  pos,           \* how many cores have run for it
  stamp,         \* of each core, the event it last ran for
  seen           \* of each core, the stamps its dependencies had then

buildVars == <<cores, deps, stage, error, inDegree, ready, order>>
runVars == <<tick, pos, stamp, seen>>
vars == <<buildVars, runVars>>

Elements(s) == {s[i] : i \in 1 .. Len(s)}
Least(s) == CHOOSE x \in s : \A y \in s : x <= y
Ids == Elements(cores)

-----------------------------------------------------------------------------
\* The registrations whose id was registered before.
Repeats == {j \in 1 .. Len(cores) : \E i \in 1 .. j - 1 : cores[i] = cores[j]}

\* build, step 1.
Index ==
  /\ stage = "index"
  /\ IF Repeats = {}
     THEN stage' = "validate" /\ UNCHANGED error
     ELSE /\ stage' = "rejected"
          /\ error' = [kind |-> "DuplicateCore",
                       involving |-> {cores[Least(Repeats)]}]
  /\ UNCHANGED <<cores, deps, inDegree, ready, order, runVars>>

Unresolved(c) == deps[c] \ Ids
Dangling == {i \in 1 .. Len(cores) : Unresolved(cores[i]) # {}}

\* Variant: an edge from a core that is not registered is ignored.
ValidateNothing ==
  /\ stage = "validate"
  /\ stage' = "sort"
  /\ inDegree' = deps
  /\ ready' = {c \in Ids : deps[c] = {}}
  /\ UNCHANGED <<cores, deps, error, order, runVars>>

\* build, steps 2 and 3: an edge to an unknown core is an error; otherwise
\* the in-degrees are counted and the roots are ready.
Validate ==
  /\ stage = "validate"
  /\ IF Dangling # {}
     THEN LET from == cores[Least(Dangling)]
          IN  /\ stage' = "rejected"
              /\ \E missing \in Unresolved(from) :
                   error' = [kind |-> "MissingDependency",
                             involving |-> {from, missing}]
              /\ UNCHANGED <<inDegree, ready>>
     ELSE /\ stage' = "sort"
          /\ inDegree' = deps
          /\ ready' = {c \in Ids : deps[c] = {}}
          /\ UNCHANGED error
  /\ UNCHANGED <<cores, deps, order, runVars>>

\* Variant: one finished dependency is enough.
NewlyReadyAny(c) == {d \in Ids : c \in inDegree[d]}

\* The cores whose in-degree drops to zero when c is ordered.
NewlyReady(c) == {d \in Ids : inDegree[d] = {c}}

\* Variant: the ready core with the largest id is taken.
ComesLast(c) == \A d \in ready : d <= c

\* The ready map is ordered by CoreId, and its first entry is taken.
ComesNext(c) == \A d \in ready : c <= d

\* build, step 4: one round of Kahn's loop.
Place(c) ==
  /\ stage = "sort"
  /\ ComesNext(c)
  /\ order' = Append(order, c)
  /\ ready' = (ready \ {c}) \union NewlyReady(c)
  /\ inDegree' = [d \in CoreIds |-> inDegree[d] \ {c}]
  /\ UNCHANGED <<cores, deps, stage, error, runVars>>

Leftover == {c \in Ids : inDegree[c] # {}}

\* The loop ends: a registry, or a cycle.
Finish ==
  /\ stage = "sort"
  /\ ready = {}
  /\ IF Len(order) = Len(cores)
     THEN stage' = "built" /\ UNCHANGED error
     ELSE /\ stage' = "rejected"
          /\ error' = [kind |-> "Cycle", involving |-> Leftover]
  /\ UNCHANGED <<cores, deps, inDegree, ready, order, runVars>>

-----------------------------------------------------------------------------
\* Variant: the cores run as they were registered.
RunsInRegistrationOrder(i) == cores[i]

Runs(i) == order[i]

\* run_all, once per event: the next event is taken when all cores have run.
BeginEvent ==
  /\ stage = "built"
  /\ pos = Len(order)
  /\ tick < MaxTicks
  /\ tick' = tick + 1
  /\ pos' = 0
  /\ UNCHANGED <<buildVars, stamp, seen>>

\* One core runs: it reads what its dependencies left, and writes its own.
RunCore ==
  /\ stage = "built"
  /\ pos < Len(order)
  /\ LET c == Runs(pos + 1)
     IN  /\ seen' = [seen EXCEPT ![c] = [d \in CoreIds |-> stamp[d]]]
         /\ stamp' = [stamp EXCEPT ![c] = tick]
  /\ pos' = pos + 1
  /\ UNCHANGED <<buildVars, tick>>

-----------------------------------------------------------------------------
Init ==
  /\ \E a \in Arguments : cores = a[1] /\ deps = a[2]
  /\ stage = "index"
  /\ error = None
  /\ inDegree = [c \in CoreIds |-> {}]
  /\ ready = {}
  /\ order = <<>>
  /\ tick = 1
  /\ pos = 0
  /\ stamp = [c \in CoreIds |-> 0]
  /\ seen = [c \in CoreIds |-> [d \in CoreIds |-> 0]]

Next ==
  \/ Index
  \/ Validate
  \/ \E c \in ready : Place(c)
  \/ Finish
  \/ BeginEvent
  \/ RunCore

Spec == Init /\ [][Next]_vars

-----------------------------------------------------------------------------
(* Properties.                                                             *)

TypeOK ==
  /\ cores \in Seq(CoreIds)
  /\ deps \in [CoreIds -> SUBSET CoreIds]
  /\ stage \in {"index", "validate", "sort", "built", "rejected"}
  /\ inDegree \in [CoreIds -> SUBSET CoreIds]
  /\ ready \subseteq CoreIds
  /\ order \in Seq(CoreIds) /\ Len(order) <= Len(cores)
  /\ tick \in Nat /\ pos \in 0 .. Len(order)
  /\ stamp \in [CoreIds -> 0 .. tick]
  /\ seen \in [CoreIds -> [CoreIds -> 0 .. tick]]

\* At every moment of the sort each core in the order is a registered core,
\* placed once, after everything it depends on.
IsTopological(s) ==
  \A i \in 1 .. Len(s) :
    /\ s[i] \in Ids
    /\ \A j \in 1 .. i - 1 : s[j] # s[i]
    /\ \A d \in deps[s[i]] : \E j \in 1 .. i - 1 : s[j] = d

TopologicalOrder == IsTopological(order)

\* A registry that was built runs every registered core, each once.
NothingLeftOut ==
  stage = "built" => Elements(order) = Ids /\ Len(order) = Cardinality(Ids)

\* The cores that can never run: each waits for another one of them.
Stuck == {S \in SUBSET Ids : \A c \in S : deps[c] \intersect S # {}}

Registered(c) == {i \in 1 .. Len(cores) : cores[i] = c}

\* What each CoreGraphError stands for.
Justified(e) ==
  CASE e.kind = "DuplicateCore" ->
         \E c \in Ids : e.involving = {c} /\ Cardinality(Registered(c)) > 1
    [] e.kind = "MissingDependency" ->
         /\ Cardinality(Ids) = Len(cores)
         /\ \E c \in Ids : \E d \in deps[c] \ Ids : e.involving = {c, d}
    [] e.kind = "Cycle" ->
         /\ Cardinality(Ids) = Len(cores)
         /\ \A c \in Ids : deps[c] \subseteq Ids
         /\ e.involving # {} /\ e.involving = UNION Stuck

\* build refuses exactly the lists it should, and for the cause it gives: a
\* registry that was built has no duplicate, no edge out of it and no cycle; a
\* refusal names a core registered twice, or an edge that leads out of a list
\* without duplicates, or exactly the cores on a cycle or downstream of one
\* ("involved in (or downstream of) the cycle", mod.rs 179-243).
VerdictIsExact ==
  /\ stage = "built" =>
       /\ Stuck = {{}}
       /\ \A c \in Ids : Cardinality(Registered(c)) = 1 /\ deps[c] \subseteq Ids
  /\ stage = "rejected" => Justified(error)

Before(i) == {order[j] : j \in 1 .. i - 1}

\* The order is a function of the graph alone, in whatever order the cores were
\* registered ("registration order is irrelevant for correctness", mod.rs
\* 147-157): no core runs while a smaller one could, so that it is the
\* dictionary-least of all topological orders.
OrderIsCanonical ==
  stage = "built" =>
    \A i \in 1 .. Len(order) : \A c \in Ids \ Before(i) :
      deps[c] \subseteq Before(i) => order[i] <= c

\* A core that has run for the present event read, from every core it
\* declares a dependency on, what that core wrote for the present event.
SameTickReads ==
  \A c \in Ids : stamp[c] = tick => \A d \in deps[c] : seen[c][d] = tick

\* No core runs twice for an event, none is skipped, and no event starts
\* before the last one is finished.
EveryCoreOncePerTick ==
  [][ tick' # tick => \A c \in Ids : stamp[c] = tick ]_vars
=============================================================================
