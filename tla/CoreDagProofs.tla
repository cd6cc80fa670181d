---------------------------- MODULE CoreDagProofs ----------------------------
(***************************************************************************)
(* Proofs about CoreDag for every set of cores and every dependency graph: *)
(* the sort yields a topological order, the only one that takes the least  *)
(* core that can be placed; a list is refused for what is wrong with it, a *)
(* registry leaves no core out, and every core reads its dependencies of   *)
(* the same event.  Last, what the cores of ProductionDag read.            *)
(***************************************************************************)
EXTENDS ProductionDag, FiniteSetTheorems, WellFoundedInduction, TLAPS

Placed == Elements(order)

\* The state of the sort: the in-degrees count the dependencies that are not
\* placed, and ready are the unplaced cores that have none left.
BuildInv ==
  /\ stage \in {"index", "validate"} => order = <<>> /\ ready = {}
  /\ stage \in {"sort", "built"} =>
       /\ inDegree = [c \in CoreIds |-> deps[c] \ Placed]
       /\ ready = {c \in Ids \ Placed : deps[c] \subseteq Placed}
  /\ stage = "built" => Placed = Ids

\* The state of run_all: the cores up to pos carry the stamp of the present
\* event, the others that of the event before.
RunInv ==
  /\ tick \in Nat \ {0}
  /\ stage # "built" => pos = 0 /\ tick = 1
  /\ \A c \in CoreIds \ Placed : stamp[c] = 0
  /\ \A i \in 1 .. Len(order) :
       stamp[order[i]] = IF i <= pos THEN tick ELSE tick - 1

IInv == TypeOK /\ TopologicalOrder /\ BuildInv /\ RunInv /\ SameTickReads

-----------------------------------------------------------------------------
\* A sequence without repetition whose elements are among those of another
\* one is not longer, and if it is as long it has all of them.
LEMMA Counting ==
  ASSUME NEW s \in Seq(CoreIds), NEW t \in Seq(CoreIds),
         \A i \in 1 .. Len(s) : \A j \in 1 .. i - 1 : s[j] # s[i],
         Elements(s) \subseteq Elements(t)
  PROVE  /\ Len(s) <= Len(t)
         /\ Len(s) = Len(t) => Elements(s) = Elements(t)
         /\ Elements(s) = Elements(t) => Len(s) = Cardinality(Elements(t))
<1> DEFINE S == 1 .. Len(s)
           T == 1 .. Len(t)
           E == Elements(t)
<1>1. /\ IsFiniteSet(S) /\ Cardinality(S) = Len(s)
      /\ IsFiniteSet(T) /\ Cardinality(T) = Len(t)
  <2>1. Len(s) \in Nat /\ Len(t) \in Nat
    OBVIOUS
  <2>2. ASSUME NEW n \in Nat
        PROVE  IsFiniteSet(1 .. n) /\ Cardinality(1 .. n) = n
    <3>1. 1 \in Int /\ n \in Int
      OBVIOUS
    <3>2. /\ IsFiniteSet(1 .. n)
          /\ Cardinality(1 .. n) = IF 1 > n THEN 0 ELSE n - 1 + 1
      BY <3>1, FS_Interval
    <3> QED BY <3>2
  <2> QED BY <2>1, <2>2
<1>2. t \in Surjection(T, E)
  BY DEF Surjection, Elements
<1>3. IsFiniteSet(E) /\ Cardinality(E) <= Len(t) /\ Cardinality(E) \in Nat
  BY <1>1, <1>2, FS_Surjection, FS_CardinalityType
<1>4. s \in [S -> E]
  BY DEF Elements
<1>5. \A i, j \in S : s[i] = s[j] => i = j
  <2> SUFFICES ASSUME NEW i \in S, NEW j \in S, s[i] = s[j] PROVE i = j
    OBVIOUS
  <2>1. ~ (i < j) /\ ~ (j < i)
    OBVIOUS
  <2> QED BY <2>1
<1>6. s \in Injection(S, E)
  BY <1>4, <1>5 DEF Injection, IsInjective
<1>7. /\ Len(s) <= Cardinality(E)
      /\ Len(s) = Cardinality(E) <=> s \in Surjection(S, E)
  BY <1>1, <1>3, <1>6, FS_Injection
<1>8. Len(s) <= Len(t) /\ (Len(s) = Len(t) => Len(s) = Cardinality(E))
  BY <1>3, <1>7
<1>9. ASSUME s \in Surjection(S, E) PROVE Elements(s) = E
  BY <1>9 DEF Surjection, Elements
<1>10. ASSUME Elements(s) = E PROVE s \in Surjection(S, E)
  BY <1>4, <1>10 DEF Surjection, Elements
<1> QED BY <1>7, <1>8, <1>9, <1>10

\* Appending adds one element and leaves the others where they are.
LEMMA Appending ==
  ASSUME NEW s \in Seq(CoreIds), NEW c \in CoreIds
  PROVE  /\ Append(s, c) \in Seq(CoreIds)
         /\ Len(Append(s, c)) = Len(s) + 1
         /\ Append(s, c)[Len(s) + 1] = c
         /\ \A i \in 1 .. Len(s) : Append(s, c)[i] = s[i]
         /\ Elements(Append(s, c)) = Elements(s) \union {c}
<1>1. /\ Append(s, c) \in Seq(CoreIds)
      /\ Len(Append(s, c)) = Len(s) + 1
      /\ Append(s, c)[Len(s) + 1] = c
      /\ \A i \in 1 .. Len(s) : Append(s, c)[i] = s[i]
  OBVIOUS
<1>2. 1 .. Len(Append(s, c)) = (1 .. Len(s)) \union {Len(s) + 1}
  BY <1>1
<1>3. Elements(Append(s, c)) = Elements(s) \union {c}
  BY <1>1, <1>2 DEF Elements
<1> QED BY <1>1, <1>3
-----------------------------------------------------------------------------
LEMMA IdsAreCores ==
  ASSUME TypeOK
  PROVE  Ids \subseteq CoreIds
<1>1. cores \in Seq(CoreIds)
  BY DEF TypeOK
<1> QED BY <1>1 DEF Ids, Elements

LEMMA InitIInv == Init => IInv
<1> SUFFICES ASSUME Init PROVE IInv
  OBVIOUS
<1>1. Elements(order) = {}
  BY DEF Init, Elements
<1>2. TypeOK
  <2>1. cores \in Seq(CoreIds) /\ deps \in [CoreIds -> SUBSET CoreIds]
    <3>1. PICK a \in Arguments : cores = a[1] /\ deps = a[2]
      BY DEF Init
    <3>2. a \in Seq(CoreIds) \X [CoreIds -> SUBSET CoreIds]
      BY CoreDagAssumption
    <3> QED BY <3>1, <3>2
  <2> QED BY <2>1 DEF Init, TypeOK
<1>3. TopologicalOrder
  BY DEF Init, TopologicalOrder, IsTopological
<1>4. BuildInv
  BY DEF Init, BuildInv
<1>5. RunInv
  BY DEF Init, RunInv
<1>6. SameTickReads
  <2>1. Ids \subseteq CoreIds
    BY <1>2 DEF TypeOK, Ids, Elements
  <2> QED BY <2>1 DEF Init, SameTickReads
<1> QED BY <1>2, <1>3, <1>4, <1>5, <1>6 DEF IInv

\* The steps of build up to the sort leave the order empty.
LEMMA IndexKeeps == IInv /\ Index => IInv'
<1> SUFFICES ASSUME IInv, Index PROVE IInv'
  OBVIOUS
<1> USE DEF IInv
<1>1. TypeOK'
  BY DEF TypeOK, Index, runVars
<1>2. TopologicalOrder'
  BY DEF TopologicalOrder, IsTopological, Index, Ids
<1>3. BuildInv'
  BY DEF BuildInv, Index
<1>4. RunInv'
  BY DEF RunInv, Index, runVars, Placed
<1>5. SameTickReads'
  BY DEF SameTickReads, Index, runVars, Ids
<1> QED BY <1>1, <1>2, <1>3, <1>4, <1>5

LEMMA ValidateKeeps == IInv /\ Validate => IInv'
<1> SUFFICES ASSUME IInv, Validate PROVE IInv'
  OBVIOUS
<1> USE DEF IInv
<1>0. /\ UNCHANGED <<cores, deps, order, tick, pos, stamp, seen>>
      /\ stage = "validate"
      /\ \/ stage' = "rejected" /\ UNCHANGED <<inDegree, ready>>
         \/ /\ stage' = "sort"
            /\ inDegree' = deps
            /\ ready' = {c \in Ids : deps[c] = {}}
  BY DEF Validate, runVars
<1>0a. Ids' = Ids /\ Ids \subseteq CoreIds
  BY <1>0 DEF TypeOK, Ids, Elements
<1>1. TypeOK'
  BY <1>0, <1>0a DEF TypeOK
<1>2. TopologicalOrder'
  BY <1>0, <1>0a DEF TopologicalOrder, IsTopological
<1>3. BuildInv'
  <2>1. Placed' = {} /\ order = <<>>
    BY <1>0 DEF BuildInv, Placed, Elements
  <2>2. deps = [c \in CoreIds |-> deps[c] \ {}]
    BY DEF TypeOK
  <2>3. {c \in Ids : deps[c] = {}} = {c \in Ids \ {} : deps[c] \subseteq {}}
    OBVIOUS
  <2>4. (stage \in {"sort", "built"} =>
           /\ inDegree = [c \in CoreIds |-> deps[c] \ Placed]
           /\ ready = {c \in Ids \ Placed : deps[c] \subseteq Placed})'
    BY <1>0, <1>0a, <2>1, <2>2, <2>3
  <2> QED BY <1>0, <2>4 DEF BuildInv
<1>4. RunInv'
  BY <1>0 DEF RunInv, Placed
<1>5. SameTickReads'
  BY <1>0, <1>0a DEF SameTickReads
<1> QED BY <1>1, <1>2, <1>3, <1>4, <1>5

-----------------------------------------------------------------------------
\* One round of the loop: c is a registered core that is not placed and whose
\* dependencies all are, so the order stays topological.
LEMMA PlaceKeeps ==
  ASSUME IInv, NEW c \in ready, Place(c)
  PROVE  IInv'
<1> USE DEF IInv
<1>1. /\ UNCHANGED <<cores, deps, stage, error, tick, pos, stamp, seen>>
      /\ stage = "sort"
      /\ order' = Append(order, c)
      /\ ready' = (ready \ {c}) \union NewlyReady(c)
      /\ inDegree' = [d \in CoreIds |-> inDegree[d] \ {c}]
  BY DEF Place, runVars
<1>2. /\ Ids' = Ids /\ Ids \subseteq CoreIds
      /\ Ids = Elements(cores)
  <2>1. Ids' = Ids
    BY <1>1 DEF Ids
  <2> QED BY <2>1, IdsAreCores DEF Ids
<1>3. /\ inDegree = [d \in CoreIds |-> deps[d] \ Placed]
      /\ ready = {d \in Ids \ Placed : deps[d] \subseteq Placed}
  BY <1>1 DEF BuildInv
<1>4. c \in Ids /\ c \in CoreIds /\ c \notin Placed /\ deps[c] \subseteq Placed
  BY <1>2, <1>3
<1>5. order \in Seq(CoreIds) /\ cores \in Seq(CoreIds) /\ Len(order) \in Nat
  BY DEF TypeOK
<1>6. /\ order' \in Seq(CoreIds)
      /\ Len(order') = Len(order) + 1
      /\ order'[Len(order) + 1] = c
      /\ \A i \in 1 .. Len(order) : order'[i] = order[i]
      /\ Placed' = Placed \union {c}
  BY <1>1, <1>4, <1>5, Appending DEF Placed
<1>7. TopologicalOrder'
  <2> SUFFICES ASSUME NEW i \in 1 .. Len(order')
               PROVE  /\ order'[i] \in Ids
                      /\ \A j \in 1 .. i - 1 : order'[j] # order'[i]
                      /\ \A d \in deps[order'[i]] :
                           \E j \in 1 .. i - 1 : order'[j] = d
    BY <1>1, <1>2 DEF TopologicalOrder, IsTopological
  <2>1. CASE i \in 1 .. Len(order)
    <3>1. /\ order[i] \in Ids
          /\ \A j \in 1 .. i - 1 : order[j] # order[i]
          /\ \A d \in deps[order[i]] : \E j \in 1 .. i - 1 : order[j] = d
      BY <2>1 DEF TopologicalOrder, IsTopological
    <3>2. \A j \in 1 .. i - 1 : j \in 1 .. Len(order)
      BY <2>1, <1>5
    <3> QED BY <1>6, <2>1, <3>1, <3>2
  <2>2. CASE i = Len(order) + 1
    <3>1. \A j \in 1 .. i - 1 : j \in 1 .. Len(order) /\ order'[j] = order[j]
      BY <1>5, <1>6, <2>2
    <3>2. \A j \in 1 .. Len(order) : order[j] \in Placed
      BY DEF Placed, Elements
    <3>3. \A d \in Placed : \E j \in 1 .. Len(order) : order[j] = d
      BY DEF Placed, Elements
    <3>4. \A d \in Placed : \E j \in 1 .. i - 1 : order'[j] = d
      BY <1>5, <1>6, <2>2, <3>3
    <3> QED BY <1>4, <1>6, <2>2, <3>1, <3>2, <3>4
  <2> QED BY <1>5, <1>6, <2>1, <2>2
<1>8. Len(order') <= Len(cores)
  <2>1. Elements(order') \subseteq Elements(cores)
    BY <1>1, <1>2, <1>7 DEF TopologicalOrder, IsTopological, Elements
  <2>2. \A i \in 1 .. Len(order') : \A j \in 1 .. i - 1 : order'[j] # order'[i]
    BY <1>7 DEF TopologicalOrder, IsTopological
  <2> QED BY <1>5, <1>6, <2>1, <2>2, Counting
<1>9. /\ inDegree' = [d \in CoreIds |-> deps[d] \ Placed']
      /\ ready' = {d \in Ids \ Placed' : deps[d] \subseteq Placed'}
  <2>1. \A d \in CoreIds : inDegree[d] = deps[d] \ Placed
    BY <1>3
  <2>2. inDegree' = [d \in CoreIds |-> deps[d] \ Placed']
    BY <1>1, <1>6, <2>1
  <2>3. NewlyReady(c) = {d \in Ids : deps[d] \ Placed = {c}}
    BY <1>2, <2>1 DEF NewlyReady
  <2>4. ASSUME NEW d \in Ids
        PROVE  d \in ready' <=> (d \notin Placed' /\ deps[d] \subseteq Placed')
    <3>1. d \in ready' <=>
            \/ d # c /\ d \notin Placed /\ deps[d] \subseteq Placed
            \/ deps[d] \ Placed = {c}
      BY <1>1, <1>3, <2>3
    <3>2. d \in Placed => deps[d] \subseteq Placed
      <4> SUFFICES ASSUME d \in Placed, NEW e \in deps[d] PROVE e \in Placed
        OBVIOUS
      <4>1. PICK i \in 1 .. Len(order) : order[i] = d
        BY DEF Placed, Elements
      <4>2. \E j \in 1 .. i - 1 : order[j] = e
        BY <4>1 DEF TopologicalOrder, IsTopological
      <4>3. PICK j \in 1 .. i - 1 : order[j] = e
        BY <4>2
      <4>4. j \in 1 .. Len(order)
        BY <4>1, <4>3, <1>5
      <4> QED BY <4>3, <4>4 DEF Placed, Elements
    <3>3. deps[d] \ Placed = {c} => d \notin Placed /\ d # c
      BY <1>4, <3>2
    <3>4. d \in Placed' <=> d \in Placed \/ d = c
      BY <1>6
    <3>5. deps[d] \subseteq Placed' <=>
            deps[d] \subseteq Placed \/ deps[d] \ Placed = {c}
      BY <1>6
    <3> QED BY <3>1, <3>3, <3>4, <3>5
  <2>5. ready' \subseteq Ids
    BY <1>1, <1>3 DEF NewlyReady
  <2> QED BY <2>2, <2>4, <2>5
<1>10. TypeOK'
  <2>1. inDegree' \in [CoreIds -> SUBSET CoreIds]
    BY <1>1 DEF TypeOK
  <2>2. ready' \subseteq CoreIds
    BY <1>2, <1>9
  <2>3. pos' \in 0 .. Len(order')
    BY <1>1, <1>5, <1>6 DEF TypeOK
  <2> QED BY <1>1, <1>6, <1>8, <2>1, <2>2, <2>3 DEF TypeOK
<1>11. BuildInv'
  <2>1. stage' = "sort"
    BY <1>1
  <2> QED BY <1>1, <1>2, <1>9, <2>1 DEF BuildInv
<1>12. RunInv'
  <2>1. pos = 0 /\ tick = 1
    BY <1>1 DEF RunInv
  <2>2. stamp[c] = 0
    BY <1>4 DEF RunInv
  <2>3. \A d \in CoreIds \ Placed' : stamp[d] = 0
    BY <1>6 DEF RunInv
  <2>4. \A i \in 1 .. Len(order) : stamp[order[i]] = 0
    BY <2>1 DEF RunInv
  <2>5. \A i \in 1 .. Len(order') : stamp[order'[i]] = 0
    BY <1>5, <1>6, <2>2, <2>4
  <2> QED BY <1>1, <2>1, <2>3, <2>5 DEF RunInv
<1>13. SameTickReads'
  BY <1>1, <1>2 DEF SameTickReads
<1> QED BY <1>7, <1>10, <1>11, <1>12, <1>13
\* The loop ends: a full order contains every core, by counting.
LEMMA FinishKeeps == IInv /\ Finish => IInv'
<1> SUFFICES ASSUME IInv, Finish PROVE IInv'
  OBVIOUS
<1> USE DEF IInv
<1>1. /\ UNCHANGED <<cores, deps, inDegree, ready, order, tick, pos, stamp, seen>>
      /\ stage = "sort"
      /\ \/ stage' = "rejected"
         \/ stage' = "built" /\ Len(order) = Len(cores)
  BY DEF Finish, runVars
<1>2. Ids' = Ids /\ Placed' = Placed
  BY <1>1 DEF Ids, Placed
<1>3. TypeOK'
  BY <1>1 DEF TypeOK
<1>4. TopologicalOrder'
  BY <1>1, <1>2 DEF TopologicalOrder, IsTopological
<1>5. stage' = "built" => Placed = Ids
  <2>1. order \in Seq(CoreIds) /\ cores \in Seq(CoreIds)
    BY DEF TypeOK
  <2>2. /\ \A i \in 1 .. Len(order) : order[i] \in Ids
        /\ \A i \in 1 .. Len(order) : \A j \in 1 .. i - 1 : order[j] # order[i]
    BY DEF TopologicalOrder, IsTopological
  <2>3. Elements(order) \subseteq Elements(cores)
    BY <2>2 DEF Elements, Ids
  <2>4. Len(order) = Len(cores) => Elements(order) = Elements(cores)
    BY <2>1, <2>2, <2>3, Counting
  <2> QED BY <1>1, <2>4 DEF Placed, Ids
<1>6. BuildInv'
  BY <1>1, <1>2, <1>5 DEF BuildInv
<1>7. RunInv'
  BY <1>1, <1>2 DEF RunInv
<1>8. SameTickReads'
  BY <1>1, <1>2 DEF SameTickReads
<1> QED BY <1>3, <1>4, <1>6, <1>7, <1>8

LEMMA BeginEventKeeps == IInv /\ BeginEvent => IInv'
<1> SUFFICES ASSUME IInv, BeginEvent PROVE IInv'
  OBVIOUS
<1> USE DEF IInv
<1>1. /\ UNCHANGED <<cores, deps, stage, inDegree, ready, order, stamp, seen>>
      /\ stage = "built"
      /\ pos = Len(order)
      /\ tick' = tick + 1
      /\ pos' = 0
  BY DEF BeginEvent, buildVars
<1>2. Ids' = Ids /\ Placed' = Placed /\ Ids \subseteq CoreIds
  BY <1>1 DEF TypeOK, Ids, Placed, Elements
<1>3. tick \in Nat \ {0} /\ Len(order) \in Nat
  BY DEF RunInv, TypeOK
<1>4. TypeOK'
  <2>1. stamp' \in [CoreIds -> 0 .. tick']
    BY <1>1, <1>3 DEF TypeOK
  <2>2. \A n \in 0 .. tick : n \in 0 .. tick'
    BY <1>1, <1>3
  <2>3. seen' \in [CoreIds -> [CoreIds -> 0 .. tick']]
    <3>1. seen \in [CoreIds -> [CoreIds -> 0 .. tick]]
      BY DEF TypeOK
    <3>2. \A c \in CoreIds : seen[c] \in [CoreIds -> 0 .. tick']
      BY <2>2, <3>1
    <3> QED BY <1>1, <3>1, <3>2
  <2> QED BY <1>1, <1>3, <2>1, <2>3 DEF TypeOK
<1>5. TopologicalOrder'
  BY <1>1, <1>2 DEF TopologicalOrder, IsTopological
<1>6. BuildInv'
  BY <1>1, <1>2 DEF BuildInv
<1>7. RunInv'
  <2>1. \A i \in 1 .. Len(order) : stamp[order[i]] = tick
    BY <1>1 DEF RunInv
  <2> QED BY <1>1, <1>2, <1>3, <2>1 DEF RunInv
<1>8. SameTickReads'
  <2>1. \A c \in CoreIds : stamp[c] # tick'
    BY <1>1, <1>3 DEF TypeOK
  <2> QED BY <1>1, <1>2, <2>1 DEF SameTickReads
<1> QED BY <1>4, <1>5, <1>6, <1>7, <1>8

\* A core runs: its dependencies stand before it in the order, so they carry
\* the stamp of the present event.
LEMMA RunCoreKeeps == IInv /\ RunCore => IInv'
<1> SUFFICES ASSUME IInv, RunCore PROVE IInv'
  OBVIOUS
<1> USE DEF IInv
<1> DEFINE c == order[pos + 1]
<1>1. /\ UNCHANGED <<cores, deps, stage, inDegree, ready, order, tick>>
      /\ stage = "built"
      /\ pos < Len(order)
      /\ pos' = pos + 1
      /\ seen' = [seen EXCEPT ![c] = [d \in CoreIds |-> stamp[d]]]
      /\ stamp' = [stamp EXCEPT ![c] = tick]
  BY DEF RunCore, Runs, buildVars
<1>2. Ids' = Ids /\ Placed' = Placed /\ Ids \subseteq CoreIds
  <2>1. UNCHANGED <<cores, order>>
    BY <1>1
  <2> QED BY <2>1, IdsAreCores DEF Ids, Placed
<1>3. /\ order \in Seq(CoreIds) /\ Len(order) \in Nat
      /\ pos \in Nat /\ pos + 1 \in 1 .. Len(order)
      /\ tick \in Nat \ {0}
  <2>1. order \in Seq(CoreIds) /\ pos \in 0 .. Len(order)
    BY DEF TypeOK
  <2>2. tick \in Nat \ {0}
    BY DEF RunInv
  <2>3. pos < Len(order)
    BY <1>1
  <2> QED BY <2>1, <2>2, <2>3
<1>4. c \in CoreIds /\ c \in Placed
  BY <1>3 DEF Placed, Elements
<1>5. /\ \A i \in 1 .. Len(order) : \A j \in 1 .. i - 1 : order[j] # order[i]
      /\ \A d \in deps[c] : \E j \in 1 .. pos : order[j] = d
  BY <1>3 DEF TopologicalOrder, IsTopological
<1>6. \A i \in 1 .. Len(order) : order[i] = c => i = pos + 1
  <2> SUFFICES ASSUME NEW i \in 1 .. Len(order), order[i] = c PROVE i = pos + 1
    OBVIOUS
  <2>1. ~ (i < pos + 1) /\ ~ (pos + 1 < i)
    BY <1>3, <1>5
  <2> QED BY <1>3, <2>1
<1>7. stamp \in [CoreIds -> 0 .. tick]
      /\ seen \in [CoreIds -> [CoreIds -> 0 .. tick]]
  BY DEF TypeOK
<1> HIDE DEF c
<1>8. TypeOK'
  <2>1. stamp' \in [CoreIds -> 0 .. tick]
    BY <1>1, <1>3, <1>4, <1>7
  <2>2. [d \in CoreIds |-> stamp[d]] \in [CoreIds -> 0 .. tick]
    BY <1>7
  <2>3. seen' \in [CoreIds -> [CoreIds -> 0 .. tick]]
    BY <1>1, <1>4, <1>7, <2>2
  <2>4. /\ UNCHANGED <<cores, deps, stage, inDegree, ready, order, tick>>
        /\ pos' \in 0 .. Len(order)
    BY <1>1, <1>3
  <2> QED BY <2>1, <2>3, <2>4 DEF TypeOK
<1>9. TopologicalOrder'
  BY <1>1, <1>2 DEF TopologicalOrder, IsTopological
<1>10. BuildInv'
  BY <1>1, <1>2 DEF BuildInv
<1>11. RunInv'
  <2>1. \A d \in CoreIds \ Placed : stamp'[d] = 0
    BY <1>1, <1>4, <1>7 DEF RunInv
  <2>2. ASSUME NEW i \in 1 .. Len(order)
        PROVE  stamp'[order[i]] = IF i <= pos + 1 THEN tick ELSE tick - 1
    <3>1. order[i] \in CoreIds
      BY <1>3
    <3>2. CASE i = pos + 1
      <4>1. order[i] = c
        BY <3>2 DEF c
      <4> QED BY <1>1, <1>3, <1>4, <1>7, <3>2, <4>1
    <3>3. CASE i # pos + 1
      <4>1. order[i] # c
        BY <1>6, <3>3
      <4>2. stamp'[order[i]] = stamp[order[i]]
        BY <1>1, <1>7, <3>1, <4>1
      <4>3. i <= pos + 1 <=> i <= pos
        BY <1>3, <3>3
      <4> QED BY <4>2, <4>3 DEF RunInv
    <3> QED BY <3>2, <3>3
  <2> QED BY <1>1, <1>2, <1>3, <2>1, <2>2 DEF RunInv
<1>12. SameTickReads'
  <2> SUFFICES ASSUME NEW b \in Ids, stamp'[b] = tick, NEW d \in deps[b]
               PROVE  seen'[b][d] = tick
    BY <1>1, <1>2 DEF SameTickReads
  <2>1. b \in CoreIds /\ d \in CoreIds
    BY <1>2 DEF TypeOK
  <2>2. CASE b = c
    <3>1. PICK j \in 1 .. pos : order[j] = d
      BY <1>5, <2>2
    <3>2. j \in 1 .. Len(order) /\ j <= pos
      BY <1>3
    <3>3. stamp[d] = tick
      BY <3>1, <3>2 DEF RunInv
    <3>4. seen'[c] = [e \in CoreIds |-> stamp[e]]
      BY <1>1, <1>4, <1>7
    <3> QED BY <2>1, <2>2, <3>3, <3>4
  <2>3. CASE b # c
    <3>1. stamp[b] = tick /\ seen'[b] = seen[b]
      BY <1>1, <1>7, <2>1, <2>3
    <3> QED BY <3>1 DEF SameTickReads
  <2> QED BY <2>2, <2>3
<1> QED BY <1>8, <1>9, <1>10, <1>11, <1>12

-----------------------------------------------------------------------------
LEMMA NextIInv == IInv /\ [Next]_vars => IInv'
<1> SUFFICES ASSUME IInv, [Next]_vars PROVE IInv'
  OBVIOUS
<1>1. CASE Index
  BY <1>1, IndexKeeps
<1>2. CASE Validate
  BY <1>2, ValidateKeeps
<1>3. CASE \E c \in ready : Place(c)
  BY <1>3, PlaceKeeps
<1>4. CASE Finish
  BY <1>4, FinishKeeps
<1>5. CASE BeginEvent
  BY <1>5, BeginEventKeeps
<1>6. CASE RunCore
  BY <1>6, RunCoreKeeps
<1>7. CASE UNCHANGED vars
  <2>1. UNCHANGED <<cores, deps, stage, inDegree, ready, order, tick, pos,
                    stamp, seen>>
    BY <1>7 DEF vars, buildVars, runVars
  <2>2. Ids' = Ids /\ Placed' = Placed
    BY <2>1 DEF Ids, Placed
  <2>3. TypeOK' /\ BuildInv' /\ RunInv'
    BY <2>1, <2>2 DEF IInv, TypeOK, BuildInv, RunInv
  <2>4. TopologicalOrder' /\ SameTickReads'
    BY <2>1, <2>2 DEF IInv, TopologicalOrder, IsTopological, SameTickReads
  <2> QED BY <2>3, <2>4 DEF IInv
<1> QED BY <1>1, <1>2, <1>3, <1>4, <1>5, <1>6, <1>7 DEF Next

THEOREM Invariance == Spec => []IInv
<1> QED BY InitIInv, NextIInv, PTL DEF Spec

\* Every reachable state is well typed, whatever the cores and the graph.
THEOREM TypeCorrect == Spec => []TypeOK
<1>1. IInv => TypeOK
  BY DEF IInv
<1> QED BY <1>1, Invariance, PTL

\* CoreRegistry::build never places a core before one it depends on, nor one
\* core twice: for every list of cores and every dependency graph.
THEOREM OrderIsTopological == Spec => []TopologicalOrder
<1>1. IInv => TopologicalOrder
  BY DEF IInv
<1> QED BY <1>1, Invariance, PTL

\* CoreRegistry::run_all runs every core after the cores it declares, so a
\* declared read is never of an earlier event.
THEOREM ReadsOfSameTick == Spec => []SameTickReads
<1>1. IInv => SameTickReads
  BY DEF IInv
<1> QED BY <1>1, Invariance, PTL

\* No event is taken before every registered core has run for the last one.
THEOREM NoCoreSkipped == Spec => EveryCoreOncePerTick
<1>1. ASSUME IInv, [Next]_vars, tick' # tick
      PROVE  \A c \in Ids : stamp[c] = tick
  <2>1. BeginEvent
    BY <1>1 DEF Next, vars, runVars, Index, Validate, Place, Finish, RunCore
  <2>2. stage = "built" /\ pos = Len(order)
    BY <2>1 DEF BeginEvent
  <2>3. Ids = Placed
    BY <1>1, <2>2 DEF IInv, BuildInv
  <2>4. \A i \in 1 .. Len(order) : stamp[order[i]] = tick
    BY <1>1, <2>2 DEF IInv, RunInv, TypeOK
  <2> QED BY <2>3, <2>4 DEF Placed, Elements
<1>2. IInv /\ [Next]_vars => [tick' # tick => \A c \in Ids : stamp[c] = tick]_vars
  BY <1>1
<1> QED BY <1>2, Invariance, PTL DEF Spec, EveryCoreOncePerTick

\* A registry that build returns has every registered core in its order, once.
THEOREM RegistryIsComplete == Spec => []NothingLeftOut
<1>1. ASSUME IInv, stage = "built"
      PROVE  Elements(order) = Ids /\ Len(order) = Cardinality(Ids)
  <2>1. Elements(order) = Elements(cores)
    BY <1>1 DEF IInv, BuildInv, Placed, Ids
  <2>2. order \in Seq(CoreIds) /\ cores \in Seq(CoreIds)
    BY <1>1 DEF IInv, TypeOK
  <2>3. \A i \in 1 .. Len(order) : \A j \in 1 .. i - 1 : order[j] # order[i]
    BY <1>1 DEF IInv, TopologicalOrder, IsTopological
  <2>4. Len(order) = Cardinality(Elements(cores))
    BY <2>1, <2>2, <2>3, Counting
  <2> QED BY <2>1, <2>4 DEF Ids
<1>2. IInv => NothingLeftOut
  BY <1>1 DEF NothingLeftOut
<1> QED BY <1>2, Invariance, PTL

-----------------------------------------------------------------------------
(* The verdict of build, the order it picks, and what the shipped graph    *)
(* reads: a second invariant, on top of the first.                         *)

\* What build has established by each stage, and why it refused.
VerdictInv ==
  /\ stage \in {"validate", "sort", "built"} => Repeats = {}
  /\ stage \in {"sort", "built"} => \A c \in Ids : deps[c] \subseteq Ids
  /\ stage = "rejected" => Justified(error)

\* Each core was the least that could be placed when it was.
LeastFirst ==
  \A i \in 1 .. Len(order) : \A c \in Ids \ Before(i) :
    deps[c] \subseteq Before(i) => order[i] <= c

\* A core that has run saw the cores before it as of this event, the others as
\* of the last one.
ReadInv ==
  \A i, j \in 1 .. Len(order) :
    i <= pos => seen[order[i]][order[j]] = IF j < i THEN tick ELSE tick - 1

DagInv == VerdictInv /\ LeastFirst /\ ReadInv

\* A set of naturals has a least element.
LEMMA LeastIsLeast ==
  ASSUME NEW S \in SUBSET Nat, S # {}
  PROVE  Least(S) \in S /\ \A y \in S : Least(S) <= y
<1> DEFINE R == OpToRel(<, Nat)
<1>1. IsWellFoundedOn(R, Nat)
  BY NatLessThanWellFounded, Zenon
<1>2. \A x, y \in Nat : <<x, y>> \in R <=> x < y
  BY DEF OpToRel
<1> HIDE DEF R
<1>3. PICK x \in S : \A y \in S : ~ (<<y, x>> \in R)
  BY <1>1, WFMin
<1>4. ASSUME NEW y \in S PROVE x <= y
  <2>1. x \in Nat /\ y \in Nat
    OBVIOUS
  <2>2. ~ (<<y, x>> \in R)
    BY <1>3
  <2>3. ~ (y < x)
    BY <1>2, <2>1, <2>2, Zenon
  <2> QED BY <2>1, <2>3
<1> QED BY <1>4 DEF Least

\* The dependencies of a placed core are placed.
LEMMA PlacedClosed ==
  ASSUME IInv, NEW d \in Placed
  PROVE  deps[d] \subseteq Placed /\ d \in Ids
<1>1. PICK i \in 1 .. Len(order) : order[i] = d
  BY DEF Placed, Elements
<1>2. /\ d \in Ids
      /\ \A e \in deps[d] : \E j \in 1 .. i - 1 : order[j] = e
  BY <1>1 DEF IInv, TopologicalOrder, IsTopological
<1>3. \A j \in 1 .. i - 1 : j \in 1 .. Len(order)
  BY DEF IInv, TypeOK
<1> QED BY <1>2, <1>3 DEF Placed, Elements

\* No core of a stuck set is ever placed: the first of them to be would have
\* had another one before it.
LEMMA StuckUnplaced ==
  ASSUME IInv, NEW S \in Stuck
  PROVE  S \intersect Placed = {}
<1> SUFFICES ASSUME S \intersect Placed # {} PROVE FALSE
  OBVIOUS
<1> DEFINE I == {i \in 1 .. Len(order) : order[i] \in S}
<1>0. Len(order) \in Nat
  BY DEF IInv, TypeOK
<1>1. I \in SUBSET Nat
  BY <1>0
<1>2. I # {}
  BY DEF Placed, Elements
<1>3. \A i \in I : i \in 1 .. Len(order) /\ order[i] \in S
  OBVIOUS
<1>4. \A i \in 1 .. Len(order) : order[i] \in S => i \in I
  OBVIOUS
<1> HIDE DEF I
<1>5. PICK i \in I : \A j \in I : i <= j
  BY <1>1, <1>2, LeastIsLeast
<1>6. i \in 1 .. Len(order) /\ order[i] \in S
  BY <1>3
<1>7. PICK d \in deps[order[i]] : d \in S
  BY <1>6 DEF Stuck
<1>8. \E j \in 1 .. i - 1 : order[j] = d
  BY <1>6 DEF IInv, TopologicalOrder, IsTopological
<1>9. PICK j \in 1 .. i - 1 : order[j] = d
  BY <1>8
<1>10. j \in 1 .. Len(order) /\ j < i
  BY <1>0, <1>6
<1>11. j \in I
  BY <1>4, <1>7, <1>9, <1>10
<1>12. i <= j
  BY <1>5, <1>11
<1> QED BY <1>6, <1>10, <1>12

\* Without a repetition there are as many cores as registrations, each one's
\* own.
LEMMA NoRepeats ==
  ASSUME cores \in Seq(CoreIds), Repeats = {}
  PROVE  /\ Cardinality(Ids) = Len(cores)
         /\ \A c \in Ids : Cardinality(Registered(c)) = 1
<1>1. \A i \in 1 .. Len(cores) : \A j \in 1 .. i - 1 : cores[j] # cores[i]
  BY DEF Repeats
<1>2. Cardinality(Ids) = Len(cores)
  BY <1>1, Counting DEF Ids
<1>3. ASSUME NEW c \in Ids PROVE Cardinality(Registered(c)) = 1
  <2>1. PICK i \in 1 .. Len(cores) : cores[i] = c
    BY DEF Ids, Elements
  <2>2. ASSUME NEW j \in 1 .. Len(cores), cores[j] = c PROVE j = i
    <3>1. ~ (j < i) /\ ~ (i < j)
      BY <1>1, <2>1, <2>2
    <3> QED BY <3>1
  <2>3. Registered(c) = {i}
    BY <2>1, <2>2 DEF Registered
  <2> QED BY <2>3, FS_Singleton
<1> QED BY <1>2, <1>3

-----------------------------------------------------------------------------
LEMMA InitDag == Init => DagInv
<1> SUFFICES ASSUME Init PROVE DagInv
  OBVIOUS
<1>1. order = <<>> /\ stage = "index" /\ pos = 0
  BY DEF Init
<1>2. VerdictInv
  BY <1>1 DEF VerdictInv
<1>3. LeastFirst /\ ReadInv
  BY <1>1 DEF LeastFirst, ReadInv
<1> QED BY <1>2, <1>3 DEF DagInv

\* The first repetition is of a core registered twice.
LEMMA IndexVerdict ==
  ASSUME IInv, DagInv, Index
  PROVE  VerdictInv'
<1>1. /\ UNCHANGED <<cores, deps>> /\ stage = "index"
      /\ cores \in Seq(CoreIds)
  BY DEF Index, IInv, TypeOK
<1>2. /\ Ids' = Ids /\ Repeats' = Repeats
      /\ \A c \in Ids : Registered(c)' = Registered(c)
  BY <1>1 DEF Ids, Repeats, Registered
<1>3. CASE Repeats = {}
  BY <1>1, <1>2, <1>3 DEF VerdictInv, Index
<1>4. CASE Repeats # {}
  <2> DEFINE j == Least(Repeats)
             c == cores[j]
  <2>1. /\ stage' = "rejected"
        /\ error' = [kind |-> "DuplicateCore", involving |-> {c}]
    BY <1>4 DEF Index
  <2>2. Repeats \in SUBSET Nat
    BY <1>1 DEF Repeats
  <2>3. j \in Repeats
    BY <1>4, <2>2, LeastIsLeast
  <2> HIDE DEF j
  <2>4. PICK i \in 1 .. j - 1 : cores[i] = c
    BY <2>3 DEF Repeats
  <2>5. j \in 1 .. Len(cores) /\ i \in 1 .. Len(cores) /\ i # j
    BY <1>1, <2>3, <2>4 DEF Repeats
  <2>6. c \in Ids
    BY <2>5 DEF Ids, Elements
  <2>7. {i, j} \subseteq Registered(c)
    BY <2>4, <2>5 DEF Registered
  <2>8. IsFiniteSet(Registered(c))
    <3>1. 1 \in Int /\ Len(cores) \in Int
      BY <1>1
    <3>2. IsFiniteSet(1 .. Len(cores))
      BY <3>1, FS_Interval
    <3> QED BY <3>2, FS_Subset DEF Registered
  <2>9. Cardinality({i, j}) = 2
    <3>1. IsFiniteSet({i}) /\ Cardinality({i}) = 1
      BY FS_Singleton
    <3>2. Cardinality({i} \union {j}) = 1 + 1
      BY <2>5, <3>1, FS_AddElement
    <3> QED BY <3>2
  <2>10. Cardinality(Registered(c)) > 1
    <3>1. Cardinality({i, j}) <= Cardinality(Registered(c))
      BY <2>7, <2>8, FS_Subset
    <3>2. Cardinality(Registered(c)) \in Nat
      BY <2>8, FS_CardinalityType
    <3> QED BY <2>9, <3>1, <3>2
  <2> HIDE DEF c
  <2>11. Justified(error)'
    <3>1. error'.kind = "DuplicateCore" /\ error'.involving = {c}
      BY <2>1
    <3> QED BY <1>2, <2>6, <2>10, <3>1 DEF Justified
  <2> QED BY <2>1, <2>11 DEF VerdictInv
<1> QED BY <1>3, <1>4

\* The first core with an unresolved edge, and one of its unresolved edges.
LEMMA ValidateVerdict ==
  ASSUME IInv, DagInv, Validate
  PROVE  VerdictInv'
<1>1. /\ UNCHANGED <<cores, deps>> /\ stage = "validate"
      /\ cores \in Seq(CoreIds)
  BY DEF Validate, IInv, TypeOK
<1>2. /\ Ids' = Ids /\ Repeats' = Repeats
  BY <1>1 DEF Ids, Repeats
<1>3. Repeats = {}
  BY <1>1 DEF DagInv, VerdictInv
<1>4. CASE Dangling = {}
  <2>1. \A c \in Ids : deps[c] \subseteq Ids
    BY <1>4 DEF Dangling, Unresolved, Ids, Elements
  <2>2. stage' = "sort"
    BY <1>4 DEF Validate
  <2> QED BY <1>1, <1>2, <1>3, <2>1, <2>2 DEF VerdictInv
<1>5. CASE Dangling # {}
  <2> DEFINE from == cores[Least(Dangling)]
  <2>1. /\ stage' = "rejected"
        /\ \E missing \in Unresolved(from) :
             error' = [kind |-> "MissingDependency", involving |-> {from, missing}]
    BY <1>5 DEF Validate
  <2>2. PICK missing \in Unresolved(from) :
          error' = [kind |-> "MissingDependency", involving |-> {from, missing}]
    BY <2>1
  <2>3. Dangling \in SUBSET Nat
    BY <1>1 DEF Dangling
  <2>4. Least(Dangling) \in Dangling
    BY <1>5, <2>3, LeastIsLeast
  <2>5. from \in Ids
    BY <2>4 DEF Dangling, Ids, Elements
  <2>6. missing \in deps[from] \ Ids
    BY DEF Unresolved
  <2> HIDE DEF from
  <2>7. Cardinality(Ids) = Len(cores)
    BY <1>1, <1>3, NoRepeats
  <2>8. error'.kind = "MissingDependency" /\ error'.involving = {from, missing}
    BY <2>2
  <2>9. Justified(error)'
    BY <1>1, <1>2, <2>5, <2>6, <2>7, <2>8 DEF Justified
  <2> QED BY <2>1, <2>9 DEF VerdictInv
<1> QED BY <1>4, <1>5

\* A loop that ends early leaves exactly the cores on or behind a cycle.
LEMMA FinishVerdict ==
  ASSUME IInv, DagInv, Finish
  PROVE  VerdictInv'
<1>1. /\ UNCHANGED <<cores, deps, order, inDegree, ready>> /\ stage = "sort"
      /\ cores \in Seq(CoreIds) /\ order \in Seq(CoreIds)
      /\ ready = {}
  BY DEF Finish, IInv, TypeOK
<1>2. /\ Ids' = Ids /\ Repeats' = Repeats /\ Stuck' = Stuck
  BY <1>1 DEF Ids, Repeats, Stuck
<1>3. Repeats = {} /\ \A c \in Ids : deps[c] \subseteq Ids
  BY <1>1 DEF DagInv, VerdictInv
<1>4. CASE Len(order) = Len(cores)
  <2>1. stage' = "built"
    BY <1>4 DEF Finish
  <2> QED BY <1>1, <1>2, <1>3, <2>1 DEF VerdictInv
<1>5. CASE Len(order) # Len(cores)
  <2>1. /\ stage' = "rejected"
        /\ error' = [kind |-> "Cycle", involving |-> Leftover]
    BY <1>5 DEF Finish
  <2>2. /\ inDegree = [c \in CoreIds |-> deps[c] \ Placed]
        /\ {c \in Ids \ Placed : deps[c] \subseteq Placed} = {}
    BY <1>1 DEF IInv, BuildInv
  <2>3. Ids \subseteq CoreIds
    BY IdsAreCores DEF IInv
  <2>4. Leftover = {c \in Ids : deps[c] \ Placed # {}}
    BY <2>2, <2>3 DEF Leftover
  <2>5. Leftover = Ids \ Placed
    BY <2>2, <2>4, PlacedClosed
  <2>6. Leftover \in Stuck
    <3>1. ASSUME NEW c \in Leftover PROVE deps[c] \intersect Leftover # {}
      BY <1>3, <2>4, <2>5
    <3> QED BY <2>5, <3>1 DEF Stuck
  <2>7. \A S \in Stuck : S \subseteq Leftover
    BY <2>5, StuckUnplaced DEF Stuck
  <2>8. Leftover = UNION Stuck
    BY <2>6, <2>7
  <2>9. Leftover # {}
    <3> SUFFICES ASSUME Leftover = {} PROVE FALSE
      OBVIOUS
    <3>1. Placed \subseteq Ids
      BY PlacedClosed
    <3>2. Elements(order) = Elements(cores)
      BY <2>5, <3>1 DEF Placed, Ids
    <3>3. \A i \in 1 .. Len(order) : \A j \in 1 .. i - 1 : order[j] # order[i]
      BY DEF IInv, TopologicalOrder, IsTopological
    <3>4. Len(order) = Cardinality(Elements(cores))
      BY <1>1, <3>2, <3>3, Counting
    <3>5. Cardinality(Ids) = Len(cores)
      BY <1>1, <1>3, NoRepeats
    <3> QED BY <1>5, <3>4, <3>5 DEF Ids
  <2>10. Cardinality(Ids) = Len(cores)
    BY <1>1, <1>3, NoRepeats
  <2>11. error'.kind = "Cycle" /\ error'.involving = Leftover
    BY <2>1
  <2>12. Justified(error)'
    BY <1>1, <1>2, <1>3, <2>8, <2>9, <2>10, <2>11 DEF Justified
  <2> QED BY <2>1, <2>12 DEF VerdictInv
<1> QED BY <1>4, <1>5

LEMMA VerdictKept ==
  ASSUME IInv, DagInv, [Next]_vars
  PROVE  VerdictInv'
<1>1. CASE Index
  BY <1>1, IndexVerdict
<1>2. CASE Validate
  BY <1>2, ValidateVerdict
<1>3. CASE Finish
  BY <1>3, FinishVerdict
<1>4. CASE (\E c \in ready : Place(c)) \/ BeginEvent \/ RunCore \/ UNCHANGED vars
  <2>1. UNCHANGED <<cores, deps, stage, error>>
    BY <1>4 DEF Place, BeginEvent, RunCore, vars, buildVars
  <2>2. /\ Ids' = Ids /\ Repeats' = Repeats /\ Stuck' = Stuck
        /\ \A c \in Ids : Registered(c)' = Registered(c)
    BY <2>1 DEF Ids, Repeats, Stuck, Registered
  <2>3. Justified(error) => Justified(error)'
    BY <2>1, <2>2 DEF Justified
  <2> QED BY <2>1, <2>2, <2>3 DEF DagInv, VerdictInv
<1> QED BY <1>1, <1>2, <1>3, <1>4 DEF Next

\* Place takes the least core of those that could be placed; nothing else
\* touches the order.
LEMMA LeastFirstKept ==
  ASSUME IInv, DagInv, [Next]_vars
  PROVE  LeastFirst'
<1>1. ASSUME UNCHANGED <<cores, deps, order>> PROVE LeastFirst'
  <2>1. /\ Ids' = Ids /\ \A i \in 1 .. Len(order) : Before(i)' = Before(i)
    BY <1>1 DEF Ids, Before
  <2> QED BY <1>1, <2>1 DEF DagInv, LeastFirst
<1>2. CASE \E c \in ready : Place(c)
  <2>1. PICK c \in ready : Place(c)
    BY <1>2
  <2>2. /\ UNCHANGED <<cores, deps>> /\ stage = "sort"
        /\ order' = Append(order, c)
        /\ \A d \in ready : c <= d
    BY <2>1 DEF Place, ComesNext
  <2>3. ready = {d \in Ids \ Placed : deps[d] \subseteq Placed}
    BY <2>2 DEF IInv, BuildInv
  <2>4. Ids' = Ids /\ c \in CoreIds
    BY <2>2, <2>3, IdsAreCores DEF Ids, IInv
  <2>5. order \in Seq(CoreIds) /\ Len(order) \in Nat
    BY DEF IInv, TypeOK
  <2>6. /\ Len(order') = Len(order) + 1
        /\ order'[Len(order) + 1] = c
        /\ \A i \in 1 .. Len(order) : order'[i] = order[i]
    BY <2>2, <2>4, <2>5, Appending
  <2>7. ASSUME NEW i \in 1 .. Len(order')
        PROVE  Before(i)' = Before(i)
    <3>1. \A j \in 1 .. i - 1 : j \in 1 .. Len(order)
      BY <2>5, <2>6
    <3> QED BY <2>6, <3>1 DEF Before
  <2>8. Before(Len(order) + 1) = Placed
    BY <2>5 DEF Before, Placed, Elements
  <2> SUFFICES ASSUME NEW i \in 1 .. Len(order'), NEW d \in Ids \ Before(i),
                      deps[d] \subseteq Before(i)
               PROVE  order'[i] <= d
    BY <2>2, <2>4, <2>7 DEF LeastFirst
  <2>9. CASE i \in 1 .. Len(order)
    BY <2>6, <2>9 DEF DagInv, LeastFirst
  <2>10. CASE i = Len(order) + 1
    BY <2>2, <2>3, <2>6, <2>8, <2>10
  <2> QED BY <2>5, <2>6, <2>9, <2>10
<1>3. CASE ~ \E c \in ready : Place(c)
  <2>1. UNCHANGED <<cores, deps, order>>
    BY <1>3 DEF Next, Index, Validate, Finish, BeginEvent, RunCore, vars, buildVars
  <2> QED BY <1>1, <2>1
<1> QED BY <1>2, <1>3

\* RunCore sees this event's stamp on the cores that ran before, the last
\* event's on the others, itself among them.
LEMMA ReadKept ==
  ASSUME IInv, DagInv, [Next]_vars
  PROVE  ReadInv'
<1>1. /\ order \in Seq(CoreIds) /\ Len(order) \in Nat /\ pos \in 0 .. Len(order)
      /\ tick \in Nat \ {0}
      /\ \A i \in 1 .. Len(order) : order[i] \in CoreIds
  <2>1. order \in Seq(CoreIds) /\ pos \in 0 .. Len(order)
    BY DEF IInv, TypeOK
  <2>2. tick \in Nat \ {0}
    BY DEF IInv, RunInv
  <2> QED BY <2>1, <2>2
<1>2. CASE RunCore
  <2> DEFINE c == order[pos + 1]
  <2>1. /\ UNCHANGED <<order, tick>>
        /\ pos < Len(order) /\ pos' = pos + 1
        /\ seen' = [seen EXCEPT ![c] = [d \in CoreIds |-> stamp[d]]]
    BY <1>2 DEF RunCore, Runs, buildVars
  <2>2. seen \in [CoreIds -> [CoreIds -> 0 .. tick]]
    BY DEF IInv, TypeOK
  <2>3. pos + 1 \in 1 .. Len(order) /\ c \in CoreIds
    BY <1>1, <2>1
  <2>4. ASSUME NEW i \in 1 .. Len(order), i # pos + 1 PROVE order[i] # c
    <3>1. \A a \in 1 .. Len(order) : \A b \in 1 .. a - 1 : order[b] # order[a]
      BY DEF IInv, TopologicalOrder, IsTopological
    <3>2. i < pos + 1 \/ pos + 1 < i
      BY <1>1, <2>4
    <3> QED BY <1>1, <2>3, <3>1, <3>2
  <2> HIDE DEF c
  <2> SUFFICES ASSUME NEW i \in 1 .. Len(order), NEW j \in 1 .. Len(order),
                      i <= pos + 1
               PROVE  seen'[order[i]][order[j]] = IF j < i THEN tick ELSE tick - 1
    BY <2>1 DEF ReadInv
  <2>5. CASE i = pos + 1
    <3>1. order[i] = c
      BY <2>5 DEF c
    <3>2. seen'[c] = [d \in CoreIds |-> stamp[d]]
      BY <2>1, <2>2, <2>3
    <3>3. seen'[order[i]][order[j]] = stamp[order[j]]
      BY <1>1, <3>1, <3>2
    <3>4. stamp[order[j]] = IF j <= pos THEN tick ELSE tick - 1
      BY DEF IInv, RunInv
    <3>5. j <= pos <=> j < i
      BY <1>1, <2>5
    <3> QED BY <3>3, <3>4, <3>5
  <2>6. CASE i # pos + 1
    <3>1. seen'[order[i]] = seen[order[i]]
      BY <1>1, <2>1, <2>2, <2>4, <2>6
    <3>2. i <= pos
      BY <1>1, <2>6
    <3> QED BY <3>1, <3>2 DEF DagInv, ReadInv
  <2> QED BY <2>5, <2>6
<1>3. CASE pos' = 0
  <2>1. \A i \in 1 .. Len(order') : ~ (i <= pos')
    BY <1>3
  <2> QED BY <2>1 DEF ReadInv
<1>4. CASE ~ RunCore /\ pos' # 0
  <2>1. UNCHANGED <<tick, pos, seen>>
    BY <1>4 DEF Next, Index, Validate, Place, Finish, BeginEvent, vars, runVars
  <2>2. stage = "built"
    BY <1>4, <2>1 DEF IInv, RunInv
  <2>3. UNCHANGED order
    BY <1>4, <2>2 DEF Next, Index, Validate, Place, Finish, BeginEvent, vars,
                      buildVars
  <2> QED BY <2>1, <2>3 DEF DagInv, ReadInv
<1> QED BY <1>2, <1>3, <1>4

THEOREM DagInvariance == Spec => [](IInv /\ DagInv)
<1>1. Init => IInv /\ DagInv
  BY InitIInv, InitDag
<1>2. IInv /\ DagInv /\ [Next]_vars => (IInv /\ DagInv)'
  BY NextIInv, VerdictKept, LeastFirstKept, ReadKept DEF DagInv
<1> QED BY <1>1, <1>2, PTL DEF Spec

-----------------------------------------------------------------------------
\* CoreRegistry::build refuses exactly the lists it should, for the cause it
\* gives: for every list of cores and every dependency graph.
THEOREM VerdictCorrect == Spec => []VerdictIsExact
<1>1. ASSUME IInv, DagInv, stage = "built"
      PROVE  /\ Stuck = {{}}
             /\ \A c \in Ids : Cardinality(Registered(c)) = 1 /\ deps[c] \subseteq Ids
  <2>1. Placed = Ids
    BY <1>1 DEF IInv, BuildInv
  <2>2. Repeats = {} /\ \A c \in Ids : deps[c] \subseteq Ids
    BY <1>1 DEF DagInv, VerdictInv
  <2>3. cores \in Seq(CoreIds)
    BY <1>1 DEF IInv, TypeOK
  <2>4. {} \in Stuck
    BY DEF Stuck
  <2>5. \A S \in Stuck : S = {}
    BY <1>1, <2>1, StuckUnplaced DEF Stuck
  <2> QED BY <2>2, <2>3, <2>4, <2>5, NoRepeats
<1>2. DagInv /\ stage = "rejected" => Justified(error)
  BY DEF DagInv, VerdictInv
<1>3. IInv /\ DagInv => VerdictIsExact
  BY <1>1, <1>2 DEF VerdictIsExact
<1> QED BY <1>3, DagInvariance, PTL

\* The order is the one in which no core runs while a smaller one could,
\* however the cores were registered: for every graph.
THEOREM OrderCanonical == Spec => []OrderIsCanonical
<1>1. DagInv => OrderIsCanonical
  BY DEF DagInv, LeastFirst, OrderIsCanonical
<1> QED BY <1>1, DagInvariance, PTL

\* The places of the shipped cores in the order that is built, as far as the
\* reads depend on them: the edges say most of it; that the zappi mode comes
\* after the setpoint, which no edge says, is the order of the ids.
LEMMA ShippedOrder ==
  ASSUME IInv, DagInv, deps = Declared, Ids = ProductionIds, Placed = Ids,
         NEW i \in 1 .. Len(order), NEW j \in 1 .. Len(order),
         order[j] \in Reads[order[i]]
  PROVE  j < i <=> <<order[i], order[j]>> \notin Lagging
<1> USE DEF ZappiActive, Setpoint, CurrentLimit, Schedules, ZappiMode, EddiMode,
            WeatherSoc, EssStateOverride, SensorBroadcast
<1>0. /\ Len(order) \in Nat
      /\ order[i] \in 0 .. 8 /\ order[j] \in 0 .. 8
  <2>1. Len(order) \in Nat
    BY DEF IInv, TypeOK
  <2>2. order[i] \in ProductionIds /\ order[j] \in ProductionIds
    BY DEF Placed, Elements
  <2> QED BY <2>1, <2>2 DEF ProductionIds
<1>1. \A a, b \in 1 .. Len(order) : order[b] \in deps[order[a]] => b < a
  <2> SUFFICES ASSUME NEW a \in 1 .. Len(order), NEW b \in 1 .. Len(order),
                      order[b] \in deps[order[a]]
               PROVE  b < a
    OBVIOUS
  <2>1. PICK k \in 1 .. a - 1 : order[k] = order[b]
    <3>1. \E k \in 1 .. a - 1 : order[k] = order[b]
      BY DEF IInv, TopologicalOrder, IsTopological
    <3> QED BY <3>1
  <2>2. \A x \in 1 .. Len(order) : \A y \in 1 .. x - 1 : order[y] # order[x]
    BY DEF IInv, TopologicalOrder, IsTopological
  <2>3. k \in 1 .. Len(order) /\ k < a
    BY <1>0, <2>1
  <2>4. ~ (k < b) /\ ~ (b < k)
    BY <1>0, <2>1, <2>2, <2>3
  <2> QED BY <1>0, <2>3, <2>4
<1>2. \A c \in 0 .. 8 : \E k \in 1 .. Len(order) : order[k] = c
  BY DEF Placed, Elements, ProductionIds
<1>3. ASSUME order[i] = Setpoint, order[j] = WeatherSoc PROVE i < j
  <2>1. Setpoint \in deps[WeatherSoc]
    BY DEF Declared, ProductionIds, WeatherSocDeps
  <2> QED BY <1>1, <1>3, <2>1
<1>4. ASSUME order[i] = CurrentLimit, order[j] = WeatherSoc PROVE j < i
  <2>1. PICK k \in 1 .. Len(order) : order[k] = Schedules
    BY <1>2
  <2>2. Schedules \in deps[CurrentLimit] /\ WeatherSoc \in deps[Schedules]
    BY DEF Declared, ProductionIds, CurrentLimitDeps, SchedulesDeps
  <2>3. j < k /\ k < i
    BY <1>1, <1>4, <2>1, <2>2
  <2> QED BY <1>0, <2>3
<1>5. ASSUME order[i] = Setpoint, order[j] = ZappiMode PROVE ~ (j < i)
  <2> SUFFICES ASSUME j < i PROVE FALSE
    OBVIOUS
  <2>1. /\ \A x \in 1 .. Len(order) : \A y \in 1 .. x - 1 : order[y] # order[x]
        /\ \A c \in Ids \ Before(j) : deps[c] \subseteq Before(j) => order[j] <= c
    BY DEF IInv, TopologicalOrder, IsTopological, DagInv, LeastFirst
  <2>2. Setpoint \in Ids \ Before(j)
    <3>1. \A y \in 1 .. j - 1 : order[y] # order[i]
      BY <1>0, <2>1
    <3> QED BY <1>5, <3>1 DEF Before, ProductionIds
  <2>3. ZappiActive \in Before(j)
    <3>1. deps[ZappiActive] = {} /\ ZappiActive \in Ids
      BY DEF Declared, ProductionIds
    <3>2. ~ (order[j] <= ZappiActive)
      BY <1>5
    <3> QED BY <2>1, <3>1, <3>2
  <2>4. deps[Setpoint] = {ZappiActive}
    BY DEF Declared, ProductionIds, SetpointDeps
  <2>5. order[j] <= Setpoint
    BY <2>1, <2>2, <2>3, <2>4
  <2> QED BY <1>5, <2>5
<1>6. \/ order[j] \in deps[order[i]]
      \/ order[i] = Setpoint /\ order[j] \in {WeatherSoc, ZappiMode}
      \/ order[i] = CurrentLimit /\ order[j] = WeatherSoc
  <2>1. Reads[order[i]] =
          CASE order[i] = Setpoint -> SetpointReads
            [] order[i] = CurrentLimit -> CurrentLimitReads
            [] order[i] = Schedules -> SchedulesReads
            [] OTHER -> deps[order[i]]
    BY <1>0 DEF Reads, Declared, ProductionIds
  <2>2. CASE order[i] = Setpoint
    <3>1. deps[order[i]] = {ZappiActive}
      BY <2>2 DEF Declared, ProductionIds, SetpointDeps
    <3> QED BY <2>1, <2>2, <3>1 DEF SetpointReads
  <2>3. CASE order[i] = CurrentLimit
    <3>1. deps[order[i]] = CurrentLimitDeps
      BY <2>3 DEF Declared, ProductionIds
    <3> QED BY <2>1, <2>3, <3>1 DEF CurrentLimitReads, CurrentLimitDeps
  <2>4. CASE order[i] = Schedules
    <3>1. deps[order[i]] = SchedulesDeps
      BY <2>4 DEF Declared, ProductionIds
    <3> QED BY <2>1, <2>4, <3>1 DEF SchedulesReads, SchedulesDeps
  <2>5. CASE order[i] \notin {Setpoint, CurrentLimit, Schedules}
    BY <2>1, <2>5
  <2> QED BY <2>2, <2>3, <2>4, <2>5
<1>7. order[j] \in deps[order[i]] => <<order[i], order[j]>> \notin Lagging
  <2>1. deps[Setpoint] = {ZappiActive}
    BY DEF Declared, ProductionIds, SetpointDeps
  <2> QED BY <2>1 DEF Lagging
<1>8. /\ order[i] = Setpoint /\ order[j] \in {WeatherSoc, ZappiMode}
        => <<order[i], order[j]>> \in Lagging
      /\ order[i] = CurrentLimit => <<order[i], order[j]>> \notin Lagging
  BY DEF Lagging
<1> QED BY <1>0, <1>1, <1>3, <1>4, <1>5, <1>6, <1>7, <1>8

\* In the graph the program ships every read is of the event being processed,
\* declared or not, but for the two of the setpoint, which are of the event
\* before: for any number of events, however the cores were registered.
THEOREM ReadsCurrent == Spec => []ReadsAreCurrent
<1>1. ASSUME IInv, DagInv, deps = Declared, Ids = ProductionIds,
             NEW c \in ProductionIds, stamp[c] = tick, NEW d \in Reads[c]
      PROVE  seen[c][d] = IF <<c, d>> \in Lagging THEN tick - 1 ELSE tick
  <2>1. ProductionIds \subseteq CoreIds
    BY <1>1, IdsAreCores DEF IInv
  <2>2. c \in Placed
    BY <1>1, <2>1 DEF IInv, RunInv
  <2>3. PICK i \in 1 .. Len(order) : order[i] = c
    BY <2>2 DEF Placed, Elements
  <2>4. i <= pos
    <3>1. /\ stamp[order[i]] = IF i <= pos THEN tick ELSE tick - 1
          /\ tick \in Nat
      BY <1>1 DEF IInv, RunInv
    <3> QED BY <1>1, <2>3, <3>1
  <2>5. Placed = Ids
    <3>1. pos # 0
      BY <2>4
    <3> QED BY <1>1, <3>1 DEF IInv, BuildInv, RunInv
  <2>6. d \in ProductionIds
    <3> USE DEF ZappiActive, Setpoint, CurrentLimit, Schedules, ZappiMode, EddiMode,
                WeatherSoc, EssStateOverride, SensorBroadcast
    <3>1. /\ Declared[c] \subseteq ProductionIds
          /\ SetpointReads \subseteq ProductionIds
          /\ CurrentLimitReads \subseteq ProductionIds
          /\ SchedulesReads \subseteq ProductionIds
      <4>1. /\ SetpointReads \subseteq ProductionIds
            /\ CurrentLimitReads \subseteq ProductionIds
            /\ SchedulesReads \subseteq ProductionIds
        BY DEF SetpointReads, CurrentLimitReads, SchedulesReads, ProductionIds
      <4>2. /\ SetpointDeps \subseteq ProductionIds
            /\ CurrentLimitDeps \subseteq ProductionIds
            /\ SchedulesDeps \subseteq ProductionIds
            /\ WeatherSocDeps \subseteq ProductionIds
            /\ EssStateOverrideDeps \subseteq ProductionIds
            /\ SensorBroadcastDeps \subseteq ProductionIds
        BY DEF SetpointDeps, CurrentLimitDeps, SchedulesDeps, WeatherSocDeps,
               EssStateOverrideDeps, SensorBroadcastDeps, ProductionIds
      <4> QED BY <4>1, <4>2 DEF Declared
    <3>2. Reads[c] \in {Declared[c], SetpointReads, CurrentLimitReads, SchedulesReads}
      BY DEF Reads, Declared
    <3> QED BY <1>1, <3>1, <3>2
  <2>7. PICK j \in 1 .. Len(order) : order[j] = d
    BY <1>1, <2>5, <2>6 DEF Placed, Elements
  <2>8. j < i <=> <<order[i], order[j]>> \notin Lagging
    BY <1>1, <2>3, <2>5, <2>7, ShippedOrder
  <2>9. seen[order[i]][order[j]] = IF j < i THEN tick ELSE tick - 1
    BY <1>1, <2>4 DEF DagInv, ReadInv
  <2> QED BY <2>3, <2>7, <2>8, <2>9
<1>2. IInv /\ DagInv => ReadsAreCurrent
  BY <1>1 DEF ReadsAreCurrent
<1> QED BY <1>2, DagInvariance, PTL
=============================================================================
