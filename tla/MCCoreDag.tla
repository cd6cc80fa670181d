------------------------------ MODULE MCCoreDag ------------------------------
(* A bounded instance of CoreDag: small graphs of every shape, and the one  *)
(* the program ships.                                                      *)
EXTENDS ProductionDag

\* Four cores, registered both ways round; three, so that some edges lead
\* nowhere; none; and lists that name a core twice.
SmallRegistrations ==
  {<<0, 1, 2, 3>>, <<3, 1, 2, 0>>, <<2, 0, 1>>, <<>>, <<0, 1, 0>>, <<3, 2, 1, 3>>}

\* Every graph on them in which only core 3 may depend on itself.
SmallGraphs ==
  {[c \in ProductionIds |-> IF c \in 0 .. 3 THEN d[c] ELSE {}] :
     d \in {f \in [0 .. 3 -> SUBSET (0 .. 3)] : \A c \in 0 .. 2 : c \notin f[c]}}

MCArguments ==
  (SmallRegistrations \X SmallGraphs) \union (ProductionRegistrations \X {Declared})
=============================================================================
