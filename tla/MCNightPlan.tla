----------------------------- MODULE MCNightPlan -----------------------------
(* A small instance of NightPlan.                                          *)
EXTENDS NightPlan

\* A bright day, a dull one whose cell is extended, and one in between.
Skies == {<<FALSE, "Target", FALSE>>, <<TRUE, "Full", TRUE>>, <<FALSE, "Target", TRUE>>}

Input(seen, temperature, sky, full, car, zappi) ==
  [soc |-> seen, temperature |-> temperature,
   cell |-> [extended |-> sky[1], target |-> sky[2]], dull |-> sky[3],
   full |-> full, car |-> car, zappi |-> zappi]

\* All skies with and without a full charge required; then, under a bright sky,
\* the sensors lost and the car's inputs one at a time.
MCInputs ==
  {Input(TRUE, TRUE, sky, full, FALSE, TRUE) : sky \in Skies, full \in BOOLEAN} \union
  {Input(seen, ~ seen, sky, FALSE, FALSE, TRUE) : seen \in BOOLEAN, sky \in Skies} \union
  {Input(TRUE, TRUE, <<FALSE, "Target", FALSE>>, FALSE, car, zappi) :
     car \in BOOLEAN, zappi \in BOOLEAN}
=============================================================================
