----------------------------- MODULE MCFullCharge -----------------------------
(* A small instance of FullCharge.                                         *)
EXTENDS FullCharge

\* The defaults, both ends of the cap and beyond, and every charge deferred.
MCCalendars == {<<3, FALSE>>, <<0, FALSE>>, <<7, FALSE>>, <<3, TRUE>>}
=============================================================================
