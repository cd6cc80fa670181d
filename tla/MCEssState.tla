----------------------------- MODULE MCEssState -----------------------------
(* Small instances of EssState.                                            *)
EXTENDS EssState

\* Six slots a day.  With an offset of 1: a window of two slots, and an empty
\* one (sunrise + offset = sunset - offset).
MCDays == {<<1, 5>>, <<2, 4>>}
MCLongDay == {<<1, 5>>}
MCValues == {9, 10}
=============================================================================
