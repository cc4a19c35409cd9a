------------------------------- MODULE MCPanel -------------------------------
(***************************************************************************)
(* Two radios, two names, and what can be typed in a numeric step: nothing *)
(* or 24, which is no time of day and an offset too far.                   *)
(***************************************************************************)
EXTENDS Panel

MCTyped == {<<>>, <<2, 4>>}

MCSymmetry == Permutations(Ieees) \cup Permutations(Names)
=============================================================================
