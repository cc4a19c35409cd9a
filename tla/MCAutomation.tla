----------------------------- MODULE MCAutomation -----------------------------
(* Small instances of Automation: two events a minute apart, taps, a       *)
(* journal that the events and one tap overflow.                           *)
EXTENDS Automation, TLC

CONSTANTS e1, e2, t1, t2

MCDue == (e1 :> 2) @@ (e2 :> 3)
=============================================================================
