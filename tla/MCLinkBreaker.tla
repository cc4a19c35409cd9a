---------------------------- MODULE MCLinkBreaker ----------------------------
(* A small instance of LinkBreaker: the watchdog, a probe, two commands.   *)
EXTENDS LinkBreaker, TLC

CONSTANTS watchdog, probe, c1, c2
=============================================================================
