---------------------------- MODULE MCReporting ----------------------------
(* Two devices and two addresses; times in units of 4 s, the first delay   *)
(* shortened so that the order of the times is kept.                       *)
EXTENDS Reporting
CONSTANTS d1, d2, s1, s2
MCDevices == {d1, d2}
MCShorts == {s1, s2}
MCDelay == [n \in 0 .. MaxShift |-> RetryBase * 2 ^ n]
=============================================================================
