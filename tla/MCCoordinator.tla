---------------------------- MODULE MCCoordinator ----------------------------
(* A small instance of Coordinator: fewer slots than requests, the second  *)
(* of them to either address.                                              *)
EXTENDS Coordinator, TLC

CONSTANTS a1, a2

MCRids == 1 .. 3
MCSlots == 1 .. 2
MCAddrsOf(r) == IF r # 2 THEN {a1} ELSE {a1, a2}

(* The order of CMD_, READ_ and REPORTING_TIMEOUT_MS.                      *)
MCTimeout ==
  [k \in Kinds |-> IF k \in {"bind", "config_report"} THEN 2 ELSE 1]
=============================================================================
