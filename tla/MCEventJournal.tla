---------------------------- MODULE MCEventJournal ----------------------------
(* Small instances of EventJournal: more ids than the journal keeps.       *)
EXTENDS EventJournal, TLC

CONSTANTS e1, e2, e3

Symmetry == Permutations(Events)
=============================================================================
