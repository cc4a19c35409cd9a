-------------------------- MODULE MCCoordinatorLink --------------------------
(* A line that overruns the buffer before a command of legal size.         *)
EXTENDS CoordinatorLink, TLC
MCSizes == <<3, 1>>
=============================================================================
