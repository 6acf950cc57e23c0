---------------------------- MODULE MCAutonomyRun ----------------------------
(* Small instances of AutonomyRun for TLC. *)
EXTENDS AutonomyRun, TLC

\* Workers, and sessions, are interchangeable.
Symmetry == Permutations(Worker) \cup Permutations(Session)
=============================================================================
