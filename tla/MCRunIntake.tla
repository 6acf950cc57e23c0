---------------------------- MODULE MCRunIntake ----------------------------
EXTENDS RunIntake, TLC

Symmetry == Permutations(Req) \cup Permutations(Run)
=============================================================================
