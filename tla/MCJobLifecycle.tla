--------------------------- MODULE MCJobLifecycle ---------------------------
(* Job lifecycle for TLC.  Jobs and DELETE requests are interchangeable, so *)
(* the safety runs use symmetry; the liveness runs do not.                  *)
EXTENDS JobLifecycle, TLC

SymmetricActors == Permutations(Jobs) \cup Permutations(Deleters)
=============================================================================
