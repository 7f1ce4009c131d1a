------------------------------ MODULE MCSystemV ------------------------------
(* Instances of SystemV for TLC: processes are interchangeable, and so are   *)
(* invocations of the script.                                                *)
EXTENDS SystemV, TLC

Symmetry == Permutations(Procs) \cup Permutations(Runs)
=============================================================================
