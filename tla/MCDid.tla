-------------------------------- MODULE MCDid --------------------------------
(* Model checking of Did on small sets of CPUs and vectors. *)
EXTENDS Did, TLC

\* The CPUs are alike: the script's order of the CPUs is not modelled.
Symmetry == Permutations(Cpu)
=============================================================================
