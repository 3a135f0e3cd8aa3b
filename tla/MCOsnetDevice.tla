--------------------------- MODULE MCOsnetDevice ---------------------------
(* Objects, ids and NICs are interchangeable. *)
EXTENDS OsnetDevice, TLC

Symmetry == Permutations(Obj) \cup Permutations(Id)
============================================================================
