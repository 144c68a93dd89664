--------------------------- MODULE MCServiceRuntime ---------------------------
(* Instances of ServiceRuntime for TLC: the requests are interchangeable. *)
EXTENDS ServiceRuntime, TLC

Symmetry == Permutations(Requests)
===============================================================================
