---------------------------- MODULE MCDriverPool ----------------------------
(* DriverPool with interchangeable requests and drivers.                   *)
EXTENDS DriverPool, TLC

Symmetry == Permutations(Procs) \cup Permutations(Drivers)
=============================================================================
