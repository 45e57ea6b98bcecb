-------------------------- MODULE MCEventExecution --------------------------
(* Small instances of EventExecution for TLC. *)
EXTENDS EventExecution, TLC

AllPolicies == {"replace", "vwap", "pov"}
Symmetry    == Permutations(Orders)

=============================================================================
