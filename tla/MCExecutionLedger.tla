-------------------------- MODULE MCExecutionLedger --------------------------
(* Small instances of ExecutionLedger for TLC. *)
EXTENDS ExecutionLedger, TLC

Symmetry == Permutations(Intents) \cup Permutations(Loops)

=============================================================================
