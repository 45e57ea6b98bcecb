-------------------------- MODULE MCClosureJournal --------------------------
(* Small instances of ClosureJournal for TLC. *)
EXTENDS ClosureJournal, TLC

Symmetry == Permutations(Positions)

=============================================================================
