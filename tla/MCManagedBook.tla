---------------------------- MODULE MCManagedBook ----------------------------
(* Small instances of ManagedBook for TLC. *)
EXTENDS ManagedBook

OneOrTwo == {1, 2}

=============================================================================
