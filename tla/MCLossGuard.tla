---------------------------- MODULE MCLossGuard -----------------------------
(* Small instances of LossGuard for TLC. *)
EXTENDS LossGuard

\* A loss at the daily limit and a gain.
SmallOutcomes == {-2, 1}

=============================================================================
