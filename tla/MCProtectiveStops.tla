-------------------------- MODULE MCProtectiveStops --------------------------
(* Small instances of ProtectiveStops for TLC. *)
EXTENDS ProtectiveStops

\* In ticks, for a risk of 8: at the stop, in loss, under the floors, between them, near
\* and past +0.8 R (6.4), and past +1.2 R (9.6).
MCPrices == {-8, -2, 1, 2, 5, 7, 8, 10, 13}

=============================================================================
