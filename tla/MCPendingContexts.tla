-------------------------- MODULE MCPendingContexts --------------------------
(* Small instances of PendingContexts for TLC. *)
EXTENDS PendingContexts

\* All orders are of one symbol and side.
OneSlot == [o \in Orders |-> "EURUSD buy"]

=============================================================================
