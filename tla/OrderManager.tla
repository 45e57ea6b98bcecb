---------------------------- MODULE OrderManager ----------------------------
(***************************************************************************)
(* One simulated order: its transitions in                                 *)
(* titanium/execution_sim/oms.py, and what matching.py may make of it on   *)
(* one market snapshot.  Prices and liquidity are abstracted to which      *)
(* quantities can be filled; quantities are in lots.                       *)
(***************************************************************************)
EXTENDS Naturals

CONSTANTS
    Quantity,    \* of the intent, in lots
    Snapshots    \* number of market snapshots

Terminal == {"CANCELLED", "FILLED", "REJECTED", "EXPIRED"}
Working  == {"OPEN", "PARTIALLY_FILLED", "CANCEL_PENDING"}
Kinds    == {"market", "limit", "post_only", "ioc", "fok"}

IsTerminal(o) == o.status \in Terminal
IsWorking(o)  == o.status \in Working

\* Mutant: an order that works no more has nothing left to fill.
RemainingIfWorking(o) == IF IsTerminal(o) THEN 0 ELSE o.quantity - o.filled

Remaining(o) == o.quantity - o.filled

Submit(o)        == [o EXCEPT !.status = "OPEN"]
RequestCancel(o) == IF IsTerminal(o) THEN o ELSE [o EXCEPT !.status = "CANCEL_PENDING"]
AckCancel(o)     == IF o.status = "FILLED" THEN o ELSE [o EXCEPT !.status = "CANCELLED"]

\* Mutant: a partial fill answers a request to cancel.
ApplyFillReopens(o, q) ==
    [o EXCEPT !.filled = @ + q,
              !.status = IF q = Remaining(o) THEN "FILLED" ELSE "PARTIALLY_FILLED"]

\* A partial fill leaves a request to cancel pending.
ApplyFill(o, q) ==
    [o EXCEPT !.filled = @ + q,
              !.status = IF q = Remaining(o) THEN "FILLED"
                         ELSE IF @ = "CANCEL_PENDING" THEN @
                         ELSE "PARTIALLY_FILLED"]

\* The liquidity of the snapshot fills any part of the order, or nothing.
Taken(o) == {o} \cup {ApplyFill(o, q) : q \in 1..Remaining(o)}

\* What an IOC or a FOK order does not take at once is cancelled.
Dropped(o) == IF Remaining(o) > 0 THEN AckCancel(RequestCancel(o)) ELSE o

\* All that match() may make of an order.
Matches(kind, o) ==
    IF IsTerminal(o) THEN {o}
    ELSE CASE kind = "ioc" -> {Dropped(x) : x \in Taken(o)}
           [] kind = "fok" -> {Dropped(o), ApplyFill(o, Remaining(o))}
           [] kind = "post_only" -> Taken(o) \cup {[o EXCEPT !.status = "REJECTED"]}
           [] OTHER -> Taken(o)

=============================================================================
