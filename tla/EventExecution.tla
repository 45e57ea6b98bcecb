--------------------------- MODULE EventExecution ---------------------------
(***************************************************************************)
(* The event-driven executor of titanium/execution_sim/runner.py, which    *)
(* serves the policies cancel_replace and pegged ("replace": one working   *)
(* order, cancelled and replaced as the market moves), vwap (slices        *)
(* planned at the start) and pov (slices decided as volume is seen).       *)
(*                                                                         *)
(* On each market snapshot it submits what is due, matches what is open,   *)
(* and only then lets the policy look at the snapshot and schedule more.   *)
(***************************************************************************)
EXTENDS OrderManager, FiniteSets

CONSTANTS
    Orders,      \* client order ids
    None,        \* no order
    Policies,    \* the policies to consider
    MaxDelay     \* longest delay of a submission, in snapshots

ASSUME EventAssumption ==
    /\ None \notin Orders
    /\ Policies \subseteq {"replace", "vwap", "pov"}
    /\ Quantity \in Nat \ {0}
    /\ Snapshots \in Nat \ {0}
    /\ MaxDelay \in Nat

VARIABLES
    policy,     \* the policy that runs
    left,       \* what its plan has not used of the quantity
    pc,         \* step of the loop
    now,        \* the snapshot
    orders,     \* of each id
    pending,    \* ids scheduled and not yet submitted
    dynamic,    \* current_dynamic
    todo,       \* open orders still to match on this snapshot
    position,   \* the portfolio's quantity
    posted,     \* of each id, what the portfolio has been told of
    refused     \* history: the risk engine refused a submission

loop == <<pc, now, todo>>
book == <<orders, pending, dynamic, position, posted>>
vars == <<policy, left, loop, book, refused>>

Order   == [status : {"CREATED"} \cup Working \cup Terminal, quantity : Nat, filled : Nat,
            replaces : Orders \cup {None}, due : Nat, decided : Nat]
NoOrder == [status |-> "CREATED", quantity |-> 0, filled |-> 0,
            replaces |-> None, due |-> 0, decided |-> 0]
Unused  == {i \in Orders : orders[i] = NoOrder /\ i \notin pending}
Open    == {i \in Orders : IsWorking(orders[i])}

Init ==
    /\ policy \in Policies
    /\ left = Quantity
    /\ pc = "plan"
    /\ now = 0
    /\ orders = [i \in Orders |-> NoOrder]
    /\ pending = {}
    /\ dynamic = None
    /\ todo = {}
    /\ position = 0
    /\ posted = [i \in Orders |-> 0]
    /\ refused = FALSE

\* Mutant: the policy decides before what it scheduled earlier is matched.
StepAfterDecidesFirst(step) ==
    CASE step = "activate" -> <<"match", now>>
      [] step = "match" -> IF now = Snapshots THEN <<"done", now>> ELSE <<"decide", now + 1>>
      [] step = "decide" -> <<"activate", now>>

\* The three steps of the loop on a snapshot, then the next snapshot.
StepAfter(step) ==
    CASE step = "activate" -> <<"match", now>>
      [] step = "match" -> <<"decide", now>>
      [] step = "decide" -> IF now = Snapshots THEN <<"done", now>> ELSE <<"activate", now + 1>>

Goto(step) == pc' = step[1] /\ now' = step[2]

\* schedule(): an order of quantity q, due at a later time, that may replace another.
Scheduled(q, replaces, due) ==
    [status |-> "CREATED", quantity |-> q, filled |-> 0,
     replaces |-> replaces, due |-> due, decided |-> now]

(***************************************************************************)
(* policy.plan, on the first snapshot: one order for the quantity, or the  *)
(* slices of vwap, which need not use all of it.                           *)
(***************************************************************************)
Plan(i, q, due) ==
    /\ pc = "plan"
    /\ i \in Unused
    /\ policy = "vwap" \/ (policy = "replace" /\ q = Quantity)
    /\ q \in 1..left
    /\ left' = left - q
    /\ orders' = [orders EXCEPT ![i] = Scheduled(q, None, due)]
    /\ pending' = pending \cup {i}
    /\ UNCHANGED <<policy, loop, dynamic, position, posted, refused>>

StartRun ==
    /\ pc = "plan"
    /\ policy = "replace" => left = 0
    /\ pc' = "activate"
    /\ now' = 1
    /\ UNCHANGED <<policy, left, todo, book, refused>>

(***************************************************************************)
(* submit(), for the orders whose time has come.                           *)
(***************************************************************************)
Due(i) == pc = "activate" /\ i \in pending /\ orders[i].due <= now

Replaced(i) == orders[i].replaces

\* The book once the order that i replaces is cancelled.
Settled(i) ==
    LET Cancelled(o) == IF IsTerminal(o) THEN o ELSE AckCancel(o) IN
    IF Replaced(i) = None THEN orders ELSE [orders EXCEPT ![Replaced(i)] = Cancelled(@)]

\* A replacement gets what is left of the order it replaces, at that time.
Size(i) ==
    IF Replaced(i) = None THEN orders[i].quantity ELSE Remaining(Settled(i)[Replaced(i)])

\* The order to replace has been filled meanwhile: the replacement is dropped.
DropReplacement(i) ==
    /\ Due(i)
    /\ Size(i) = 0
    /\ orders' = [Settled(i) EXCEPT ![i] = NoOrder]
    /\ pending' = pending \ {i}
    /\ UNCHANGED <<policy, left, loop, dynamic, position, posted, refused>>

\* The order it replaces is cancelled, then the risk engine accepts the new one or not.
Activate(i) ==
    /\ Due(i)
    /\ Size(i) > 0
    /\ \/ /\ orders' = [Settled(i) EXCEPT ![i] = Submit([orders[i] EXCEPT !.quantity = Size(i)])]
          /\ dynamic' = IF policy = "replace" THEN i ELSE dynamic
          /\ UNCHANGED refused
       \/ /\ orders' = [Settled(i) EXCEPT ![i] = NoOrder]
          /\ refused' = TRUE
          /\ UNCHANGED dynamic
    /\ pending' = pending \ {i}
    /\ UNCHANGED <<policy, left, loop, position, posted>>

EndActivate ==
    /\ pc = "activate"
    /\ \A i \in pending : orders[i].due > now
    /\ todo' = Open
    /\ Goto(StepAfter("activate"))
    /\ UNCHANGED <<policy, left, book, refused>>

(***************************************************************************)
(* matcher.match and post_new_fills.                                       *)
(***************************************************************************)

\* The fills of an order the portfolio has not been told of.
NewFills(i, o) == o.filled - posted[i]

Match(i) ==
    /\ pc = "match"
    /\ i \in todo
    /\ todo' = todo \ {i}
    /\ \E o \in Matches("limit", orders[i]) :
          /\ orders' = [orders EXCEPT ![i] = o]
          /\ position' = position + NewFills(i, o)
          /\ posted' = [posted EXCEPT ![i] = o.filled]
    /\ UNCHANGED <<policy, left, pc, now, pending, dynamic, refused>>

EndMatch ==
    /\ pc = "match"
    /\ todo = {}
    /\ Goto(StepAfter("match"))
    /\ UNCHANGED <<policy, left, todo, book, refused>>

(***************************************************************************)
(* The policy looks at the snapshot.                                       *)
(***************************************************************************)

Replaceable ==
    /\ dynamic # None
    /\ ~IsTerminal(orders[dynamic])
    /\ orders[dynamic].status # "CANCEL_PENDING"

\* Cancel the working order and schedule its replacement.
DecideReplace(i, due) ==
    /\ pc = "decide"
    /\ policy = "replace"
    /\ Replaceable
    /\ i \in Unused
    /\ orders' = [orders EXCEPT ![dynamic] = RequestCancel(@),
                                ![i] = Scheduled(Remaining(orders[dynamic]), dynamic, due)]
    /\ pending' = pending \cup {i}
    /\ Goto(StepAfter("decide"))
    /\ UNCHANGED <<policy, left, todo, dynamic, position, posted, refused>>

\* Mutant: a slice is not taken off what is left.
LeftAfterForgets(q) == left

LeftAfter(q) == left - q

\* on_volume: a slice of what is left.
DecideSlice(i, q, due) ==
    /\ pc = "decide"
    /\ policy = "pov"
    /\ i \in Unused
    /\ q \in 1..left
    /\ left' = LeftAfter(q)
    /\ orders' = [orders EXCEPT ![i] = Scheduled(q, None, due)]
    /\ pending' = pending \cup {i}
    /\ Goto(StepAfter("decide"))
    /\ UNCHANGED <<policy, todo, dynamic, position, posted, refused>>

DecideNothing ==
    /\ pc = "decide"
    /\ Goto(StepAfter("decide"))
    /\ UNCHANGED <<policy, left, todo, book, refused>>

\* The times a submission can be due: its delay, rounded up to a snapshot.
Dues(from) == from..from + MaxDelay

Next ==
    \/ \E i \in Orders, q \in 1..Quantity, due \in Dues(1) : Plan(i, q, due)
    \/ StartRun
    \/ \E i \in Orders : DropReplacement(i) \/ Activate(i) \/ Match(i)
    \/ EndActivate
    \/ EndMatch
    \/ \E i \in Orders, due \in Dues(now) : DecideReplace(i, due)
    \/ \E i \in Orders, q \in 1..Quantity, due \in Dues(now) : DecideSlice(i, q, due)
    \/ DecideNothing

Spec == Init /\ [][Next]_vars

(***************************************************************************)
(* Properties.                                                             *)
(***************************************************************************)

\* Every variable has its type, and no order is filled past its own quantity.
TypeOK ==
    /\ policy \in Policies
    /\ left \in 0..Quantity
    /\ pc \in {"plan", "activate", "match", "decide", "done"}
    /\ now \in 0..Snapshots
    /\ orders \in [Orders -> Order]
    /\ \A i \in Orders : orders[i].filled <= orders[i].quantity
    /\ pending \subseteq Orders
    /\ dynamic \in Orders \cup {None}
    /\ todo \subseteq Orders
    /\ position \in Nat
    /\ posted \in [Orders -> Nat]
    /\ refused \in BOOLEAN

\* The lots of all orders that are filled, one by one.
FilledLots == UNION {{i} \X (1..orders[i].filled) : i \in Orders}

\* The slices of vwap and pov never fill more than the intent together.
SlicesNeverOverfill ==
    policy # "replace" => Cardinality(FilledLots) <= Quantity

\* Cancelling and replacing never fills more than the intent, though the order to cancel
\* goes on filling until its replacement is submitted.
ReplaceNeverOverfills == policy = "replace" => position <= Quantity

\* Never are two orders of a replacing policy at work at once.
OneWorkingOrder ==
    policy = "replace" => \A i, j \in Open : i = j

\* A replacing policy that is not filled has an order at work or scheduled, unless the
\* risk engine refused one.
NeverIdle ==
    policy = "replace" /\ pc # "plan" /\ ~refused
        => position = Quantity \/ pending # {} \/ Open # {}

\* What the policy decides on seeing a snapshot (a replacement, a slice of pov) is never
\* filled by that snapshot or an earlier one.
NoRetroactiveFill ==
    [][\A i \in Orders : orders'[i].filled > orders[i].filled => now > orders[i].decided]_vars

(***************************************************************************)
(* The inductive invariant behind ReplaceNeverOverfills.                   *)
(***************************************************************************)

\* The order at work, and so its replacement, never asks for more than is not yet filled.
FitsIntent ==
    IF dynamic = None
    THEN \A i \in pending : position + orders[i].quantity <= Quantity
    ELSE position + Remaining(orders[dynamic]) <= Quantity

\* Only the dynamic order works; what is scheduled replaces it, once its cancel is pending.
OneChain ==
    /\ \A i \in Orders : IsWorking(orders[i]) => i = dynamic
    /\ \A i, j \in pending : i = j
    /\ \A i \in pending :
          /\ orders[i].replaces = dynamic
          /\ dynamic # None =>
                IsTerminal(orders[dynamic]) \/ orders[dynamic].status = "CANCEL_PENDING"
    /\ dynamic # None => orders[dynamic].status # "CREATED"
    /\ pc = "plan" => dynamic = None /\ position = 0 /\ (left = Quantity => pending = {})

\* The book is well formed: every fill is posted, what is scheduled has none, only working
\* orders are matched, and a chain of replacements fits.
BookOK ==
    /\ TypeOK
    /\ \A i \in Orders : posted[i] = orders[i].filled
    /\ \A i \in pending :
          /\ orders[i].status = "CREATED" /\ orders[i].filled = 0
          /\ policy # "replace" => orders[i].replaces = None
    /\ todo \subseteq Open
    /\ pc # "match" => todo = {}
    /\ policy = "replace" => FitsIntent /\ OneChain /\ position <= Quantity

(***************************************************************************)
(* The inductive invariants behind SlicesNeverOverfill and NeverIdle.      *)
(***************************************************************************)

\* The lots a slice stands for, filled or not.
SlicedLots == UNION {{i} \X (1..orders[i].quantity) : i \in Orders}

\* The slices and what is left of the plan are within the intent.
SlicesFit ==
    policy # "replace" =>
        IsFiniteSet(SlicedLots) /\ Cardinality(SlicedLots) + left <= Quantity

\* What is filled and what the chain of replacements still asks for are the whole intent,
\* and something works or is scheduled as long as it asks for anything.
NothingForgotten ==
    policy = "replace" /\ ~refused =>
        /\ pc = "plan" => left = Quantity \/ pending # {}
        /\ dynamic = None => /\ position = 0
                             /\ \A i \in pending : orders[i].quantity = Quantity
                             /\ pc = "plan" \/ pending # {}
        /\ dynamic # None => /\ position + Remaining(orders[dynamic]) = Quantity
                             /\ \/ pending # {} \/ IsWorking(orders[dynamic])
                                \/ Remaining(orders[dynamic]) = 0

\* The inductive invariant.
IInv == BookOK /\ SlicesFit /\ NothingForgotten

=============================================================================
