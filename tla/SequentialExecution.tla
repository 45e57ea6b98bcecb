------------------------- MODULE SequentialExecution -------------------------
(***************************************************************************)
(* executer_sequentiel of titanium/execution_sim/sequencing.py: a policy   *)
(* sends its orders one after the other, each matched on the snapshots     *)
(* from its own activation until it is terminal or they end.  Two callers  *)
(* reach it, the runner and BacktestExecutionEngine, and choose a profile. *)
(*                                                                         *)
(* A snapshot lasts two ticks, so that an order may be due within one.     *)
(***************************************************************************)
EXTENDS OrderManager, FiniteSets, Sequences, SequencesExt

CONSTANTS
    Callers,     \* pairs of an entry point and a family of policies
    MaxOrders,   \* longest plan
    Latency,     \* of a submission, in ticks
    Offsets,     \* of the orders of a plan, in ticks
    TTLs         \* of the orders of a plan, in ticks; 0 for none

ASSUME SequentialAssumption ==
    /\ Callers \subseteq {"runner", "engine"} \X {"adaptive", "technique", "legs"}
    /\ <<"runner", "legs">> \notin Callers
    /\ Quantity \in Nat \ {0}
    /\ MaxOrders \in Nat
    /\ Snapshots \in Nat \ {0}
    /\ Latency \in Nat
    /\ Offsets \subseteq Nat
    /\ TTLs \subseteq Nat

VARIABLES
    entry,       \* who runs the plan
    family,      \* of policies the plan comes from
    stage,       \* next order, match, or done
    planned,     \* how many orders of the plan have been taken
    plan,        \* the order of the plan being executed
    at,          \* the snapshot it is matched on
    executed,    \* the orders submitted, in order
    rempli       \* FillBudget.rempli

sequentialVars == <<entry, family, stage, planned, plan, at, executed, rempli>>

LastIndex == Snapshots - 1

(***************************************************************************)
(* The profiles, and who uses which.                                       *)
(***************************************************************************)
Historique == [quantite |-> "reliquat",   annulation |-> "ordre_ouvert", plafond |-> FALSE]
Adaptatif  == [quantite |-> "plan_borne", annulation |-> "drapeau",      plafond |-> TRUE]
Jambes     == [quantite |-> "libre",      annulation |-> "drapeau",      plafond |-> TRUE]

Profil ==
    CASE family = "technique" -> Adaptatif
      [] family # "technique" /\ entry = "runner" -> Historique
      [] family # "technique" /\ entry = "engine" -> Jambes

(***************************************************************************)
(* The next order of the plan.  AdaptivePolicy plans its stages with the   *)
(* whole quantity each and asks to cancel the one before; the techniques   *)
(* plan slices.                                                            *)
(***************************************************************************)
PlannedOrder == [quantity : 1..Quantity, offset : Offsets, cancel : BOOLEAN, kind : Kinds,
                 ttl : TTLs]
NoPlan       == [quantity |-> 0, offset |-> 0, cancel |-> FALSE, kind |-> "limit", ttl |-> 0]

Plannable(p) ==
    /\ family # "technique" => p.quantity = Quantity /\ p.ttl = 0
    /\ family = "adaptive" => p.cancel = (planned > 0)
    /\ family = "legs" => ~p.cancel

Restant == IF rempli > Quantity THEN 0 ELSE Quantity - rempli

\* Mutant: the plan is followed to the letter.
AuthorisedAsPlanned(p) == IF Profil.quantite = "reliquat" THEN Restant ELSE p.quantity

\* FillBudget.autoriser, where there is a budget.
Authorised(p) ==
    CASE Profil.quantite = "reliquat" -> Restant
      [] Profil.quantite = "plan_borne" -> IF p.quantity < Restant THEN p.quantity ELSE Restant
      [] Profil.quantite = "libre" -> p.quantity

Cancels(p) == Profil.annulation = "ordre_ouvert" \/ p.cancel

\* The orders once the one before, if it is open, has been cancelled at p's request.
AfterCancel(p) ==
    IF executed # <<>> /\ ~IsTerminal(Last(executed)) /\ Cancels(p)
    THEN Append(Front(executed), AckCancel(RequestCancel(Last(executed))))
    ELSE executed

DueTick(p) == p.offset + Latency

\* Mutant: always rounded down.
StartIndexFloor(p) == IF DueTick(p) \div 2 > LastIndex THEN LastIndex ELSE DueTick(p) \div 2

\* index_activation: rounded up when the profile says so and the order is deferred, and
\* never past the last snapshot.
StartIndex(p) ==
    LET late  == IF Profil.plafond /\ p.offset > 0 THEN DueTick(p) + 1 ELSE DueTick(p)
        index == late \div 2
    IN  IF index > LastIndex THEN LastIndex ELSE index

Submitted(p) == Submit([status |-> "CREATED", quantity |-> Authorised(p), filled |-> 0])

SequentialInit ==
    /\ \E c \in Callers : entry = c[1] /\ family = c[2]
    /\ stage = "next"
    /\ planned = 0
    /\ plan = NoPlan
    /\ at = 0
    /\ executed = <<>>
    /\ rempli = 0

Take(p) ==
    /\ stage = "next"
    /\ planned < MaxOrders
    /\ Plannable(p)
    /\ Authorised(p) > 0
    /\ planned' = planned + 1
    /\ UNCHANGED <<entry, family, rempli>>

\* The risk engine accepts the order.
Send(p) ==
    /\ Take(p)
    /\ executed' = Append(AfterCancel(p), Submitted(p))
    /\ plan' = p
    /\ at' = StartIndex(p)
    /\ stage' = "match"

\* It refuses it, once the order before has been cancelled.
Refuse(p) ==
    /\ Take(p)
    /\ executed' = AfterCancel(p)
    /\ UNCHANGED <<plan, at, stage>>

(***************************************************************************)
(* matcher.match on one snapshot, expiry first; then the next snapshot, or *)
(* budget.enregistrer and the next order.                                  *)
(***************************************************************************)
Outcomes(o) ==
    IF plan.ttl > 0 /\ 2 * at >= plan.offset + plan.ttl
    THEN {[o EXCEPT !.status = "EXPIRED"]}
    ELSE Matches(plan.kind, o)

AtEnd == at = LastIndex

\* Mutant: the partial fill of an order that was cancelled is not charged.
ChargedIfFilled(o) == IF o.status = "FILLED" THEN rempli + o.filled ELSE rempli

\* FillBudget.enregistrer.
Charged(o) == rempli + o.filled

MatchLast ==
    /\ stage = "match"
    /\ \E o \in Outcomes(Last(executed)) :
          /\ executed' = Append(Front(executed), o)
          /\ IF IsTerminal(o) \/ AtEnd
             THEN stage' = "next" /\ rempli' = Charged(o) /\ plan' = NoPlan /\ at' = 0
             ELSE at' = at + 1 /\ UNCHANGED <<stage, rempli, plan>>
    /\ UNCHANGED <<entry, family, planned>>

\* The plan ends, or the budget is spent.
Finish ==
    /\ stage = "next"
    /\ stage' = "done"
    /\ UNCHANGED <<entry, family, planned, plan, at, executed, rempli>>

SequentialNext ==
    \/ \E p \in PlannedOrder : Send(p) \/ Refuse(p)
    \/ MatchLast
    \/ Finish

SequentialSpec == SequentialInit /\ [][SequentialNext]_sequentialVars

(***************************************************************************)
(* Properties.                                                             *)
(***************************************************************************)
\* The lots of all orders that are filled, one by one.
LotsIn(os) == UNION {{n} \X (1..os[n].filled) : n \in DOMAIN os}
Filled(os) == Cardinality(LotsIn(os))

\* A submitted order.
Sent == [status : Working \cup Terminal, quantity : 1..Quantity, filled : 0..Quantity]

\* Every variable has its type, and no order is filled past its own quantity.
SequentialTypeOK ==
    /\ <<entry, family>> \in Callers
    /\ stage \in {"next", "match", "done"}
    /\ planned \in 0..MaxOrders
    /\ plan \in PlannedOrder \cup {NoPlan}
    /\ at \in 0..LastIndex
    /\ rempli \in Nat
    /\ executed \in Seq(Sent)
    /\ Len(executed) <= planned
    /\ \A n \in DOMAIN executed : executed[n].filled <= executed[n].quantity

\* An intent is never filled past its quantity, whatever the plan asks for, unless its
\* policy has several legs (fills.py: "une intention ne peut pas etre remplie au-dela de
\* la quantite demandee").
NeverOverfilled == family # "legs" => Filled(executed) <= Quantity

\* A ladder of orders never leaves two of them open.
OneOpen ==
    Profil.annulation = "ordre_ouvert" =>
        \A m, n \in DOMAIN executed : IsWorking(executed[m]) /\ IsWorking(executed[n]) => m = n

\* Each rung of a ladder asks for exactly what the rungs before it left unfilled.
RungsTakeTheRest ==
    Profil.quantite = "reliquat" =>
        \A n \in DOMAIN executed :
            executed[n].quantity + Filled(SubSeq(executed, 1, n - 1)) = Quantity

\* A ladder holds: one rung open, asking for exactly what the rungs before it left, no
\* rung filled past its own quantity (TypeOK).
LadderHolds == SequentialTypeOK /\ OneOpen /\ RungsTakeTheRest

\* A deferred slice is filled on no snapshot earlier than its time, except that what is
\* due after the last snapshot is filled on the last.
NothingEarly ==
    [][Filled(executed') > Filled(executed) /\ Profil.plafond /\ plan.offset > 0
         => 2 * at >= DueTick(plan) \/ at = LastIndex]_sequentialVars

(***************************************************************************)
(* The inductive invariant behind them.                                    *)
(***************************************************************************)

\* The budget has been charged every fill but those of the order being matched, which
\* asks for no more than the budget has left, where the profile has one.
BudgetKnows ==
    IF stage = "match"
    THEN /\ Filled(executed) = rempli + Last(executed).filled
         /\ Profil.quantite # "libre" => rempli + Last(executed).quantity <= Quantity
    ELSE /\ Filled(executed) = rempli
         /\ Profil.quantite # "libre" => rempli <= Quantity

\* What is matched is the last order, at work, not before the snapshot it starts on.
MatchesInTime ==
    stage = "match" =>
        /\ executed # <<>>
        /\ IsWorking(Last(executed))
        /\ plan \in PlannedOrder
        /\ at >= StartIndex(plan)

\* On a ladder every rung but the last is over.
RungsAreOver ==
    Profil.annulation = "ordre_ouvert" =>
        \A n \in 1..Len(executed) - 1 : IsTerminal(executed[n])

SequentialIInv == LadderHolds /\ BudgetKnows /\ MatchesInTime /\ RungsAreOver

=============================================================================
