---------------------------- MODULE EntryIntents -----------------------------
(***************************************************************************)
(* What the entry ledger promises its account, without saying how: an      *)
(* intent is tried at most once, only one is opened at a time and only     *)
(* when no other is open, and one that was dropped is never touched again. *)
(* An intent settled by the broker may be opened again for review.         *)
(***************************************************************************)
CONSTANT Intents

VARIABLES
    phase,   \* of each intent: fresh, open, settled or dropped
    tried    \* the intents an order was sent for

vars == <<phase, tried>>

Open == {i \in Intents : phase[i] = "open"}

Init ==
    /\ phase = [i \in Intents |-> "fresh"]
    /\ tried = {}

\* Take up a fresh intent while nothing is in doubt.
TakeUp(i) ==
    /\ phase[i] = "fresh"
    /\ Open = {}
    /\ phase' = [phase EXCEPT ![i] = "open"]
    /\ UNCHANGED tried

\* The one attempt of an open intent.
Try(i) ==
    /\ i \in Open \ tried
    /\ tried' = tried \cup {i}
    /\ UNCHANGED phase

\* The broker's answer settles the intent.
Settle(i) ==
    /\ i \in Open \cap tried
    /\ phase' = [phase EXCEPT ![i] = "settled"]
    /\ UNCHANGED tried

\* Open intents that came to nothing are dropped.
Drop(S) ==
    /\ S \subseteq Open
    /\ phase' = [i \in Intents |-> IF i \in S THEN "dropped" ELSE phase[i]]
    /\ UNCHANGED tried

\* A settled intent needs review after all.
Reopen(i) ==
    /\ phase[i] = "settled"
    /\ phase' = [phase EXCEPT ![i] = "open"]
    /\ UNCHANGED tried

Next ==
    \/ \E i \in Intents : TakeUp(i) \/ Try(i) \/ Settle(i) \/ Reopen(i)
    \/ \E S \in SUBSET Intents : Drop(S)

Spec == Init /\ [][Next]_vars

=============================================================================
