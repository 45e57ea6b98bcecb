--------------------------- MODULE ExecutionLedger ---------------------------
(***************************************************************************)
(* The durable entry ledger of titanium/execution/execution_ledger.py with *)
(* the executors it wraps (mt5_executor.place_market_order and             *)
(* limit_orders.place_limit_order), used by one or more live loops on the  *)
(* same SQLite file, one DEMO account and one MetaTrader terminal.         *)
(*                                                                         *)
(* A loop turns: it reconciles the ledger with the broker, and only when   *)
(* that says OK does it submit entries, each one being an intent committed *)
(* to SQLite BEFORE the order is sent.  Loops crash and restart at any     *)
(* step, acknowledgements are lost, requests are delayed, and an operator  *)
(* may resolve an uncertain intent after review.                           *)
(***************************************************************************)
EXTENDS Naturals, Sequences, FiniteSets

CONSTANTS
    Loops,       \* processes running the live loop on this ledger
    Intents,     \* entry intents of the account, one per (symbol, bar)
    None,        \* no intent
    LimitMode,   \* MODE_ENTREE = "LIMITE": entries are expiring limit orders
    BatchSize,   \* ledger rows one reconciliation inspects (20 in the code)
    ReviewAge,   \* min_age_s of the operator review, in clock units
    MaxDelay,    \* longest time from an intent's commit to the last effect of its send
    MaxMishaps   \* bound on crashes, failed broker reads and failed writes

ASSUME LedgerAssumption ==
    /\ None \notin Intents
    /\ LimitMode \in BOOLEAN
    /\ BatchSize \in Nat \ {0}
    /\ ReviewAge \in Nat
    /\ MaxDelay \in Nat
    /\ MaxDelay < ReviewAge
    /\ MaxMishaps \in Nat

VARIABLES
    (* the SQLite file *)
    state,      \* intents.state, "none" for an id with no row
    ticket,     \* intents.order_ticket is set
    age,        \* time since intents.created, saturated at ReviewAge
    rows,       \* the rows in insertion order
    deals,      \* intents whose position deals are stored
    (* memory of each loop, lost by a restart *)
    pc,         \* where the loop is in its turn
    cur,        \* the intent it is executing
    result,     \* the OrderResult of that execution
    batch,      \* rows the running reconciliation has still to inspect
    waiting,    \* that reconciliation has found an unresolved row or an issue
    next,       \* the cursor it stores when it ends
    cursor,     \* _reconcile_cursor
    sentKeys,   \* _sent_keys / _pending_keys
    (* the operator *)
    reviewed,   \* intents reviewed and not yet marked resolved
    (* the broker *)
    requests,   \* requests on their way, per intent
    orders,     \* orders that carry the intent's tag
    declined,   \* intents whose request the broker refused
    filled,     \* intents whose order has an entry deal
    expired,    \* intents whose limit order expired unfilled
    shared,     \* intents whose position also holds deals of another order
    (* history *)
    attempts,   \* order_send calls made, per intent
    mishaps     \* mishaps so far

ledger   == <<state, ticket, age, rows, deals>>
entry    == <<cur, result>>
scan     == <<batch, waiting, next>>
memory   == <<pc, cur, result, batch, waiting, next, cursor, sentKeys>>
broker   == <<requests, orders, declined, filled, expired, shared>>
vars     == <<ledger, memory, reviewed, broker, attempts, mishaps>>

Uncertain   == {"SUBMITTING", "UNKNOWN"}
Closed      == {"REJECTED", "RESOLVED_NO_ORDER"}
IntentState == {"none", "ACKNOWLEDGED"} \cup Uncertain \cup Closed
Steps       == {"idle", "reconcile", "entries", "send", "await", "returned"}
Executing   == {"send", "await", "returned"}

(***************************************************************************)
(* What an executor returns: sent, a usable order ticket, the retcode      *)
(* class, whether order_send was called, and whether the terminal itself   *)
(* rejected the arguments (last_error -2).                                 *)
(***************************************************************************)
Result == [sent : BOOLEAN, ticket : BOOLEAN, attempted : BOOLEAN, local : BOOLEAN,
           code : {"none", "done", "partial", "reject", "doubt"}]

NoResult     == [sent |-> FALSE, ticket |-> FALSE, attempted |-> FALSE,
                 local |-> FALSE, code |-> "none"]
LocalReject  == [NoResult EXCEPT !.attempted = TRUE, !.local = TRUE]
Raised       == [NoResult EXCEPT !.attempted = TRUE, !.code = "doubt"]
Accepted     == {r \in Result : r.sent /\ r.attempted /\ ~r.local /\ r.code \in {"done", "partial"}}
Refused      == {r \in Result : ~r.sent /\ r.attempted /\ ~r.local /\ r.code = "reject"}
Undetermined == {r \in Result : ~r.sent /\ r.attempted /\ ~r.local /\ r.code = "doubt"}

\* Mutant: a timeout is read as a refusal.
ClassifyTimeoutAsRefusal(r) ==
    IF r.sent /\ r.ticket /\ r.code # "partial" THEN "ACKNOWLEDGED"
    ELSE IF ~r.sent THEN "REJECTED"
    ELSE "UNKNOWN"

\* The verdict the ledger gives a result: only proof of acceptance or of refusal settles it.
Classify(r) ==
    IF r.sent /\ r.ticket /\ r.code # "partial" THEN "ACKNOWLEDGED"
    ELSE IF ~r.sent /\ (~r.attempted \/ r.code = "reject" \/ r.local) THEN "REJECTED"
    ELSE "UNKNOWN"

UncertainIntents == {i \in Intents : state[i] \in Uncertain}
Live(i)          == state[i] \notin Closed
LiveRows         == SelectSeq(rows, Live)

\* rows[start:] + rows[:start], cut to the batch size
Rotated(s, start) == SubSeq(s, start + 1, Len(s)) \o SubSeq(s, 1, start)
FirstOf(s, n)     == SubSeq(s, 1, IF Len(s) < n THEN Len(s) ELSE n)
Start(p)          == IF LiveRows = <<>> THEN 0 ELSE cursor[p] % Len(LiveRows)

Init ==
    /\ state = [i \in Intents |-> "none"]
    /\ ticket = [i \in Intents |-> FALSE]
    /\ age = [i \in Intents |-> 0]
    /\ rows = <<>>
    /\ deals = {}
    /\ pc = [p \in Loops |-> "idle"]
    /\ cur = [p \in Loops |-> None]
    /\ result = [p \in Loops |-> NoResult]
    /\ batch = [p \in Loops |-> <<>>]
    /\ waiting = [p \in Loops |-> FALSE]
    /\ next = [p \in Loops |-> 0]
    /\ cursor = [p \in Loops |-> 0]
    /\ sentKeys = [p \in Loops |-> {}]
    /\ reviewed = {}
    /\ requests = [i \in Intents |-> 0]
    /\ orders = [i \in Intents |-> 0]
    /\ declined = {}
    /\ filled = {}
    /\ expired = {}
    /\ shared = {}
    /\ attempts = [i \in Intents |-> 0]
    /\ mishaps = 0

(***************************************************************************)
(* execute_recorded: reservation, executor, persisted verdict.             *)
(***************************************************************************)

ReserveIf(guard, p, i) ==
    /\ pc[p] = "entries"
    /\ guard
    /\ state' = [state EXCEPT ![i] = "SUBMITTING"]
    /\ age' = [age EXCEPT ![i] = 0]
    /\ rows' = IF state[i] = "none" THEN Append(rows, i) ELSE rows
    /\ pc' = [pc EXCEPT ![p] = "send"]
    /\ cur' = [cur EXCEPT ![p] = i]
    /\ UNCHANGED <<ticket, deals, result, scan, cursor, sentKeys, reviewed, broker,
                   attempts, mishaps>>

\* Mutant: a known id is submitted again.
ReserveAgain(p, i) == ReserveIf(UncertainIntents = {}, p, i)

\* Mutant: an uncertain intent of the account does not stop the next one.
ReserveInDoubt(p, i) == ReserveIf(state[i] = "none", p, i)

\* The transaction that reserves the intent.  A known id (TRACE_DUPLICATE) and an
\* uncertain intent of the account (TRACE_UNRESOLVED_ACCOUNT) are refused.
Reserve(p, i) ==
    /\ pc[p] = "entries"
    /\ state[i] = "none"
    /\ UncertainIntents = {}
    /\ state' = [state EXCEPT ![i] = "SUBMITTING"]
    /\ age' = [age EXCEPT ![i] = 0]
    /\ rows' = Append(rows, i)
    /\ pc' = [pc EXCEPT ![p] = "send"]
    /\ cur' = [cur EXCEPT ![p] = i]
    /\ UNCHANGED <<ticket, deals, result, scan, cursor, sentKeys, reviewed, broker,
                   attempts, mishaps>>

Return(p, r) ==
    /\ pc' = [pc EXCEPT ![p] = "returned"]
    /\ result' = [result EXCEPT ![p] = r]

\* The executor refuses before order_send: key already sent, wall, lot or no price.  An
\* executor that raises proves nothing, so it counts as an attempt.
Refuse(p) ==
    /\ pc[p] = "send"
    /\ Return(p, NoResult) \/ Return(p, Raised)
    /\ UNCHANGED <<ledger, cur, scan, cursor, sentKeys, reviewed, broker, attempts, mishaps>>

\* order_send is called.  The terminal may reject the arguments itself; otherwise the
\* request leaves for the broker.
Transmit(p) ==
    LET i == cur[p] IN
    /\ pc[p] = "send"
    /\ i \notin sentKeys[p]
    /\ attempts' = [attempts EXCEPT ![i] = @ + 1]
    /\ \/ /\ Return(p, LocalReject)
          /\ UNCHANGED requests
       \/ /\ pc' = [pc EXCEPT ![p] = "await"]
          /\ requests' = [requests EXCEPT ![i] = @ + 1]
          /\ UNCHANGED result
    /\ UNCHANGED <<ledger, cur, scan, cursor, sentKeys, reviewed,
                   orders, declined, filled, expired, shared, mishaps>>

\* What order_send can answer, given what the broker has done with the request.
Replies(i) ==
    Undetermined \cup (IF orders[i] > 0 THEN Accepted ELSE {})
                 \cup (IF i \in declined THEN Refused ELSE {})

\* order_send returns, times out or raises; an accepted order is remembered in memory.
Reply(p) ==
    /\ pc[p] = "await"
    /\ \E r \in Replies(cur[p]) :
        /\ Return(p, r)
        /\ sentKeys' = [sentKeys EXCEPT ![p] = IF r.sent THEN @ \cup {cur[p]} ELSE @]
    /\ UNCHANGED <<ledger, cur, scan, cursor, reviewed, broker, attempts, mishaps>>

\* UPDATE intents SET state, order_ticket.  When the write fails the row stays SUBMITTING.
Persist(p) ==
    LET i == cur[p] IN
    /\ pc[p] = "returned"
    /\ \/ /\ state' = [state EXCEPT ![i] = Classify(result[p])]
          /\ ticket' = [ticket EXCEPT ![i] = result[p].ticket]
          /\ UNCHANGED mishaps
       \/ /\ mishaps < MaxMishaps
          /\ mishaps' = mishaps + 1
          /\ UNCHANGED <<state, ticket>>
    /\ pc' = [pc EXCEPT ![p] = "entries"]
    /\ cur' = [cur EXCEPT ![p] = None]
    /\ result' = [result EXCEPT ![p] = NoResult]
    /\ UNCHANGED <<age, rows, deals, scan, cursor, sentKeys, reviewed, broker, attempts>>

(***************************************************************************)
(* reconcile_recorded.                                                     *)
(***************************************************************************)

\* Mutant: every row that is not closed counts as unresolved.
BeginReconcileAnyRow(p) ==
    /\ pc[p] = "idle"
    /\ batch' = [batch EXCEPT ![p] = FirstOf(Rotated(LiveRows, Start(p)), BatchSize)]
    /\ waiting' = [waiting EXCEPT ![p] = LiveRows # <<>>]
    /\ next' = [next EXCEPT ![p] = Start(p) + Len(batch'[p])]
    /\ pc' = [pc EXCEPT ![p] = "reconcile"]
    /\ UNCHANGED <<ledger, entry, cursor, sentKeys, reviewed, broker, attempts, mishaps>>

\* Read the rows, count the uncertain ones and cut the batch out of the rotation.
BeginReconcile(p) ==
    /\ pc[p] = "idle"
    /\ batch' = [batch EXCEPT ![p] = FirstOf(Rotated(LiveRows, Start(p)), BatchSize)]
    /\ waiting' = [waiting EXCEPT ![p] = UncertainIntents # {}]
    /\ next' = [next EXCEPT ![p] = Start(p) + Len(batch'[p])]
    /\ pc' = [pc EXCEPT ![p] = "reconcile"]
    /\ UNCHANGED <<ledger, entry, cursor, sentKeys, reviewed, broker, attempts, mishaps>>

\* The local variables of a reconciliation that is over.
Forget(p) ==
    /\ batch' = [batch EXCEPT ![p] = <<>>]
    /\ waiting' = [waiting EXCEPT ![p] = FALSE]
    /\ next' = [next EXCEPT ![p] = 0]

\* The row's order: the ticket it holds, or the only order that carries its tag.
OrderKnown(i) == ticket[i] \/ orders[i] = 1

\* Mutant: an order whose deals are visible is acknowledged, whatever doubted it.
InspectRowAcknowledges(p) ==
    LET i == Head(batch[p]) IN
    /\ pc[p] = "reconcile"
    /\ batch[p] # <<>>
    /\ ticket' = [ticket EXCEPT ![i] = OrderKnown(i)]
    /\ IF OrderKnown(i) /\ i \in filled
       THEN /\ deals' = deals \cup {i}
            /\ state' = [state EXCEPT ![i] = IF i \in shared THEN "UNKNOWN" ELSE "ACKNOWLEDGED"]
            /\ waiting' = [waiting EXCEPT ![p] = @ \/ i \in shared]
       ELSE /\ waiting' = [waiting EXCEPT ![p] = TRUE]
            /\ UNCHANGED <<deals, state>>
    /\ batch' = [batch EXCEPT ![p] = Tail(@)]
    /\ UNCHANGED <<age, rows, pc, entry, next, cursor, sentKeys, reviewed, broker,
                   attempts, mishaps>>

\* One row: link its order, collect its position's deals, and send a position shared
\* with another order back to review.
InspectRow(p) ==
    LET i == Head(batch[p]) IN
    /\ pc[p] = "reconcile"
    /\ batch[p] # <<>>
    /\ ticket' = [ticket EXCEPT ![i] = OrderKnown(i)]
    /\ IF OrderKnown(i) /\ i \in filled
       THEN /\ deals' = deals \cup {i}
            /\ state' = [state EXCEPT ![i] = IF i \in shared THEN "UNKNOWN" ELSE @]
            /\ waiting' = [waiting EXCEPT ![p] = @ \/ i \in shared]
       ELSE /\ waiting' = [waiting EXCEPT ![p] = TRUE]
            /\ UNCHANGED <<deals, state>>
    /\ batch' = [batch EXCEPT ![p] = Tail(@)]
    /\ UNCHANGED <<age, rows, pc, entry, next, cursor, sentKeys, reviewed, broker,
                   attempts, mishaps>>

\* A broker read or a write fails: the exception ends the reconciliation and the turn, the
\* cursor stays, and so does what the row's earlier transactions committed.
ReconcileFails(p) ==
    LET i == Head(batch[p]) IN
    /\ pc[p] = "reconcile"
    /\ batch[p] # <<>>
    /\ mishaps < MaxMishaps
    /\ mishaps' = mishaps + 1
    /\ \/ UNCHANGED <<ticket, deals>>
       \/ /\ ticket' = [ticket EXCEPT ![i] = OrderKnown(i)]
          /\ \/ UNCHANGED deals
             \/ OrderKnown(i) /\ i \in filled /\ deals' = deals \cup {i}
    /\ pc' = [pc EXCEPT ![p] = "idle"]
    /\ Forget(p)
    /\ UNCHANGED <<state, age, rows, entry, cursor, sentKeys, reviewed, broker, attempts>>

\* Mutant: the cursor stays where it was.
EndReconcileStuck(p) ==
    /\ pc[p] = "reconcile"
    /\ batch[p] = <<>>
    /\ pc' = [pc EXCEPT ![p] = IF waiting[p] THEN "idle" ELSE "entries"]
    /\ Forget(p)
    /\ UNCHANGED <<ledger, entry, cursor, sentKeys, reviewed, broker, attempts, mishaps>>

\* The cursor advances; WAIT ends the turn, OK opens it to entries.
EndReconcile(p) ==
    /\ pc[p] = "reconcile"
    /\ batch[p] = <<>>
    /\ cursor' = [cursor EXCEPT ![p] = next[p]]
    /\ pc' = [pc EXCEPT ![p] = IF waiting[p] THEN "idle" ELSE "entries"]
    /\ Forget(p)
    /\ UNCHANGED <<ledger, entry, sentKeys, reviewed, broker, attempts, mishaps>>

EndTurn(p) ==
    /\ pc[p] = "entries"
    /\ pc' = [pc EXCEPT ![p] = "idle"]
    /\ UNCHANGED <<ledger, entry, scan, cursor, sentKeys, reviewed, broker, attempts, mishaps>>

\* The process dies and is started again: only its memory is lost.
Crash(p) ==
    /\ mishaps < MaxMishaps
    /\ mishaps' = mishaps + 1
    /\ pc' = [pc EXCEPT ![p] = "idle"]
    /\ cur' = [cur EXCEPT ![p] = None]
    /\ result' = [result EXCEPT ![p] = NoResult]
    /\ Forget(p)
    /\ cursor' = [cursor EXCEPT ![p] = 0]
    /\ sentKeys' = [sentKeys EXCEPT ![p] = {}]
    /\ UNCHANGED <<ledger, reviewed, broker, attempts>>

(***************************************************************************)
(* resolve_no_broker_order, run by the operator.                           *)
(***************************************************************************)

\* Every uncertain intent is old enough and the broker shows no order of any of them.
BeginReview ==
    /\ reviewed = {}
    /\ UncertainIntents # {}
    /\ \A i \in UncertainIntents : age[i] >= ReviewAge /\ orders[i] = 0
    /\ reviewed' = UncertainIntents
    /\ UNCHANGED <<ledger, memory, broker, attempts, mishaps>>

\* Mutant: a resolved intent is taken out of the ledger, so that it can be entered again.
EndReviewRearms ==
    /\ reviewed # {}
    /\ reviewed' = {}
    /\ state' = [i \in Intents |-> IF i \in reviewed /\ state[i] \in Uncertain
                                   THEN "none" ELSE state[i]]
    /\ UNCHANGED <<ticket, age, rows, deals, memory, broker, attempts, mishaps>>

\* A second transaction marks those that are still uncertain, or the operator gives up.
EndReview ==
    /\ reviewed # {}
    /\ reviewed' = {}
    /\ \/ state' = [i \in Intents |-> IF i \in reviewed /\ state[i] \in Uncertain
                                      THEN "RESOLVED_NO_ORDER" ELSE state[i]]
       \/ UNCHANGED state
    /\ UNCHANGED <<ticket, age, rows, deals, memory, broker, attempts, mishaps>>

(***************************************************************************)
(* The broker, and time.                                                   *)
(***************************************************************************)

\* A request that has not arrived is accepted, refused, or lost on the way.
Arrive(i) ==
    /\ requests[i] > 0
    /\ requests' = [requests EXCEPT ![i] = @ - 1]
    /\ \/ orders' = [orders EXCEPT ![i] = @ + 1] /\ UNCHANGED declined
       \/ declined' = declined \cup {i} /\ UNCHANGED orders
       \/ UNCHANGED <<orders, declined>>
    /\ UNCHANGED <<ledger, memory, reviewed, filled, expired, shared, attempts, mishaps>>

Fill(i) ==
    /\ orders[i] > 0
    /\ i \notin filled \cup expired
    /\ filled' = filled \cup {i}
    /\ UNCHANGED <<ledger, memory, reviewed, requests, orders, declined, expired, shared,
                   attempts, mishaps>>

\* Only a limit order can end without a deal.
Expire(i) ==
    /\ LimitMode
    /\ orders[i] > 0
    /\ i \notin filled \cup expired
    /\ expired' = expired \cup {i}
    /\ UNCHANGED <<ledger, memory, reviewed, requests, orders, declined, filled, shared,
                   attempts, mishaps>>

\* Another order enters the same position, or reverses it.
Share(i) ==
    /\ i \in filled
    /\ i \notin shared
    /\ shared' = shared \cup {i}
    /\ UNCHANGED <<ledger, memory, reviewed, requests, orders, declined, filled, expired,
                   attempts, mishaps>>

\* A send still under way: executing in a loop, or a request still on the wire.
Underway(i) == requests[i] > 0 \/ \E p \in Loops : cur[p] = i /\ pc[p] \in Executing

\* Time passes; no send takes longer than MaxDelay after its intent was committed.
Tick ==
    /\ \A i \in Intents : Underway(i) => age[i] < MaxDelay
    /\ age' = [i \in Intents |-> IF state[i] = "none" \/ age[i] >= ReviewAge
                                 THEN age[i] ELSE age[i] + 1]
    /\ UNCHANGED <<state, ticket, rows, deals, memory, reviewed, broker, attempts, mishaps>>

LoopStep(p) ==
    \/ \E i \in Intents : Reserve(p, i)
    \/ Refuse(p)
    \/ Transmit(p)
    \/ Reply(p)
    \/ Persist(p)
    \/ BeginReconcile(p)
    \/ InspectRow(p)
    \/ ReconcileFails(p)
    \/ EndReconcile(p)
    \/ EndTurn(p)
    \/ Crash(p)

BrokerStep(i) == Arrive(i) \/ Fill(i) \/ Expire(i) \/ Share(i)

Next ==
    \/ \E p \in Loops : LoopStep(p)
    \/ \E i \in Intents : BrokerStep(i)
    \/ BeginReview
    \/ EndReview
    \/ Tick

Spec == Init /\ [][Next]_vars

(***************************************************************************)
(* Fairness.  The loop's main() runs a turn after another and never gives  *)
(* up; the broker answers, and ends every order, in the end.  Crashes,     *)
(* failures, reviews and positions shared by hand are never owed.          *)
(***************************************************************************)
LoopProgress(p) ==
    \/ BeginReconcile(p)
    \/ InspectRow(p)
    \/ EndReconcile(p)
    \/ Refuse(p) \/ Transmit(p)
    \/ Reply(p)
    \/ Persist(p)
    \/ EndTurn(p)

Fairness ==
    /\ \A p \in Loops : WF_vars(LoopProgress(p))
    /\ \A i \in Intents : WF_vars(Arrive(i)) /\ WF_vars(Fill(i) \/ Expire(i))

FairSpec == Spec /\ Fairness

(***************************************************************************)
(* Properties.                                                             *)
(***************************************************************************)

\* The ledger's states, the loops' steps and the broker's books have their types.
CoreTypeOK ==
    /\ state \in [Intents -> IntentState]
    /\ ticket \in [Intents -> BOOLEAN]
    /\ age \in [Intents -> 0..ReviewAge]
    /\ deals \subseteq Intents
    /\ pc \in [Loops -> Steps]
    /\ cur \in [Loops -> Intents \cup {None}]
    /\ result \in [Loops -> Result]
    /\ waiting \in [Loops -> BOOLEAN]
    /\ sentKeys \in [Loops -> SUBSET Intents]
    /\ reviewed \subseteq Intents
    /\ requests \in [Intents -> Nat]
    /\ orders \in [Intents -> Nat]
    /\ declined \subseteq Intents
    /\ filled \subseteq Intents
    /\ expired \subseteq Intents
    /\ shared \subseteq Intents
    /\ attempts \in [Intents -> Nat]
    /\ mishaps \in 0..MaxMishaps

\* So have the rows and the reconciliations' place in them.
ScanTypeOK ==
    /\ rows \in Seq(Intents)
    /\ batch \in [Loops -> Seq(Intents)]
    /\ next \in [Loops -> Nat]
    /\ cursor \in [Loops -> Nat]

\* Every variable has its type.
TypeOK == CoreTypeOK /\ ScanTypeOK

\* execute_recorded promises at most one attempt: whatever crashes, restarts, lost
\* acknowledgements, failed writes and concurrent loops, order_send is never called
\* twice for one intent.
AtMostOneAttempt == \A i \in Intents : attempts[i] <= 1

\* An intent the ledger calls REJECTED or RESOLVED_NO_ORDER, and so no longer watches,
\* has no order at the broker and no request that could still become one.
ClosedHasNoOrder ==
    \A i \in Intents : state[i] \in Closed => orders[i] = 0 /\ requests[i] = 0

\* A loop that is executing an intent finds it still unsettled: neither the operator's
\* review nor another loop's reconciliation has closed it meanwhile.
ExecutingIsUncertain ==
    \A p \in Loops : pc[p] \in Executing => state[cur[p]] \in Uncertain

\* What of an intent the broker holds or may still receive.
Exposed(i) == requests[i] > 0 \/ orders[i] > 0

\* An entry is reserved only when every exposure of the account that came out of the
\* ledger is acknowledged: an uncertain send blocks all entries, restarts included.
EntryOnlyWhenSettled ==
    [][\A i \in Intents : state[i] = "none" /\ state'[i] # "none"
            => \A j \in Intents : Exposed(j) => state[j] = "ACKNOWLEDGED"]_vars

\* A closed verdict is final: no late write of a loop reopens or changes it.
ClosedIsFinal ==
    [][\A i \in Intents : state[i] \in Closed => state'[i] = state[i]]_vars

\* An intent left UNKNOWN that has an order at the broker stays UNKNOWN: nothing in the
\* program settles it, and the account accepts no entry until it is dealt with by hand.
UnknownOrderBlocks ==
    [][\A i \in Intents : state[i] = "UNKNOWN" /\ orders[i] > 0
            => state'[i] = "UNKNOWN"]_vars

\* Every filled order's deals end up in the ledger: the rotation of bounded batches
\* reaches every row, after restarts and failed reads too.
FillsAreCollected ==
    \A i \in Intents : i \in filled ~> i \in deals

\* An account with nothing uncertain and every order filled can enter again: turns keep
\* reaching the point where entries are accepted.
Settled(S) == /\ UncertainIntents = {}
              /\ \A i \in Intents : Exposed(i) => i \in S
              /\ shared = {}
EntriesResume ==
    \A p \in Loops : <>[]Settled(filled) => []<>(pc[p] = "entries")

\* In limit mode too: an order that expired without a deal is as settled as a filled one.
LimitEntriesResume ==
    \A p \in Loops : <>[]Settled(filled \cup expired) => []<>(pc[p] = "entries")

(***************************************************************************)
(* The inductive invariant behind the safety properties.                   *)
(***************************************************************************)

\* A loop that is executing holds an uncertain intent no other loop is executing.
OwnsItsIntent ==
    \A p \in Loops : pc[p] \in Executing =>
        /\ cur[p] \in Intents
        /\ state[cur[p]] \in Uncertain
        /\ \A q \in Loops : pc[q] \in Executing /\ cur[q] = cur[p] => q = p

\* What the broker has of an intent comes from its attempts; a fresh one has none.
AttemptsAccount ==
    \A i \in Intents :
        /\ attempts[i] <= 1
        /\ state[i] = "none" => attempts[i] = 0
        /\ requests[i] + orders[i] + (IF i \in declined THEN 1 ELSE 0) <= attempts[i]
        /\ i \in filled => orders[i] > 0

\* Before the send nothing was attempted; after it an acknowledgement proves there was an
\* attempt, and a refusal proves there is no order.
ResultsAreProof ==
    \A p \in Loops :
        /\ pc[p] = "send" => attempts[cur[p]] = 0
        /\ pc[p] = "await" => attempts[cur[p]] = 1
        /\ pc[p] = "returned" /\ Classify(result[p]) = "ACKNOWLEDGED" => attempts[cur[p]] = 1
        /\ pc[p] = "returned" /\ Classify(result[p]) = "REJECTED" => ~Exposed(cur[p])

\* No send is under way for longer than MaxDelay, so none is under way for an intent
\* that is being reviewed.
SendsAreTimely ==
    \A i \in Intents :
        /\ Underway(i) => age[i] <= MaxDelay
        /\ i \in reviewed => age[i] >= ReviewAge /\ orders[i] = 0 /\ state[i] # "none"

IInv ==
    /\ CoreTypeOK
    /\ OwnsItsIntent
    /\ AttemptsAccount
    /\ ResultsAreProof
    /\ SendsAreTimely
    /\ ClosedHasNoOrder

(***************************************************************************)
(* The ledger implements the promise of EntryIntents.                      *)
(***************************************************************************)
Phase(s) == IF s = "none" THEN "fresh"
            ELSE IF s \in Uncertain THEN "open"
            ELSE IF s = "ACKNOWLEDGED" THEN "settled"
            ELSE "dropped"

Promise == INSTANCE EntryIntents WITH
    phase <- [i \in Intents |-> Phase(state[i])],
    tried <- {i \in Intents : attempts[i] > 0}

\* Every behaviour of loops, crashes, broker and operator is one the promise allows.
ImplementsPromise == Promise!Spec

=============================================================================
