------------------------ MODULE ExecutionLedgerProofs ------------------------
(***************************************************************************)
(* What holds of ExecutionLedger for any number of loops and intents, any  *)
(* batch size and any delays with MaxDelay < ReviewAge: the invariant IInv *)
(* (one lemma per conjunct that a step can disturb), the safety properties *)
(* that follow from it, and the refinement of EntryIntents.                *)
(***************************************************************************)
EXTENDS ExecutionLedger, TLAPS

\* Every result an executor can return is one.
LEMMA ResultTypes ==
    /\ NoResult \in Result
    /\ LocalReject \in Result
    /\ Raised \in Result
    /\ \A i \in Intents : Replies(i) \subseteq Result
  BY DEF NoResult, LocalReject, Raised, Result, Replies, Undetermined, Accepted, Refused

\* The ledger gives every result one of its three verdicts.
LEMMA ClassifyType ==
  ASSUME NEW r \in Result
  PROVE  Classify(r) \in {"ACKNOWLEDGED", "REJECTED", "UNKNOWN"}
  BY DEF Classify

\* Without an attempt the verdict is a refusal, an exception leaves doubt.
LEMMA ClassifyNoAttempt ==
    /\ Classify(NoResult) = "REJECTED"
    /\ Classify(LocalReject) = "REJECTED"
    /\ Classify(Raised) = "UNKNOWN"
  BY DEF Classify, NoResult, LocalReject, Raised

\* Whether a row has its order is a yes or a no.
LEMMA OrderKnownType == \A i : OrderKnown(i) \in BOOLEAN
  BY DEF OrderKnown

\* The initial ledger, loops and broker have their types.
LEMMA TypeInit == Init => CoreTypeOK
  BY LedgerAssumption, ResultTypes DEF Init, CoreTypeOK, IntentState, Steps

\* Inspecting a row can only send an intent back to review, one whose order is filled.
LEMMA InspectedState ==
  ASSUME CoreTypeOK, NEW p \in Loops, InspectRow(p), NEW i \in Intents
  PROVE  state'[i] = state[i] \/ (i \in filled /\ state'[i] = "UNKNOWN")
<1> DEFINE h == Head(batch[p])
           found == OrderKnown(h) /\ h \in filled
<1>1. state \in [Intents -> IntentState]
  BY DEF CoreTypeOK
<1>2. CASE ~found
  BY <1>2 DEF InspectRow
<1>3. CASE found
  <2>1. state' = [state EXCEPT ![h] = IF h \in shared THEN "UNKNOWN" ELSE @]
    BY <1>3 DEF InspectRow
  <2>2. CASE i = h
    BY <1>1, <1>3, <2>1, <2>2
  <2>3. CASE i # h
    BY <1>1, <2>1, <2>3
  <2>4. QED
    BY <2>2, <2>3
<1>4. QED
  BY <1>2, <1>3

\* No step leaves the types.  The rows and batches need none of it: a row that
\* is not an intent would disturb nothing.
LEMMA TypeStep == CoreTypeOK /\ OwnsItsIntent /\ [Next]_vars => CoreTypeOK'
<1> SUFFICES ASSUME CoreTypeOK, OwnsItsIntent, [Next]_vars PROVE CoreTypeOK'
  OBVIOUS
<1> USE LedgerAssumption DEF CoreTypeOK, IntentState, Uncertain, Closed, Steps
<1>1. ASSUME NEW p \in Loops, NEW i \in Intents, Reserve(p, i) PROVE CoreTypeOK'
  BY <1>1 DEF Reserve, scan, broker
<1>2. ASSUME NEW p \in Loops, Refuse(p) PROVE CoreTypeOK'
  BY <1>2, ResultTypes DEF Refuse, Return, ledger, scan, broker
<1>3. ASSUME NEW p \in Loops, Transmit(p) PROVE CoreTypeOK'
  <2>1. result' \in [Loops -> Result] /\ pc' \in [Loops -> Steps]
    BY <1>3, ResultTypes DEF Transmit, Return
  <2>2. attempts' \in [Intents -> Nat] /\ requests' \in [Intents -> Nat]
    <3>1. cur[p] \in Intents
      BY <1>3 DEF Transmit, OwnsItsIntent, Executing
    <3>2. QED
      BY <1>3, <3>1 DEF Transmit
  <2>3. QED
    BY <1>3, <2>1, <2>2 DEF Transmit, ledger, scan
<1>4. ASSUME NEW p \in Loops, Reply(p) PROVE CoreTypeOK'
  <2>1. PICK r \in Replies(cur[p]) :
          /\ Return(p, r)
          /\ sentKeys' = [sentKeys EXCEPT ![p] = IF r.sent THEN @ \cup {cur[p]} ELSE @]
    BY <1>4 DEF Reply
  <2>2. r \in Result
    BY DEF Replies, Undetermined, Accepted, Refused
  <2>3. cur[p] \in Intents
    BY <1>4 DEF Reply, OwnsItsIntent, Executing
  <2>4. QED
    BY <1>4, <2>1, <2>2, <2>3 DEF Reply, Return, ledger, scan, broker
<1>5. ASSUME NEW p \in Loops, Persist(p) PROVE CoreTypeOK'
  <2>1. /\ result[p] \in Result
        /\ result[p].ticket \in BOOLEAN
        /\ Classify(result[p]) \in IntentState
    BY ClassifyType DEF Result
  <2>2. state' \in [Intents -> IntentState] /\ ticket' \in [Intents -> BOOLEAN]
    BY <1>5, <2>1 DEF Persist
  <2>3. QED
    BY <1>5, <2>2, ResultTypes DEF Persist, scan, broker
<1>6. ASSUME NEW p \in Loops, BeginReconcile(p) PROVE CoreTypeOK'
  BY <1>6 DEF BeginReconcile, ledger, entry, broker
<1>7. ASSUME NEW p \in Loops, InspectRow(p) PROVE CoreTypeOK'
  <2>1. ticket' \in [Intents -> BOOLEAN]
    BY <1>7, OrderKnownType DEF InspectRow
  <2>2. state' \in [Intents -> IntentState] /\ deals' \subseteq Intents
    <3>1. CASE OrderKnown(Head(batch[p])) /\ Head(batch[p]) \in filled
      <4>1. Head(batch[p]) \in Intents
        BY <3>1
      <4>2. /\ state' = [state EXCEPT ![Head(batch[p])] =
                             IF Head(batch[p]) \in shared THEN "UNKNOWN" ELSE @]
            /\ deals' = deals \cup {Head(batch[p])}
        BY <1>7, <3>1, Zenon DEF InspectRow
      <4>3. QED
        BY <4>1, <4>2
    <3>2. CASE ~(OrderKnown(Head(batch[p])) /\ Head(batch[p]) \in filled)
      BY <1>7, <3>2 DEF InspectRow
    <3>3. QED
      BY <3>1, <3>2
  <2>3. waiting' \in [Loops -> BOOLEAN]
    BY <1>7 DEF InspectRow
  <2>4. QED
    BY <1>7, <2>1, <2>2, <2>3 DEF InspectRow, entry, broker
<1>8. ASSUME NEW p \in Loops, ReconcileFails(p) PROVE CoreTypeOK'
  <2>1. ticket' \in [Intents -> BOOLEAN]
    BY <1>8, OrderKnownType DEF ReconcileFails
  <2>2. deals' \subseteq Intents
    BY <1>8 DEF ReconcileFails
  <2>3. QED
    BY <1>8, <2>1, <2>2 DEF ReconcileFails, Forget, entry, broker
<1>9. ASSUME NEW p \in Loops, EndReconcile(p) PROVE CoreTypeOK'
  BY <1>9 DEF EndReconcile, Forget, ledger, entry, broker
<1>10. ASSUME NEW p \in Loops, EndTurn(p) PROVE CoreTypeOK'
  BY <1>10 DEF EndTurn, ledger, entry, scan, broker
<1>11. ASSUME NEW p \in Loops, Crash(p) PROVE CoreTypeOK'
  BY <1>11, ResultTypes DEF Crash, Forget, ledger, broker
<1>12. ASSUME NEW i \in Intents, BrokerStep(i) PROVE CoreTypeOK'
  BY <1>12 DEF BrokerStep, Arrive, Fill, Expire, Share, ledger, memory
<1>13. ASSUME BeginReview PROVE CoreTypeOK'
  BY <1>13 DEF BeginReview, UncertainIntents, ledger, memory, broker
<1>14. ASSUME EndReview PROVE CoreTypeOK'
  BY <1>14 DEF EndReview, memory, broker
<1>15. ASSUME Tick PROVE CoreTypeOK'
  BY <1>15 DEF Tick, memory, broker
<1>16. ASSUME UNCHANGED vars PROVE CoreTypeOK'
  BY <1>16 DEF vars, ledger, memory, broker
<1>17. QED
  BY <1>1, <1>2, <1>3, <1>4, <1>5, <1>6, <1>7, <1>8, <1>9, <1>10, <1>11, <1>12,
     <1>13, <1>14, <1>15, <1>16 DEF Next, LoopStep

-----------------------------------------------------------------------------

\* A step keeps each executing loop the only owner of an uncertain intent.  A
\* review cannot take the intent away: what is under way is younger than ReviewAge.
LEMMA OwnsStep == IInv /\ Next => OwnsItsIntent'
<1> SUFFICES ASSUME IInv, Next PROVE OwnsItsIntent'
  OBVIOUS
<1> USE DEF IInv, CoreTypeOK, OwnsItsIntent, Executing, Uncertain, IntentState, Steps
<1>1. ASSUME NEW p \in Loops, NEW i \in Intents, Reserve(p, i) PROVE OwnsItsIntent'
  <2>1. \A q \in Loops : pc[q] \notin Executing
    BY <1>1 DEF Reserve, UncertainIntents
  <2>2. QED
    BY <1>1, <2>1 DEF Reserve
<1>2. ASSUME NEW p \in Loops, Refuse(p) PROVE OwnsItsIntent'
  BY <1>2 DEF Refuse, Return, ledger
<1>3. ASSUME NEW p \in Loops, Transmit(p) PROVE OwnsItsIntent'
  BY <1>3 DEF Transmit, Return, ledger
<1>4. ASSUME NEW p \in Loops, Reply(p) PROVE OwnsItsIntent'
  BY <1>4 DEF Reply, Return, ledger
<1>5. ASSUME NEW p \in Loops, Persist(p) PROVE OwnsItsIntent'
  <2>1. pc[p] \in Executing /\ cur[p] \in Intents
    BY <1>5 DEF Persist
  <2>2. \A i \in Intents : i # cur[p] => state'[i] = state[i]
    BY <1>5 DEF Persist
  <2>3. \A q \in Loops : q # p => pc'[q] = pc[q] /\ cur'[q] = cur[q]
    BY <1>5 DEF Persist
  <2>4. pc'[p] \notin Executing
    BY <1>5 DEF Persist
  <2>5. QED
    BY <2>1, <2>2, <2>3, <2>4
<1>6. ASSUME NEW p \in Loops, BeginReconcile(p) \/ EndReconcile(p) \/ EndTurn(p) \/ ReconcileFails(p)
      PROVE  OwnsItsIntent'
  <2>1. pc[p] \notin Executing /\ pc'[p] \notin Executing
    BY <1>6 DEF BeginReconcile, EndReconcile, EndTurn, ReconcileFails
  <2>2. \A q \in Loops : q # p => pc'[q] = pc[q]
    BY <1>6 DEF BeginReconcile, EndReconcile, EndTurn, ReconcileFails
  <2>3. state' = state /\ cur' = cur
    BY <1>6 DEF BeginReconcile, EndReconcile, EndTurn, ReconcileFails, ledger, entry
  <2>4. QED
    BY <2>1, <2>2, <2>3
<1>7. ASSUME NEW p \in Loops, InspectRow(p) PROVE OwnsItsIntent'
  <2>1. \A i \in Intents : state'[i] = state[i] \/ state'[i] = "UNKNOWN"
    BY <1>7, InspectedState
  <2>2. pc' = pc /\ cur' = cur
    BY <1>7 DEF InspectRow, entry
  <2>3. QED
    BY <2>1, <2>2
<1>8. ASSUME NEW p \in Loops, Crash(p) PROVE OwnsItsIntent'
  BY <1>8 DEF Crash, ledger
<1>9. ASSUME EndReview PROVE OwnsItsIntent'
  <2>1. \A p \in Loops : pc[p] \in Executing => cur[p] \notin reviewed
    BY LedgerAssumption DEF SendsAreTimely, Underway
  <2>2. pc' = pc /\ cur' = cur
    BY <1>9 DEF EndReview, memory
  <2>3. \A i \in Intents : i \notin reviewed => state'[i] = state[i]
    BY <1>9 DEF EndReview
  <2>4. QED
    BY <2>1, <2>2, <2>3
<1>10. ASSUME NEW i \in Intents, BrokerStep(i) PROVE OwnsItsIntent'
  BY <1>10 DEF BrokerStep, Arrive, Fill, Expire, Share, ledger, memory
<1>11. ASSUME BeginReview \/ Tick PROVE OwnsItsIntent'
  BY <1>11 DEF BeginReview, Tick, ledger, memory
<1>12. QED
  BY <1>1, <1>2, <1>3, <1>4, <1>5, <1>6, <1>7, <1>8, <1>9, <1>10, <1>11 DEF Next, LoopStep

\* A step keeps requests, orders and refusals within the attempts made.
LEMMA AttemptsStep == IInv /\ Next => AttemptsAccount'
<1> SUFFICES ASSUME IInv, Next PROVE AttemptsAccount'
  OBVIOUS
<1> USE DEF IInv, CoreTypeOK, AttemptsAccount, IntentState
<1>1. ASSUME NEW p \in Loops, NEW i \in Intents, Reserve(p, i) PROVE AttemptsAccount'
  BY <1>1 DEF Reserve, broker
<1>2. ASSUME NEW p \in Loops, Transmit(p) PROVE AttemptsAccount'
  <2>1. cur[p] \in Intents /\ attempts[cur[p]] = 0 /\ state[cur[p]] # "none"
    BY <1>2 DEF Transmit, OwnsItsIntent, Executing, Uncertain, ResultsAreProof
  <2>2. QED
    BY <1>2, <2>1 DEF Transmit, ledger
<1>3. ASSUME NEW p \in Loops, Persist(p) PROVE AttemptsAccount'
  <2>1. cur[p] \in Intents /\ state[cur[p]] # "none" /\ result[p] \in Result
    BY <1>3 DEF Persist, OwnsItsIntent, Executing, Uncertain
  <2>2. Classify(result[p]) # "none"
    BY <2>1, ClassifyType
  <2>3. \A i \in Intents : state'[i] = "none" => state[i] = "none"
    BY <1>3, <2>1, <2>2 DEF Persist
  <2>4. UNCHANGED <<attempts, requests, orders, declined, filled>>
    BY <1>3 DEF Persist, broker
  <2>5. QED
    BY <2>3, <2>4
<1>4. ASSUME NEW p \in Loops, InspectRow(p) PROVE AttemptsAccount'
  <2>1. \A i \in Intents : state'[i] = state[i] \/ state'[i] = "UNKNOWN"
    BY <1>4, InspectedState
  <2>2. UNCHANGED <<attempts, requests, orders, declined, filled>>
    BY <1>4 DEF InspectRow, broker
  <2>3. QED
    BY <2>1, <2>2
<1>5. ASSUME EndReview PROVE AttemptsAccount'
  <2>1. \A i \in Intents : state'[i] = state[i] \/ state'[i] = "RESOLVED_NO_ORDER"
    BY <1>5 DEF EndReview
  <2>2. UNCHANGED <<attempts, requests, orders, declined, filled>>
    BY <1>5 DEF EndReview, broker
  <2>3. QED
    BY <2>1, <2>2
<1>6. ASSUME NEW i \in Intents, Arrive(i) PROVE AttemptsAccount'
  BY <1>6 DEF Arrive, ledger
<1>7. ASSUME NEW i \in Intents, Fill(i) \/ Expire(i) \/ Share(i) PROVE AttemptsAccount'
  BY <1>7 DEF Fill, Expire, Share, ledger
<1>8. ASSUME NEW p \in Loops, Refuse(p) \/ Reply(p) \/ BeginReconcile(p) \/ ReconcileFails(p)
                              \/ EndReconcile(p) \/ EndTurn(p) \/ Crash(p)
      PROVE AttemptsAccount'
  BY <1>8 DEF Refuse, Reply, BeginReconcile, ReconcileFails, EndReconcile, EndTurn, Crash,
              ledger, broker
<1>9. ASSUME BeginReview \/ Tick PROVE AttemptsAccount'
  BY <1>9 DEF BeginReview, Tick, ledger, broker
<1>10. QED
  BY <1>1, <1>2, <1>3, <1>4, <1>5, <1>6, <1>7, <1>8, <1>9 DEF Next, LoopStep, BrokerStep

\* A step keeps every result a loop holds a proof of what the broker has.
LEMMA ResultsStep == IInv /\ Next => ResultsAreProof'
<1> SUFFICES ASSUME IInv, Next PROVE ResultsAreProof'
  OBVIOUS
<1> USE DEF IInv, CoreTypeOK, ResultsAreProof, Exposed
<1>0. /\ \A p \in Loops : pc[p] \in Executing => cur[p] \in Intents /\ state[cur[p]] # "none"
      /\ \A p, q \in Loops : pc[p] \in Executing /\ pc[q] \in Executing /\ cur[p] = cur[q] => p = q
  BY DEF OwnsItsIntent, Uncertain
<1>1. ASSUME NEW p \in Loops, NEW i \in Intents, Reserve(p, i) PROVE ResultsAreProof'
  <2>1. attempts[i] = 0
    BY <1>1 DEF Reserve, AttemptsAccount
  <2>2. QED
    BY <1>1, <2>1 DEF Reserve, broker
<1>2. ASSUME NEW p \in Loops, Refuse(p) PROVE ResultsAreProof'
  <2>1. cur[p] \in Intents /\ ~Exposed(cur[p])
    BY <1>0, <1>2 DEF Refuse, Executing, AttemptsAccount
  <2>2. QED
    BY <1>2, <2>1, ClassifyNoAttempt DEF Refuse, Return, broker
<1>3. ASSUME NEW p \in Loops, Transmit(p) PROVE ResultsAreProof'
  <2>1. cur[p] \in Intents /\ ~Exposed(cur[p])
    BY <1>0, <1>3 DEF Transmit, Executing, AttemptsAccount
  <2>2. \A q \in Loops : q # p /\ pc[q] \in Executing => cur[q] # cur[p] /\ cur[q] \in Intents
    BY <1>0, <1>3 DEF Transmit, Executing
  <2>3. UNCHANGED <<cur, orders>> /\ pc'[p] # "send"
    BY <1>3 DEF Transmit, Return
  <2>4. \A i \in Intents : i # cur[p] => requests'[i] = requests[i] /\ attempts'[i] = attempts[i]
    BY <1>3 DEF Transmit
  <2>5. \A q \in Loops : q # p => pc'[q] = pc[q] /\ result'[q] = result[q]
    BY <1>3 DEF Transmit, Return
  <2>6. /\ attempts'[cur[p]] = 1
        /\ pc'[p] = "returned" => requests' = requests /\ Classify(result'[p]) = "REJECTED"
    <3>1. attempts[cur[p]] = 0
      BY <1>3 DEF Transmit
    <3>2. attempts'[cur[p]] = attempts[cur[p]] + 1
      BY <1>3, <2>1 DEF Transmit
    <3>3. CASE Return(p, LocalReject) /\ UNCHANGED requests
      BY <3>1, <3>2, <3>3, ClassifyNoAttempt DEF Return
    <3>4. CASE pc' = [pc EXCEPT ![p] = "await"]
      BY <3>1, <3>2, <3>4
    <3>5. QED
      BY <1>3, <3>3, <3>4 DEF Transmit
  <2>7. QED
    BY <2>1, <2>2, <2>3, <2>4, <2>5, <2>6 DEF Executing
<1>4. ASSUME NEW p \in Loops, Reply(p) PROVE ResultsAreProof'
  <2>1. PICK r \in Replies(cur[p]) : Return(p, r)
    BY <1>4 DEF Reply
  <2>2. cur[p] \in Intents
    BY <1>0, <1>4 DEF Reply, Executing
  <2>3. Classify(r) = "REJECTED" => cur[p] \in declined
    BY <2>1 DEF Replies, Classify, Undetermined, Accepted, Refused
  <2>4. cur[p] \in declined => ~Exposed(cur[p])
    BY <2>2 DEF AttemptsAccount
  <2>5. UNCHANGED <<cur, orders, requests, attempts>>
    BY <1>4 DEF Reply, broker
  <2>6. /\ pc' = [pc EXCEPT ![p] = "returned"]
        /\ result' = [result EXCEPT ![p] = r]
        /\ attempts[cur[p]] = 1
    BY <1>4, <2>1 DEF Reply, Return
  <2>7. ~Exposed(cur[p])' <=> ~Exposed(cur[p])
    BY <2>5
  <2>8. \A q \in Loops : q # p => pc'[q] = pc[q] /\ result'[q] = result[q]
    BY <2>6
  <2>9. pc'[p] = "returned" /\ result'[p] = r
    BY <2>6
  <2>10. QED
    BY <2>3, <2>4, <2>5, <2>6, <2>8, <2>9
<1>5. ASSUME NEW p \in Loops, Persist(p) PROVE ResultsAreProof'
  BY <1>5 DEF Persist, broker
<1>6. ASSUME NEW p \in Loops, BeginReconcile(p) \/ InspectRow(p) \/ ReconcileFails(p)
                              \/ EndReconcile(p) \/ EndTurn(p)
      PROVE ResultsAreProof'
  BY <1>6 DEF BeginReconcile, InspectRow, ReconcileFails, EndReconcile, EndTurn, entry, broker
<1>7. ASSUME NEW p \in Loops, Crash(p) PROVE ResultsAreProof'
  BY <1>7 DEF Crash, broker
<1>8. ASSUME NEW i \in Intents, Arrive(i) PROVE ResultsAreProof'
  <2>1. \A p \in Loops : pc[p] = "returned" => cur[p] \in Intents
    BY <1>0 DEF Executing
  <2>2. \A j \in Intents : ~Exposed(j) => j # i
    BY <1>8 DEF Arrive
  <2>3. \A j \in Intents : j # i => requests'[j] = requests[j] /\ orders'[j] = orders[j]
    BY <1>8 DEF Arrive
  <2>4. UNCHANGED <<pc, cur, result, attempts>>
    BY <1>8 DEF Arrive, memory
  <2>5. QED
    BY <2>1, <2>2, <2>3, <2>4
<1>9. ASSUME NEW i \in Intents, Fill(i) \/ Expire(i) \/ Share(i) PROVE ResultsAreProof'
  BY <1>9 DEF Fill, Expire, Share, memory
<1>10. ASSUME BeginReview \/ EndReview \/ Tick PROVE ResultsAreProof'
  BY <1>10 DEF BeginReview, EndReview, Tick, memory, broker
<1>11. QED
  BY <1>1, <1>2, <1>3, <1>4, <1>5, <1>6, <1>7, <1>8, <1>9, <1>10
     DEF Next, LoopStep, BrokerStep

\* A step keeps sends younger than MaxDelay and reviewed intents without orders.
LEMMA TimelyStep == IInv /\ Next => SendsAreTimely'
<1> SUFFICES ASSUME IInv, Next PROVE SendsAreTimely'
  OBVIOUS
<1> USE LedgerAssumption DEF IInv, CoreTypeOK, SendsAreTimely, Underway, IntentState, Steps
<1>1. ASSUME NEW p \in Loops, NEW i \in Intents, Reserve(p, i) PROVE SendsAreTimely'
  <2>1. i \notin reviewed /\ state'[i] = "SUBMITTING" /\ age'[i] = 0
    BY <1>1 DEF Reserve
  <2>2. \A j \in Intents : j # i => /\ Underway(j)' => Underway(j)
                                    /\ age'[j] = age[j]
                                    /\ state'[j] = state[j]
    BY <1>1 DEF Reserve, broker
  <2>3. UNCHANGED <<reviewed, orders>>
    BY <1>1 DEF Reserve, broker
  <2>4. QED
    BY <2>1, <2>2, <2>3
<1>2. ASSUME NEW p \in Loops, Transmit(p) PROVE SendsAreTimely'
  <2>1. Underway(cur[p])
    BY <1>2 DEF Transmit, Executing
  <2>2. \A j \in Intents : Underway(j)' => Underway(j)
    BY <1>2, <2>1 DEF Transmit, Return, Executing
  <2>3. UNCHANGED <<age, reviewed, orders, state>>
    BY <1>2 DEF Transmit, ledger
  <2>4. QED
    BY <2>2, <2>3
<1>3. ASSUME NEW p \in Loops, Refuse(p) \/ Reply(p) PROVE SendsAreTimely'
  <2>1. \A j \in Intents : Underway(j)' => Underway(j)
    BY <1>3 DEF Refuse, Reply, Return, Executing, broker
  <2>2. UNCHANGED <<age, reviewed, orders, state>>
    BY <1>3 DEF Refuse, Reply, ledger, broker
  <2>3. QED
    BY <2>1, <2>2
<1>4. ASSUME NEW p \in Loops, Persist(p) PROVE SendsAreTimely'
  <2>1. cur[p] \in Intents /\ result[p] \in Result
    BY <1>4 DEF Persist, OwnsItsIntent, Executing
  <2>2. \A j \in Intents : state'[j] = "none" => state[j] = "none"
    BY <1>4, <2>1, ClassifyType DEF Persist
  <2>3. \A j \in Intents : Underway(j)' => Underway(j)
    BY <1>4 DEF Persist, Executing, broker
  <2>4. UNCHANGED <<age, reviewed, orders>>
    BY <1>4 DEF Persist, broker
  <2>5. QED
    BY <2>2, <2>3, <2>4
<1>5. ASSUME NEW p \in Loops, BeginReconcile(p) \/ ReconcileFails(p)
                              \/ EndReconcile(p) \/ EndTurn(p) \/ Crash(p)
      PROVE SendsAreTimely'
  <2>1. \A j \in Intents : Underway(j)' => Underway(j)
    BY <1>5 DEF BeginReconcile, ReconcileFails, EndReconcile, EndTurn, Crash, Executing,
                entry, broker
  <2>2. UNCHANGED <<age, reviewed, orders, state>>
    BY <1>5 DEF BeginReconcile, ReconcileFails, EndReconcile, EndTurn, Crash, ledger, broker
  <2>3. QED
    BY <2>1, <2>2
<1>6. ASSUME NEW p \in Loops, InspectRow(p) PROVE SendsAreTimely'
  <2>1. \A i \in Intents : state'[i] = state[i] \/ state'[i] = "UNKNOWN"
    BY <1>6 DEF InspectRow
  <2>2. UNCHANGED <<age, reviewed, orders, requests, pc, cur>>
    BY <1>6 DEF InspectRow, entry, broker
  <2>3. QED
    BY <2>1, <2>2
<1>7. ASSUME BeginReview PROVE SendsAreTimely'
  BY <1>7 DEF BeginReview, UncertainIntents, Uncertain, ledger, memory, broker
<1>8. ASSUME EndReview PROVE SendsAreTimely'
  BY <1>8 DEF EndReview, memory, broker
<1>9. ASSUME NEW i \in Intents, Arrive(i) PROVE SendsAreTimely'
  <2>1. i \notin reviewed
    BY <1>9 DEF Arrive
  <2>2. \A j \in Intents : Underway(j)' => Underway(j)
    BY <1>9 DEF Arrive, memory
  <2>3. \A j \in Intents : j # i => orders'[j] = orders[j]
    BY <1>9 DEF Arrive
  <2>4. UNCHANGED <<age, reviewed, state>>
    BY <1>9 DEF Arrive, ledger
  <2>5. QED
    BY <2>1, <2>2, <2>3, <2>4
<1>10. ASSUME NEW i \in Intents, Fill(i) \/ Expire(i) \/ Share(i) PROVE SendsAreTimely'
  BY <1>10 DEF Fill, Expire, Share, ledger, memory
<1>11. ASSUME Tick PROVE SendsAreTimely'
  <2>1. \A i \in Intents : Underway(i)' <=> Underway(i)
    BY <1>11 DEF Tick, memory, broker
  <2>2. \A i \in Intents : age'[i] \in {age[i], age[i] + 1}
    BY <1>11 DEF Tick
  <2>3. UNCHANGED <<reviewed, orders, state>>
    BY <1>11 DEF Tick, broker
  <2>4. \A i \in Intents : Underway(i) => age[i] < MaxDelay
    BY <1>11 DEF Tick
  <2>5. QED
    BY <2>1, <2>2, <2>3, <2>4
<1>12. QED
  BY <1>1, <1>2, <1>3, <1>4, <1>5, <1>6, <1>7, <1>8, <1>9, <1>10, <1>11
     DEF Next, LoopStep, BrokerStep

\* A step keeps closed intents without orders and requests.
LEMMA ClosedStep == IInv /\ Next => ClosedHasNoOrder'
<1> SUFFICES ASSUME IInv, Next PROVE ClosedHasNoOrder'
  OBVIOUS
<1> USE DEF IInv, CoreTypeOK, ClosedHasNoOrder, IntentState, Closed
<1>1. ASSUME NEW p \in Loops, NEW i \in Intents, Reserve(p, i) PROVE ClosedHasNoOrder'
  BY <1>1 DEF Reserve, broker
<1>2. ASSUME NEW p \in Loops, Transmit(p) PROVE ClosedHasNoOrder'
  <2>1. cur[p] \in Intents /\ state[cur[p]] \notin Closed
    BY <1>2 DEF Transmit, OwnsItsIntent, Executing, Uncertain
  <2>2. QED
    BY <1>2, <2>1 DEF Transmit, ledger
<1>3. ASSUME NEW p \in Loops, Persist(p) PROVE ClosedHasNoOrder'
  <2>1. cur[p] \in Intents /\ result[p] \in Result
    BY <1>3 DEF Persist, OwnsItsIntent, Executing
  <2>2. Classify(result[p]) \in Closed => ~Exposed(cur[p])
    BY <1>3, <2>1, ClassifyType DEF Persist, ResultsAreProof
  <2>3. \A i \in Intents : \/ state'[i] = state[i]
                           \/ i = cur[p] /\ state'[i] = Classify(result[p])
    BY <1>3, <2>1 DEF Persist
  <2>4. UNCHANGED <<orders, requests>>
    BY <1>3 DEF Persist, broker
  <2>5. QED
    BY <2>1, <2>2, <2>3, <2>4 DEF Exposed
<1>4. ASSUME NEW p \in Loops, InspectRow(p) PROVE ClosedHasNoOrder'
  <2>1. \A i \in Intents : state'[i] = state[i] \/ state'[i] = "UNKNOWN"
    BY <1>4, InspectedState
  <2>2. UNCHANGED <<orders, requests>>
    BY <1>4 DEF InspectRow, broker
  <2>3. QED
    BY <2>1, <2>2
<1>5. ASSUME EndReview PROVE ClosedHasNoOrder'
  <2>1. \A i \in reviewed : orders[i] = 0 /\ requests[i] = 0
    BY LedgerAssumption DEF SendsAreTimely, Underway
  <2>2. \A i \in Intents : state'[i] = state[i] \/ i \in reviewed
    BY <1>5 DEF EndReview
  <2>3. UNCHANGED <<orders, requests>>
    BY <1>5 DEF EndReview, broker
  <2>4. QED
    BY <2>1, <2>2, <2>3
<1>6. ASSUME NEW i \in Intents, Arrive(i) PROVE ClosedHasNoOrder'
  BY <1>6 DEF Arrive, ledger
<1>7. ASSUME NEW i \in Intents, Fill(i) \/ Expire(i) \/ Share(i) PROVE ClosedHasNoOrder'
  BY <1>7 DEF Fill, Expire, Share, ledger
<1>8. ASSUME NEW p \in Loops, Refuse(p) \/ Reply(p) \/ BeginReconcile(p) \/ ReconcileFails(p)
                              \/ EndReconcile(p) \/ EndTurn(p) \/ Crash(p)
      PROVE ClosedHasNoOrder'
  BY <1>8 DEF Refuse, Reply, BeginReconcile, ReconcileFails, EndReconcile, EndTurn, Crash,
              ledger, broker
<1>9. ASSUME BeginReview \/ Tick PROVE ClosedHasNoOrder'
  BY <1>9 DEF BeginReview, Tick, ledger, broker
<1>10. QED
  BY <1>1, <1>2, <1>3, <1>4, <1>5, <1>6, <1>7, <1>8, <1>9 DEF Next, LoopStep, BrokerStep

-----------------------------------------------------------------------------

\* The invariant holds initially.
LEMMA InvInit == Init => IInv
<1> SUFFICES ASSUME Init PROVE IInv
  OBVIOUS
<1>1. CoreTypeOK
  BY TypeInit
<1>2. OwnsItsIntent /\ AttemptsAccount /\ ResultsAreProof /\ SendsAreTimely /\ ClosedHasNoOrder
  BY LedgerAssumption DEF Init, OwnsItsIntent, AttemptsAccount, ResultsAreProof, SendsAreTimely,
                          ClosedHasNoOrder, Underway, Executing, Closed, Uncertain
<1>3. QED
  BY <1>1, <1>2 DEF IInv

\* The invariant depends on the variables only.
LEMMA InvStutter == IInv /\ UNCHANGED vars => IInv'
  BY DEF IInv, CoreTypeOK, OwnsItsIntent, AttemptsAccount, ResultsAreProof, SendsAreTimely,
         ClosedHasNoOrder, Underway, Exposed, vars, ledger, memory, broker

\* Every step preserves the invariant.
LEMMA InvStep == IInv /\ [Next]_vars => IInv'
  BY TypeStep, OwnsStep, AttemptsStep, ResultsStep, TimelyStep, ClosedStep, InvStutter
     DEF IInv

\* The invariant holds in every reachable state of any number of loops and intents: the
\* ledger's columns, the loops' memories and the broker's books stay consistent.
THEOREM Invariance == Spec => []IInv
  BY InvInit, InvStep, PTL DEF Spec

\* However many loops share the ledger, crash and restart, no intent is sent twice.
THEOREM NeverSentTwice == Spec => []AtMostOneAttempt
<1>1. IInv => AtMostOneAttempt
  BY DEF IInv, AttemptsAccount, AtMostOneAttempt
<1>2. QED
  BY <1>1, Invariance, PTL

\* A rejected or resolved intent has nothing at the broker, provided no send outlives
\* MaxDelay and the operator reviews only what is older than that.
THEOREM ClosedIntentsAreEmpty == Spec => []ClosedHasNoOrder
<1>1. IInv => ClosedHasNoOrder
  BY DEF IInv
<1>2. QED
  BY <1>1, Invariance, PTL

\* A verdict of the ledger is never pulled from under the loop that executes the intent.
THEOREM ExecutionKeepsItsIntent == Spec => []ExecutingIsUncertain
<1>1. IInv => ExecutingIsUncertain
  BY DEF IInv, OwnsItsIntent, ExecutingIsUncertain
<1>2. QED
  BY <1>1, Invariance, PTL

\* No entry is reserved while any order or request of the account is unacknowledged.
THEOREM EntriesWaitForDoubt == Spec => EntryOnlyWhenSettled
<1> DEFINE A == \A i \in Intents : state[i] = "none" /\ state'[i] # "none"
                  => \A j \in Intents : Exposed(j) => state[j] = "ACKNOWLEDGED"
<1>1. IInv /\ [Next]_vars => A
  <2> SUFFICES ASSUME IInv, [Next]_vars,
                      NEW i \in Intents, state[i] = "none", state'[i] # "none",
                      NEW j \in Intents, Exposed(j)
               PROVE  state[j] = "ACKNOWLEDGED"
    OBVIOUS
  <2> USE DEF IInv, CoreTypeOK, Uncertain
  <2>1. ASSUME NEW p \in Loops, NEW k \in Intents, Reserve(p, k)
        PROVE  state[j] = "ACKNOWLEDGED"
    <3>1. state[j] \notin Uncertain
      BY <2>1 DEF Reserve, UncertainIntents
    <3>2. state[j] \notin Closed
      BY DEF ClosedHasNoOrder, Exposed
    <3>3. state[j] # "none"
      BY DEF AttemptsAccount, Exposed
    <3>4. QED
      BY <3>1, <3>2, <3>3 DEF IntentState
  <2>2. ASSUME NEW p \in Loops, Persist(p) PROVE FALSE
    <3>1. state[cur[p]] # "none"
      BY <2>2 DEF Persist, OwnsItsIntent, Executing
    <3>2. QED
      BY <2>2, <3>1 DEF Persist
  <2>3. ASSUME NEW p \in Loops, InspectRow(p) PROVE FALSE
    <3>1. i \notin filled
      BY DEF AttemptsAccount
    <3>2. state' = state \/ state'[i] = state[i]
      BY <2>3, <3>1 DEF InspectRow
    <3>3. QED
      BY <3>2
  <2>4. ASSUME EndReview PROVE FALSE
    BY <2>4 DEF EndReview
  <2>5. ASSUME NEW p \in Loops,
               \/ Refuse(p) \/ Transmit(p) \/ Reply(p) \/ BeginReconcile(p)
               \/ ReconcileFails(p) \/ EndReconcile(p) \/ EndTurn(p) \/ Crash(p)
        PROVE  FALSE
    BY <2>5 DEF Refuse, Transmit, Reply, BeginReconcile, ReconcileFails, EndReconcile,
                EndTurn, Crash, ledger
  <2>6. ASSUME NEW k \in Intents, BrokerStep(k) PROVE FALSE
    BY <2>6 DEF BrokerStep, Arrive, Fill, Expire, Share, ledger
  <2>7. ASSUME BeginReview \/ Tick \/ UNCHANGED vars PROVE FALSE
    BY <2>7 DEF BeginReview, Tick, vars, ledger
  <2>8. QED
    BY <2>1, <2>2, <2>3, <2>4, <2>5, <2>6, <2>7 DEF Next, LoopStep
<1>2. QED
  BY <1>1, Invariance, PTL DEF Spec, EntryOnlyWhenSettled

\* What one step can do to the state of an intent: be reserved, get its verdict, be sent
\* back to review, be resolved.
LEMMA StateStep ==
  ASSUME IInv, [Next]_vars, NEW i \in Intents, state'[i] # state[i]
  PROVE  \/ state[i] = "none" /\ state'[i] = "SUBMITTING" /\ UncertainIntents = {}
         \/ \E p \in Loops : Persist(p) /\ cur[p] = i /\ state'[i] = Classify(result[p])
         \/ i \in filled /\ state'[i] = "UNKNOWN"
         \/ state[i] \in Uncertain /\ state'[i] = "RESOLVED_NO_ORDER"
<1> USE DEF IInv, CoreTypeOK
<1>1. CASE \E p \in Loops : \E k \in Intents : Reserve(p, k)
  BY <1>1 DEF Reserve
<1>2. ASSUME NEW p \in Loops, Persist(p)
      PROVE  Persist(p) /\ cur[p] = i /\ state'[i] = Classify(result[p])
  <2>1. cur[p] \in Intents
    BY <1>2 DEF Persist, OwnsItsIntent, Executing
  <2>2. QED
    BY <1>2, <2>1 DEF Persist
<1>3. ASSUME NEW p \in Loops, InspectRow(p) PROVE i \in filled /\ state'[i] = "UNKNOWN"
  BY <1>3, InspectedState
<1>4. CASE EndReview
  BY <1>4 DEF EndReview
<1>5. ASSUME NEW p \in Loops,
             \/ Refuse(p) \/ Transmit(p) \/ Reply(p) \/ BeginReconcile(p)
             \/ ReconcileFails(p) \/ EndReconcile(p) \/ EndTurn(p) \/ Crash(p)
      PROVE  FALSE
  BY <1>5 DEF Refuse, Transmit, Reply, BeginReconcile, ReconcileFails, EndReconcile,
              EndTurn, Crash, ledger
<1>6. ASSUME NEW k \in Intents, BrokerStep(k) PROVE FALSE
  BY <1>6 DEF BrokerStep, Arrive, Fill, Expire, Share, ledger
<1>7. ASSUME BeginReview \/ Tick \/ UNCHANGED vars PROVE FALSE
  BY <1>7 DEF BeginReview, Tick, vars, ledger
<1>8. QED
  BY <1>1, <1>2, <1>3, <1>4, <1>5, <1>6, <1>7 DEF Next, LoopStep

\* The verdicts REJECTED and RESOLVED_NO_ORDER are final.
THEOREM VerdictsAreFinal == Spec => ClosedIsFinal
<1> DEFINE A == \A i \in Intents : state[i] \in Closed => state'[i] = state[i]
<1>1. IInv /\ [Next]_vars => A
  <2> SUFFICES ASSUME IInv, [Next]_vars, NEW i \in Intents,
                      state[i] \in Closed, state'[i] # state[i]
               PROVE  FALSE
    OBVIOUS
  <2>1. i \notin filled
    BY DEF IInv, CoreTypeOK, ClosedHasNoOrder, AttemptsAccount
  <2>2. \A p \in Loops : Persist(p) => cur[p] # i
    BY DEF IInv, OwnsItsIntent, Persist, Executing, Closed, Uncertain
  <2>3. QED
    BY StateStep, <2>1, <2>2 DEF Closed, Uncertain
<1>2. QED
  BY <1>1, Invariance, PTL DEF Spec, ClosedIsFinal

-----------------------------------------------------------------------------

\* The broker never forgets an order.
LEMMA OrdersStay ==
  ASSUME CoreTypeOK, [Next]_vars, NEW i \in Intents, orders[i] > 0
  PROVE  orders'[i] > 0
<1> USE DEF CoreTypeOK
<1>1. ASSUME NEW p \in Loops, LoopStep(p) PROVE orders' = orders
  BY <1>1 DEF LoopStep, Reserve, Refuse, Transmit, Reply, Persist, BeginReconcile, InspectRow,
              ReconcileFails, EndReconcile, EndTurn, Crash, broker
<1>2. ASSUME NEW k \in Intents, BrokerStep(k) PROVE orders'[i] > 0
  BY <1>2 DEF BrokerStep, Arrive, Fill, Expire, Share
<1>3. ASSUME BeginReview \/ EndReview \/ Tick \/ UNCHANGED vars PROVE orders' = orders
  BY <1>3 DEF BeginReview, EndReview, Tick, vars, broker
<1>4. QED
  BY <1>1, <1>2, <1>3 DEF Next

\* In any number of loops: an UNKNOWN intent with an order at the broker stays UNKNOWN in
\* every step but the final write of a loop that still executes it.  The operator's review
\* cannot resolve it and a reconciliation only confirms the doubt.
LEMMA DoubtStays ==
  ASSUME IInv, IInv', [Next]_vars, NEW i \in Intents,
         state[i] = "UNKNOWN", orders[i] > 0,
         \A p \in Loops : pc[p] = "returned" => cur[p] # i
  PROVE  state'[i] = "UNKNOWN"
<1>1. orders'[i] > 0
  BY OrdersStay DEF IInv
<1>2. state'[i] # "RESOLVED_NO_ORDER"
  BY <1>1 DEF IInv, ClosedHasNoOrder, Closed
<1>3. \A p \in Loops : Persist(p) => cur[p] # i
  BY DEF Persist
<1>4. QED
  BY StateStep, <1>2, <1>3

\* A single loop: no other loop can look at the row of the intent it is executing.
OneLoop == \A p, q \in Loops : p = q

\* The intent a loop is executing is still as the reservation left it.
ExecutingIsFresh == \A p \in Loops : pc[p] \in Executing => state[cur[p]] = "SUBMITTING"

\* With a single loop every step keeps the executing intent as reserved: what could send
\* it to review is a reconciliation, and the loop is not reconciling.
LEMMA FreshStep ==
  ASSUME OneLoop, IInv, [Next]_vars, ExecutingIsFresh
  PROVE  ExecutingIsFresh'
<1> SUFFICES ASSUME NEW p \in Loops, pc'[p] \in Executing PROVE state'[cur'[p]] = "SUBMITTING"
  BY DEF ExecutingIsFresh
<1> USE DEF IInv, CoreTypeOK, Executing
<1>1. ASSUME NEW i \in Intents, Reserve(p, i) PROVE state'[cur'[p]] = "SUBMITTING"
  BY <1>1 DEF Reserve
<1>2. CASE Refuse(p) \/ Transmit(p) \/ Reply(p)
  BY <1>2 DEF Refuse, Transmit, Reply, Return, ledger, ExecutingIsFresh
<1>3. CASE \/ Persist(p) \/ BeginReconcile(p) \/ InspectRow(p) \/ ReconcileFails(p)
           \/ EndReconcile(p) \/ EndTurn(p) \/ Crash(p)
  BY <1>3 DEF Persist, BeginReconcile, InspectRow, ReconcileFails, EndReconcile, EndTurn, Crash
<1>4. CASE EndReview
  <2>1. pc' = pc /\ cur' = cur
    BY <1>4 DEF EndReview, memory
  <2>2. cur[p] \in Intents /\ cur[p] \notin reviewed
    BY <2>1, LedgerAssumption DEF OwnsItsIntent, SendsAreTimely, Underway
  <2>3. QED
    BY <1>4, <2>1, <2>2 DEF EndReview, ExecutingIsFresh
<1>5. ASSUME NEW i \in Intents, BrokerStep(i) PROVE state'[cur'[p]] = "SUBMITTING"
  BY <1>5 DEF BrokerStep, Arrive, Fill, Expire, Share, ledger, memory, ExecutingIsFresh
<1>6. CASE BeginReview \/ Tick \/ UNCHANGED vars
  BY <1>6 DEF BeginReview, Tick, vars, ledger, memory, ExecutingIsFresh
<1>7. \A q \in Loops : q = p
  BY DEF OneLoop
<1>8. QED
  BY <1>1, <1>2, <1>3, <1>4, <1>5, <1>6, <1>7 DEF Next, LoopStep

\* With a single loop on the ledger an UNKNOWN intent that has an order at the broker stays
\* UNKNOWN for good: the program never settles by itself what it once doubted.
THEOREM DoubtBlocksForGood ==
  ASSUME OneLoop
  PROVE  Spec => UnknownOrderBlocks
<1> DEFINE A == \A i \in Intents : state[i] = "UNKNOWN" /\ orders[i] > 0 => state'[i] = "UNKNOWN"
<1>1. Init => ExecutingIsFresh
  BY DEF Init, ExecutingIsFresh, Executing
<1>2. IInv /\ ExecutingIsFresh /\ [Next]_vars => ExecutingIsFresh'
  BY FreshStep
<1>3. IInv /\ IInv' /\ ExecutingIsFresh /\ [Next]_vars => A
  <2> SUFFICES ASSUME IInv, IInv', ExecutingIsFresh, [Next]_vars,
                      NEW i \in Intents, state[i] = "UNKNOWN", orders[i] > 0
               PROVE  state'[i] = "UNKNOWN"
    OBVIOUS
  <2>1. \A p \in Loops : pc[p] = "returned" => cur[p] # i
    BY DEF ExecutingIsFresh, Executing
  <2>2. QED
    BY <2>1, DoubtStays
<1>4. QED
  BY <1>1, <1>2, <1>3, Invariance, PTL DEF Spec, UnknownOrderBlocks

-----------------------------------------------------------------------------

\* The initial ledger maps to the initial promise.
LEMMA PromiseInit == Init => Promise!Init
  BY DEF Init, Promise!Init, Phase

\* A step of the ledger is a step of the promise or leaves it as it is.
LEMMA PromiseStep == IInv /\ IInv' /\ [Next]_vars => [Promise!Next]_(Promise!vars)
<1> SUFFICES ASSUME IInv, IInv', [Next]_vars PROVE [Promise!Next]_(Promise!vars)
  OBVIOUS
<1> DEFINE ph == [i \in Intents |-> Phase(state[i])]
           tr == {i \in Intents : attempts[i] > 0}
<1> USE DEF IInv, CoreTypeOK, Promise!Open
<1>1. ASSUME NEW p \in Loops, NEW i \in Intents, Reserve(p, i) PROVE Promise!TakeUp(i)
  <2>1. ph[i] = "fresh" /\ Promise!Open = {}
    BY <1>1 DEF Reserve, UncertainIntents, Phase, Uncertain
  <2>2. ph' = [ph EXCEPT ![i] = "open"]
    BY <1>1 DEF Reserve, Phase, Uncertain
  <2>3. tr' = tr
    BY <1>1 DEF Reserve
  <2>4. QED
    BY <2>1, <2>2, <2>3 DEF Promise!TakeUp
<1>2. ASSUME NEW p \in Loops, Transmit(p) PROVE Promise!Try(cur[p])
  <2>1. cur[p] \in Intents /\ state[cur[p]] \in Uncertain /\ attempts[cur[p]] = 0
    BY <1>2 DEF Transmit, OwnsItsIntent, Executing, ResultsAreProof
  <2>2. ph[cur[p]] = "open" /\ ph' = ph
    BY <1>2, <2>1 DEF Transmit, ledger, Phase, Uncertain
  <2>3. tr' = tr \cup {cur[p]} /\ cur[p] \notin tr
    BY <1>2, <2>1 DEF Transmit
  <2>4. QED
    BY <2>1, <2>2, <2>3 DEF Promise!Try
<1>3. ASSUME NEW p \in Loops, Persist(p) PROVE [Promise!Next]_(Promise!vars)
  <2>1. /\ cur[p] \in Intents /\ state[cur[p]] \in Uncertain
        /\ result[p] \in Result
        /\ Classify(result[p]) = "ACKNOWLEDGED" => attempts[cur[p]] = 1
    BY <1>3 DEF Persist, OwnsItsIntent, Executing, ResultsAreProof
  <2>2. tr' = tr
    BY <1>3 DEF Persist
  <2>3. CASE state' = state
    BY <2>2, <2>3 DEF Promise!vars
  <2>4. CASE state' = [state EXCEPT ![cur[p]] = Classify(result[p])]
    <3>1. CASE Classify(result[p]) = "ACKNOWLEDGED"
      <4>1. cur[p] \in Promise!Open \cap tr
        BY <2>1, <3>1 DEF Phase, Uncertain
      <4>2. ph' = [ph EXCEPT ![cur[p]] = "settled"]
        BY <2>1, <2>4, <3>1 DEF Phase, Uncertain
      <4>3. QED
        BY <2>1, <2>2, <4>1, <4>2 DEF Promise!Next, Promise!Settle
    <3>2. CASE Classify(result[p]) = "REJECTED"
      <4>1. {cur[p]} \subseteq Promise!Open
        BY <2>1 DEF Phase, Uncertain
      <4>2. ph' = [i \in Intents |-> IF i \in {cur[p]} THEN "dropped" ELSE ph[i]]
        BY <2>1, <2>4, <3>2 DEF Phase, Uncertain
      <4>3. QED
        <5>1. Promise!Drop({cur[p]}) /\ {cur[p]} \in SUBSET Intents
          BY <2>1, <2>2, <4>1, <4>2 DEF Promise!Drop
        <5>2. QED
          BY <5>1, Zenon DEF Promise!Next
    <3>3. CASE Classify(result[p]) = "UNKNOWN"
      <4>1. ph' = ph
        BY <2>1, <2>4, <3>3 DEF Phase, Uncertain
      <4>2. QED
        BY <2>2, <4>1 DEF Promise!vars
    <3>4. QED
      BY <2>1, <3>1, <3>2, <3>3, ClassifyType
  <2>5. QED
    BY <1>3, <2>3, <2>4 DEF Persist
<1>4. ASSUME NEW p \in Loops, InspectRow(p) PROVE [Promise!Next]_(Promise!vars)
  <2>1. tr' = tr
    BY <1>4 DEF InspectRow
  <2>2. CASE state' = state
    BY <2>1, <2>2 DEF Promise!vars
  <2>3. CASE state' # state
    <3>1. PICK i \in filled : state' = [state EXCEPT ![i] = "UNKNOWN"]
      <4> DEFINE h == Head(batch[p])
      <4>1. CASE h \in filled /\ state' = [state EXCEPT ![h] = IF h \in shared THEN "UNKNOWN" ELSE @]
        <5>1. h \in Intents
          BY <4>1
        <5>2. h \in shared
          BY <2>3, <4>1, <5>1
        <5>3. QED
          BY <4>1, <5>2
      <4>2. CASE state' = state
        BY <2>3, <4>2
      <4>3. \/ h \in filled /\ state' = [state EXCEPT ![h] = IF h \in shared THEN "UNKNOWN" ELSE @]
            \/ state' = state
        BY <1>4, Zenon DEF InspectRow
      <4>4. QED
        BY <4>1, <4>2, <4>3
    <3>2. i \in Intents /\ state[i] \in {"ACKNOWLEDGED"} \cup Uncertain
      <4>1. i \in Intents /\ orders[i] > 0 /\ attempts[i] > 0
        BY DEF AttemptsAccount
      <4>2. state[i] \notin Closed
        BY <4>1 DEF ClosedHasNoOrder
      <4>3. state[i] # "none"
        BY <4>1 DEF AttemptsAccount
      <4>4. QED
        BY <4>1, <4>2, <4>3 DEF IntentState
    <3>3. CASE state[i] = "ACKNOWLEDGED"
      <4>1. ph[i] = "settled" /\ ph' = [ph EXCEPT ![i] = "open"]
        BY <3>1, <3>2, <3>3 DEF Phase, Uncertain
      <4>2. QED
        BY <2>1, <3>2, <4>1 DEF Promise!Next, Promise!Reopen
    <3>4. CASE state[i] \in Uncertain
      <4>1. ph' = ph
        BY <3>1, <3>2, <3>4 DEF Phase, Uncertain
      <4>2. QED
        BY <2>1, <4>1 DEF Promise!vars
    <3>5. QED
      BY <3>2, <3>3, <3>4
  <2>4. QED
    BY <2>2, <2>3
<1>5. ASSUME EndReview PROVE [Promise!Next]_(Promise!vars)
  <2>1. tr' = tr
    BY <1>5 DEF EndReview
  <2>2. CASE state' = state
    BY <2>1, <2>2 DEF Promise!vars
  <2>3. CASE state' # state
    <3>1. DEFINE S == {i \in reviewed : state[i] \in Uncertain}
    <3>2. S \subseteq Promise!Open
      BY DEF Phase, Uncertain
    <3>3. ph' = [i \in Intents |-> IF i \in S THEN "dropped" ELSE ph[i]]
      BY <1>5, <2>3 DEF EndReview, Phase, Uncertain
    <3>4. Promise!Drop(S) /\ S \in SUBSET Intents
      BY <2>1, <3>2, <3>3 DEF Promise!Drop
    <3>5. QED
      BY <3>4 DEF Promise!Next
  <2>4. QED
    BY <2>2, <2>3
<1>6. ASSUME NEW p \in Loops,
             \/ Refuse(p) \/ Reply(p) \/ BeginReconcile(p)
             \/ ReconcileFails(p) \/ EndReconcile(p) \/ EndTurn(p) \/ Crash(p)
      PROVE  UNCHANGED <<state, attempts>>
  BY <1>6 DEF Refuse, Reply, BeginReconcile, ReconcileFails, EndReconcile, EndTurn, Crash, ledger
<1>7. ASSUME NEW i \in Intents, BrokerStep(i) PROVE UNCHANGED <<state, attempts>>
  BY <1>7 DEF BrokerStep, Arrive, Fill, Expire, Share, ledger
<1>8. ASSUME BeginReview \/ Tick \/ UNCHANGED vars PROVE UNCHANGED <<state, attempts>>
  BY <1>8 DEF BeginReview, Tick, vars, ledger
<1>9. CASE UNCHANGED <<state, attempts>>
  BY <1>9 DEF Promise!vars
<1>10. CASE \E p \in Loops : \E i \in Intents : Reserve(p, i)
  BY <1>1, <1>10 DEF Promise!Next
<1>11. CASE \E p \in Loops : Transmit(p)
  <2>1. PICK p \in Loops : Transmit(p)
    BY <1>11
  <2>2. cur[p] \in Intents
    BY <2>1 DEF Transmit, OwnsItsIntent, Executing
  <2>3. Promise!Try(cur[p])
    BY <1>2, <2>1
  <2>4. Promise!Next
    BY <2>2, <2>3, Zenon DEF Promise!Next, Promise!Try
  <2>5. QED
    BY <2>4
<1>12. QED
  BY <1>3, <1>4, <1>5, <1>6, <1>7, <1>8, <1>9, <1>10, <1>11 DEF Next, LoopStep

\* The ledger, with its crashes, delays and reviews, implements the abstract promise.
THEOREM LedgerKeepsPromise == Spec => ImplementsPromise
  BY PromiseInit, PromiseStep, Invariance, PTL DEF Spec, ImplementsPromise, Promise!Spec

=============================================================================
