------------------------ MODULE PendingContextsProofs ------------------------
(***************************************************************************)
(* Proofs about PendingContexts: for any number of orders on any symbols   *)
(* and sides, and any number of crashes, failed reads and failed writes,   *)
(* positions.json that does not load included, a saved context is          *)
(* accounted for, and what the lifecycle journal tells of an order's end   *)
(* is what TellsTruth allows.  One lemma per conjunct of the inductive     *)
(* invariant, one step per action.                                         *)
(***************************************************************************)
EXTENDS PendingContexts, TLAPS

\* Every step keeps the types.
LEMMA TypesKept ==
  ASSUME TypeOK, Next
  PROVE  TypeOK'
  <1>0. /\ Mishap => mishaps' \in 0..MaxMishaps
        /\ Smooth => mishaps' \in 0..MaxMishaps
    BY PendingAssumption DEF TypeOK, Mishap, Smooth
  <1>1. CASE ReadPositions
    <2>1. mishaps' \in 0..MaxMishaps
      BY <1>1, <1>0 DEF TypeOK, ReadPositions
    <2> QED BY <1>1, <2>1 DEF TypeOK, ReadPositions, broker, files, history
  <1>2. CASE ReadOrders
    <2>1. mishaps' \in 0..MaxMishaps
      BY <1>2, <1>0 DEF TypeOK, ReadOrders
    <2>2. \A entries : Without(entries) \in [Orders -> Contexts]
      BY DEF TypeOK, Without, Contexts
    <2>3. state' \in [Orders -> Contexts]
      BY <1>2, <2>2 DEF TypeOK, ReadOrders
    <2>4. lost' \in SUBSET Orders /\ forgotten' \in SUBSET Orders
      BY <1>2 DEF TypeOK, ReadOrders, Entries
    <2> QED BY <1>2, <2>1, <2>3, <2>4 DEF TypeOK, ReadOrders, broker, files
  <1>3. CASE EndAdopt
    <2>1. mishaps' \in 0..MaxMishaps
      BY <1>3, <1>0 DEF TypeOK, EndAdopt
    <2> QED BY <1>3, <2>1 DEF TypeOK, EndAdopt, broker, files, history
  <1>4. CASE SaveState
    <2>1. mishaps' \in 0..MaxMishaps
      BY <1>4, <1>0 DEF TypeOK, SaveState
    <2> QED BY <1>4, <2>1 DEF TypeOK, SaveState, broker
  <1>5. CASE WritePending
    <2>1. mishaps' \in 0..MaxMishaps
      BY <1>5, <1>0 DEF TypeOK, WritePending
    <2> QED BY <1>5, <2>1 DEF TypeOK, WritePending, broker, history
  <1>6. CASE Manage
    <2>1. mishaps' \in 0..MaxMishaps
      BY <1>6, <1>0 DEF TypeOK, Manage
    <2>2. PICK entries \in SUBSET Entries : ManageWithout(entries)
      BY <1>6 DEF Manage
    <2>3. Without(entries) \in [Orders -> Contexts]
      BY DEF TypeOK, Without, Contexts
    <2> QED BY <2>1, <2>2, <2>3 DEF TypeOK, ManageWithout, Contexts, broker
  <1>7. CASE SavePending
    <2>1. mishaps' \in 0..MaxMishaps
      BY <1>7, <1>0 DEF TypeOK, SavePending, Tell, TellNot
    <2> QED BY <1>7, <2>1 DEF TypeOK, SavePending, Tell, TellNot, Ends, broker
  <1>8. CASE EndTurn
    <2>1. mishaps' \in 0..MaxMishaps
      BY <1>8, <1>0 DEF TypeOK, EndTurn
    <2> QED BY <1>8, <2>1 DEF TypeOK, EndTurn, Forget, Contexts, broker, files, history
  <1>9. CASE Crash
    <2>1. mishaps' \in 0..MaxMishaps
      BY <1>9, <1>0 DEF TypeOK, Crash
    <2> QED BY <1>9, <2>1 DEF TypeOK, Crash, Forget, Contexts, broker, files, history
  <1>10. ASSUME NEW o \in Orders, Adopt(o) PROVE TypeOK'
    <2>1. mishaps' \in 0..MaxMishaps
      BY <1>10, <1>0 DEF TypeOK, Adopt, Tell, TellNot
    <2> QED BY <1>10, <2>1 DEF TypeOK, Adopt, Matches, Tell, TellNot, Ends, Contexts,
       broker, history
  <1>11. ASSUME NEW o \in Orders, Recover(o) PROVE TypeOK'
    <2>1. mishaps' \in 0..MaxMishaps
      BY <1>11, <1>0 DEF TypeOK, Recover, Tell, TellNot
    <2>2. state' \in [Orders -> Contexts] /\ changed' \in BOOLEAN
      BY <1>11 DEF TypeOK, Recover, Contexts
    <2> QED BY <1>11, <2>1, <2>2 DEF TypeOK, Recover, Settled, Tell, TellNot, Ends, broker,
       history
  <1>12. ASSUME NEW o \in Orders, Purge(o) PROVE TypeOK'
    <2>1. mishaps' \in 0..MaxMishaps
      BY <1>12, <1>0 DEF TypeOK, Purge, Tell, TellNot
    <2> QED BY <1>12, <2>1 DEF TypeOK, Purge, Settled, Tell, TellNot, Ends, Issue,
       broker, history
  <1>13. ASSUME NEW o \in Orders, Wait(o) PROVE TypeOK'
    <2>1. mishaps' \in 0..MaxMishaps
      BY <1>13, <1>0 DEF TypeOK, Wait
    <2> QED BY <1>13, <2>1 DEF TypeOK, Wait, Settled, broker, history
  <1>14. ASSUME NEW o \in Orders, Fill(o) PROVE TypeOK'
    <2>1. mishaps' \in 0..MaxMishaps
      BY <1>14, <1>0 DEF TypeOK, Fill
    <2> QED BY <1>14, <2>1 DEF TypeOK, Fill, files, turn, history
  <1>15. ASSUME NEW o \in Orders, NEW how \in {"canceled", "expired"}, Drop(o, how)
         PROVE  TypeOK'
    <2>1. mishaps' \in 0..MaxMishaps
      BY <1>15, <1>0 DEF TypeOK, Drop
    <2> QED BY <1>15, <2>1 DEF TypeOK, Drop, files, turn, history
  <1>16. ASSUME NEW o \in Orders, Close(o) PROVE TypeOK'
    <2>1. mishaps' \in 0..MaxMishaps
      BY <1>16, <1>0 DEF TypeOK, Close
    <2> QED BY <1>16, <2>1 DEF TypeOK, Close, files, turn, history
  <1>17. ASSUME NEW o \in Orders, Show(o) PROVE TypeOK'
    <2>1. mishaps' \in 0..MaxMishaps
      BY <1>17, <1>0 DEF TypeOK, Show
    <2> QED BY <1>17, <2>1 DEF TypeOK, Show, files, turn, history
  <1>18. ASSUME NEW o \in Orders, Place(o) PROVE TypeOK'
    <2>1. mishaps' \in 0..MaxMishaps
      BY <1>18, <1>0 DEF TypeOK, Place
    <2> QED BY <1>18, <2>1 DEF TypeOK, Place, files, history
  <1>19. ASSUME NEW o \in Orders, Lapse(o) PROVE TypeOK'
    <2>1. mishaps' \in 0..MaxMishaps
      BY <1>19, <1>0 DEF TypeOK, Lapse
    <2> QED BY <1>19, <2>1 DEF TypeOK, Lapse, files, turn, history
  <1> QED BY <1>1, <1>2, <1>3, <1>4, <1>5, <1>6, <1>7, <1>8, <1>9, <1>10, <1>11, <1>12,
     <1>13, <1>14, <1>15, <1>16, <1>17, <1>18, <1>19 DEF Next, Pass, Broker

\* Events are only added to the lifecycle journal.
LEMMA ToldGrows ==
  ASSUME TypeOK, Next
  PROVE  \A u \in Orders : told[u] \subseteq told'[u]
  BY DEF TypeOK, Next, Pass, Broker, Crash, ReadPositions, ReadOrders, EndAdopt,
     SaveState, WritePending, Manage, ManageWithout, SavePending, EndTurn, Adopt, Recover,
     Purge, Wait, Fill, Drop, Close, Show, Place, Lapse, Tell, TellNot, files, Settled

\* So an end that has been told stays told.
LEMMA EndsStay ==
  ASSUME TypeOK, Next, NEW u \in Orders, Ended(u)
  PROVE  Ended(u)'
  BY ToldGrows DEF Ended

\* An event of an end, once told, is one.
LEMMA ToldIsEnded ==
  ASSUME TypeOK, NEW o \in Orders, NEW event \in Ends, Tell(o, event)
  PROVE  Ended(o)'
  BY DEF TypeOK, Tell, Ended

\* A purge keeps the context of an order, or tells an end of it.
LEMMA PurgeEnds ==
  ASSUME TypeOK, NEW o \in Orders, Purge(o)
  PROVE  keep' = keep \/ (keep' = keep \ {o} /\ Ended(o)')
  <1>1. Issue(o) \in Ends
    BY DEF Issue, Ends
  <1>2. CASE Tell(o, Issue(o)) /\ keep' = keep \ {o}
    BY <1>1, <1>2, ToldIsEnded
  <1>3. CASE told' = [told EXCEPT ![o] = @ \cup {"unknown"}] /\ keep' = keep \ {o}
    BY <1>3 DEF TypeOK, Ended, Ends
  <1>4. CASE keep' = keep
    BY <1>4
  <1> QED BY <1>2, <1>3, <1>4 DEF Purge

\* One limit order waits at most: Place is the only step that adds one.
LEMMA OneWaitsKept ==
  ASSUME TypeOK, OneWaits, Next
  PROVE  OneWaits'
  <1>1. CASE ReadPositions
    BY <1>1 DEF ReadPositions, OneWaits, broker, Over
  <1>2. CASE ReadOrders
    BY <1>2 DEF ReadOrders, OneWaits, broker, Over
  <1>3. CASE EndAdopt
    BY <1>3 DEF EndAdopt, Matches, OneWaits, broker, Over
  <1>4. CASE SaveState
    BY <1>4 DEF SaveState, OneWaits, broker, Over
  <1>5. CASE WritePending
    BY <1>5 DEF WritePending, OneWaits, broker, Over
  <1>6. CASE Manage
    BY <1>6 DEF Manage, ManageWithout, Closed, OneWaits, broker, Over
  <1>7. CASE SavePending
    BY <1>7 DEF SavePending, OneWaits, broker, Over
  <1>8. CASE EndTurn
    BY <1>8 DEF EndTurn, Forget, OneWaits, broker, Over
  <1>9. CASE Crash
    BY <1>9 DEF Crash, Forget, OneWaits, broker, Over
  <1>10. ASSUME NEW o \in Orders, Adopt(o) PROVE OneWaits'
    BY <1>10 DEF Adopt, Matches, OneWaits, broker, Over
  <1>11. ASSUME NEW o \in Orders, Recover(o) PROVE OneWaits'
    BY <1>11 DEF Recover, Settled, OneWaits, broker, Over
  <1>12. ASSUME NEW o \in Orders, Purge(o) PROVE OneWaits'
    BY <1>12 DEF Purge, Settled, Issue, OneWaits, broker, Over
  <1>13. ASSUME NEW o \in Orders, Wait(o) PROVE OneWaits'
    BY <1>13 DEF Wait, Settled, OneWaits, broker, Over
  <1>14. ASSUME NEW o \in Orders, Fill(o) PROVE OneWaits'
    BY <1>14 DEF Fill, OneWaits, TypeOK, turn, Over
  <1>15. ASSUME NEW o \in Orders, NEW how \in {"canceled", "expired"}, Drop(o, how)
         PROVE  OneWaits'
    BY <1>15 DEF Drop, OneWaits, TypeOK, turn, Over
  <1>16. ASSUME NEW o \in Orders, Close(o) PROVE OneWaits'
    BY <1>16 DEF Close, OneWaits, turn, Over
  <1>17. ASSUME NEW o \in Orders, Show(o) PROVE OneWaits'
    BY <1>17 DEF Show, Over, OneWaits, turn
  <1>18. ASSUME NEW o \in Orders, Place(o) PROVE OneWaits'
    BY <1>18 DEF Place, OneWaits, TypeOK, Over
  <1>19. ASSUME NEW o \in Orders, Lapse(o) PROVE OneWaits'
    BY <1>19 DEF Lapse, Over, OneWaits, turn
  <1> QED BY <1>1, <1>2, <1>3, <1>4, <1>5, <1>6, <1>7, <1>8, <1>9, <1>10, <1>11, <1>12,
     <1>13, <1>14, <1>15, <1>16, <1>17, <1>18, <1>19 DEF Next, Pass, Broker

\* A position stays that of an order that filled.
LEMMA FillsKept ==
  ASSUME TypeOK, Fills, Next
  PROVE  Fills'
  <1>1. CASE ReadPositions
    BY <1>1 DEF ReadPositions, Fills, broker, history
  <1>2. CASE ReadOrders
    BY <1>2 DEF ReadOrders, Fills, broker, history
  <1>3. CASE EndAdopt
    BY <1>3 DEF EndAdopt, Matches, Fills, broker, history
  <1>4. CASE SaveState
    BY <1>4 DEF SaveState, Fills, broker, history
  <1>5. CASE WritePending
    BY <1>5 DEF WritePending, Fills, broker, history
  <1>6. CASE Manage
    BY <1>6 DEF Manage, ManageWithout, Closed, Fills, TypeOK, broker
  <1>7. CASE SavePending
    BY <1>7 DEF SavePending, Fills, broker
  <1>8. CASE EndTurn
    BY <1>8 DEF EndTurn, Forget, Fills, broker, history
  <1>9. CASE Crash
    BY <1>9 DEF Crash, Forget, Fills, broker, history
  <1>10. ASSUME NEW o \in Orders, Adopt(o) PROVE Fills'
    BY <1>10 DEF Adopt, Matches, Fills, broker, history
  <1>11. ASSUME NEW o \in Orders, Recover(o) PROVE Fills'
    BY <1>11 DEF Recover, Settled, Fills, broker, history
  <1>12. ASSUME NEW o \in Orders, Purge(o) PROVE Fills'
    BY <1>12 DEF Purge, Settled, Issue, Fills, broker, history
  <1>13. ASSUME NEW o \in Orders, Wait(o) PROVE Fills'
    BY <1>13 DEF Wait, Settled, Fills, broker, history
  <1>14. ASSUME NEW o \in Orders, Fill(o) PROVE Fills'
    BY <1>14 DEF Fill, Fills, TypeOK, turn, history
  <1>15. ASSUME NEW o \in Orders, NEW how \in {"canceled", "expired"}, Drop(o, how)
         PROVE  Fills'
    BY <1>15 DEF Drop, Fills, TypeOK, turn, history
  <1>16. ASSUME NEW o \in Orders, Close(o) PROVE Fills'
    BY <1>16 DEF Close, Fills, TypeOK, turn, history
  <1>17. ASSUME NEW o \in Orders, Show(o) PROVE Fills'
    BY <1>17 DEF Show, Over, Fills, turn, history
  <1>18. ASSUME NEW o \in Orders, Place(o) PROVE Fills'
    BY <1>18 DEF Place, Fills, TypeOK, history
  <1>19. ASSUME NEW o \in Orders, Lapse(o) PROVE Fills'
    BY <1>19 DEF Lapse, Over, Fills, turn, history
  <1> QED BY <1>1, <1>2, <1>3, <1>4, <1>5, <1>6, <1>7, <1>8, <1>9, <1>10, <1>11, <1>12,
     <1>13, <1>14, <1>15, <1>16, <1>17, <1>18, <1>19 DEF Next, Pass, Broker

\* An open position is tracked before the next order: manage_once stands between the fill and
\* the next entry.
LEMMA TrackedBeforeNextKept ==
  ASSUME TypeOK, OneWaits, Fills, PassAgrees, TrackedBeforeNext, Next
  PROVE  TrackedBeforeNext'
  <1>1. CASE ReadPositions
    BY <1>1 DEF ReadPositions, TrackedBeforeNext, broker, files, history, TypeOK,
       Nothing, Bare, Orders, OneWaits, Fills, PassAgrees, Contexts, Over
  <1>2. CASE ReadOrders
    BY <1>2 DEF ReadOrders, TrackedBeforeNext, broker, files, history
  <1>3. CASE EndAdopt
    BY <1>3 DEF EndAdopt, Matches, TrackedBeforeNext, broker, files, history
  <1>4. CASE SaveState
    BY <1>4 DEF SaveState, TrackedBeforeNext, broker, history, TypeOK, Nothing, Bare,
       Orders, PassAgrees
  <1>5. CASE WritePending
    BY <1>5 DEF WritePending, TrackedBeforeNext, broker, history
  <1>6. CASE Manage
    <2>1. PICK entries \in SUBSET Entries : ManageWithout(entries)
      BY <1>6 DEF Manage
    <2>2. pc' \in {"entries", "end"} /\ UNCHANGED <<order, position>>
      BY <2>1 DEF ManageWithout, broker
    <2>3. \A p \in Orders : position[p] = "open" => tracked'[p] # Nothing
      BY <2>1 DEF ManageWithout, Closed, Nothing, Bare
    <2> QED BY <2>2, <2>3 DEF TrackedBeforeNext
  <1>7. CASE SavePending
    BY <1>7 DEF SavePending, TrackedBeforeNext, broker
  <1>8. CASE EndTurn
    BY <1>8 DEF EndTurn, Forget, TrackedBeforeNext, broker, files, history
  <1>9. CASE Crash
    BY <1>9 DEF Crash, Forget, TrackedBeforeNext, broker, files, history
  <1>10. ASSUME NEW o \in Orders, Adopt(o) PROVE TrackedBeforeNext'
    BY <1>10 DEF Adopt, Matches, TrackedBeforeNext, broker, history
  <1>11. ASSUME NEW o \in Orders, Recover(o) PROVE TrackedBeforeNext'
    BY <1>11 DEF Recover, Settled, TrackedBeforeNext, broker, history
  <1>12. ASSUME NEW o \in Orders, Purge(o) PROVE TrackedBeforeNext'
    BY <1>12 DEF Purge, Settled, Issue, TrackedBeforeNext, broker, history
  <1>13. ASSUME NEW o \in Orders, Wait(o) PROVE TrackedBeforeNext'
    BY <1>13 DEF Wait, Settled, TrackedBeforeNext, broker, history
  <1>14. ASSUME NEW o \in Orders, Fill(o) PROVE TrackedBeforeNext'
    BY <1>14 DEF Fill, TrackedBeforeNext, TypeOK, files, turn, history, Nothing, Bare,
       Orders, OneWaits, Fills, PassAgrees, Contexts, Over
  <1>15. ASSUME NEW o \in Orders, NEW how \in {"canceled", "expired"}, Drop(o, how)
         PROVE  TrackedBeforeNext'
    BY <1>15 DEF Drop, TrackedBeforeNext, TypeOK, files, turn, history
  <1>16. ASSUME NEW o \in Orders, Close(o) PROVE TrackedBeforeNext'
    BY <1>16 DEF Close, TrackedBeforeNext, TypeOK, files, turn, history
  <1>17. ASSUME NEW o \in Orders, Show(o) PROVE TrackedBeforeNext'
    BY <1>17 DEF Show, Over, TrackedBeforeNext, files, turn, history
  <1>18. ASSUME NEW o \in Orders, Place(o) PROVE TrackedBeforeNext'
    BY <1>18 DEF Place, TrackedBeforeNext, TypeOK, files, history
  <1>19. ASSUME NEW o \in Orders, Lapse(o) PROVE TrackedBeforeNext'
    BY <1>19 DEF Lapse, Over, TrackedBeforeNext, files, turn, history
  <1> QED BY <1>1, <1>2, <1>3, <1>4, <1>5, <1>6, <1>7, <1>8, <1>9, <1>10, <1>11, <1>12,
     <1>13, <1>14, <1>15, <1>16, <1>17, <1>18, <1>19 DEF Next, Pass, Broker

\* A context stays that of an order that was placed.
LEMMA KnownOrdersKept ==
  ASSUME TypeOK, PassAgrees, KnownOrders, Next
  PROVE  KnownOrders'
  <1>1. CASE ReadPositions
    BY <1>1 DEF ReadPositions, KnownOrders, broker, files, history
  <1>2. CASE ReadOrders
    BY <1>2 DEF ReadOrders, KnownOrders, broker, files, history
  <1>3. CASE EndAdopt
    BY <1>3 DEF EndAdopt, Matches, KnownOrders, broker, files, history
  <1>4. CASE SaveState
    BY <1>4 DEF SaveState, KnownOrders, broker, history
  <1>5. CASE WritePending
    BY <1>5 DEF WritePending, KnownOrders, broker, history, TypeOK, PassAgrees
  <1>6. CASE Manage
    BY <1>6 DEF Manage, ManageWithout, Closed, KnownOrders, broker
  <1>7. CASE SavePending
    BY <1>7 DEF SavePending, KnownOrders, broker
  <1>8. CASE EndTurn
    BY <1>8 DEF EndTurn, Forget, KnownOrders, broker, files, history
  <1>9. CASE Crash
    BY <1>9 DEF Crash, Forget, KnownOrders, broker, files, history
  <1>10. ASSUME NEW o \in Orders, Adopt(o) PROVE KnownOrders'
    BY <1>10 DEF Adopt, Matches, KnownOrders, broker, history
  <1>11. ASSUME NEW o \in Orders, Recover(o) PROVE KnownOrders'
    BY <1>11 DEF Recover, Settled, KnownOrders, broker, history
  <1>12. ASSUME NEW o \in Orders, Purge(o) PROVE KnownOrders'
    BY <1>12 DEF Purge, Settled, Issue, KnownOrders, broker, history
  <1>13. ASSUME NEW o \in Orders, Wait(o) PROVE KnownOrders'
    BY <1>13 DEF Wait, Settled, KnownOrders, broker, history
  <1>14. ASSUME NEW o \in Orders, Fill(o) PROVE KnownOrders'
    BY <1>14 DEF Fill, KnownOrders, TypeOK, files, turn, history
  <1>15. ASSUME NEW o \in Orders, NEW how \in {"canceled", "expired"}, Drop(o, how)
         PROVE  KnownOrders'
    BY <1>15 DEF Drop, KnownOrders, TypeOK, files, turn, history
  <1>16. ASSUME NEW o \in Orders, Close(o) PROVE KnownOrders'
    BY <1>16 DEF Close, KnownOrders, files, turn, history
  <1>17. ASSUME NEW o \in Orders, Show(o) PROVE KnownOrders'
    BY <1>17 DEF Show, Over, KnownOrders, files, turn, history
  <1>18. ASSUME NEW o \in Orders, Place(o) PROVE KnownOrders'
    BY <1>18 DEF Place, KnownOrders, TypeOK, files, history
  <1>19. ASSUME NEW o \in Orders, Lapse(o) PROVE KnownOrders'
    BY <1>19 DEF Lapse, Over, KnownOrders, files, turn, history
  <1> QED BY <1>1, <1>2, <1>3, <1>4, <1>5, <1>6, <1>7, <1>8, <1>9, <1>10, <1>11, <1>12,
     <1>13, <1>14, <1>15, <1>16, <1>17, <1>18, <1>19 DEF Next, Pass, Broker

\* The orders a pass settles stay over: no order is placed during a pass.
LEMMA NotLiveKept ==
  ASSUME TypeOK, NotLive, Next
  PROVE  NotLive'
  <1>1. CASE ReadPositions
    BY <1>1 DEF ReadPositions, NotLive, broker
  <1>2. CASE ReadOrders
    BY <1>2 DEF ReadOrders, NotLive, broker
  <1>3. CASE EndAdopt
    BY <1>3 DEF EndAdopt, Matches, NotLive, broker
  <1>4. CASE SaveState
    BY <1>4 DEF SaveState, NotLive, broker
  <1>5. CASE WritePending
    BY <1>5 DEF WritePending, NotLive, broker
  <1>6. CASE Manage
    BY <1>6 DEF Manage, ManageWithout, Closed, NotLive, broker
  <1>7. CASE SavePending
    BY <1>7 DEF SavePending, NotLive, broker
  <1>8. CASE EndTurn
    BY <1>8 DEF EndTurn, Forget, NotLive, broker
  <1>9. CASE Crash
    BY <1>9 DEF Crash, Forget, NotLive, broker
  <1>10. ASSUME NEW o \in Orders, Adopt(o) PROVE NotLive'
    BY <1>10 DEF Adopt, Matches, NotLive, broker
  <1>11. ASSUME NEW o \in Orders, Recover(o) PROVE NotLive'
    BY <1>11 DEF Recover, Settled, NotLive, broker
  <1>12. ASSUME NEW o \in Orders, Purge(o) PROVE NotLive'
    BY <1>12 DEF Purge, Settled, Issue, NotLive, broker
  <1>13. ASSUME NEW o \in Orders, Wait(o) PROVE NotLive'
    BY <1>13 DEF Wait, Settled, NotLive, broker
  <1>14. ASSUME NEW o \in Orders, Fill(o) PROVE NotLive'
    BY <1>14 DEF Fill, NotLive, TypeOK, turn
  <1>15. ASSUME NEW o \in Orders, NEW how \in {"canceled", "expired"}, Drop(o, how)
         PROVE  NotLive'
    BY <1>15 DEF Drop, NotLive, TypeOK, turn
  <1>16. ASSUME NEW o \in Orders, Close(o) PROVE NotLive'
    BY <1>16 DEF Close, NotLive, turn
  <1>17. ASSUME NEW o \in Orders, Show(o) PROVE NotLive'
    BY <1>17 DEF Show, Over, NotLive, turn
  <1>18. ASSUME NEW o \in Orders, Place(o) PROVE NotLive'
    BY <1>18 DEF Place, NotLive, TypeOK
  <1>19. ASSUME NEW o \in Orders, Lapse(o) PROVE NotLive'
    BY <1>19 DEF Lapse, Over, NotLive, turn
  <1> QED BY <1>1, <1>2, <1>3, <1>4, <1>5, <1>6, <1>7, <1>8, <1>9, <1>10, <1>11, <1>12,
     <1>13, <1>14, <1>15, <1>16, <1>17, <1>18, <1>19 DEF Next, Pass, Broker

\* A context that has been journaled is not given again without its order's end told.
LEMMA GivenOnceKept ==
  ASSUME TypeOK, PassAgrees, GivenOnce, Next
  PROVE  GivenOnce'
  <1>1. CASE ReadPositions
    BY <1>1, EndsStay DEF ReadPositions, GivenOnce, files, history
  <1>2. CASE ReadOrders
    BY <1>2, EndsStay DEF ReadOrders, GivenOnce, files, history
  <1>3. CASE EndAdopt
    BY <1>3, EndsStay DEF EndAdopt, Matches, GivenOnce, files, history
  <1>4. CASE SaveState
    BY <1>4, EndsStay DEF SaveState, GivenOnce, history, PassAgrees, TypeOK, Bare,
       Nothing, Orders
  <1>5. CASE WritePending
    BY <1>5, EndsStay DEF WritePending, GivenOnce, history
  <1>6. CASE Manage
    <2> SUFFICES ASSUME NEW p \in Orders, NEW o \in Orders, tracked'[p] = o
                 PROVE  journaled'[p] = Nothing \/ Ended(o)'
      BY DEF GivenOnce
    <2>1. PICK entries \in SUBSET Entries : ManageWithout(entries)
      BY <1>6 DEF Manage
    <2>4. PICK found \in SUBSET (Closed \ entries) :
             /\ tracked'[p] = IF p \in found THEN Nothing
                              ELSE IF position[p] = "open" /\ Without(entries)[p] = Nothing
                                THEN Bare
                              ELSE Without(entries)[p]
             /\ journaled'[p] = IF p \in found /\ journaled[p] = Nothing
                                  THEN tracked[p] ELSE journaled[p]
      BY <2>1 DEF ManageWithout
    <2>2. o # Nothing /\ o # Bare
      BY DEF Orders, Nothing, Bare
    <2>3. tracked[p] = o /\ journaled'[p] = journaled[p]
      BY <2>2, <2>4 DEF Without
    <2> QED BY <2>3, EndsStay DEF GivenOnce
  <1>7. CASE SavePending
    BY <1>7, EndsStay DEF SavePending, GivenOnce
  <1>8. CASE EndTurn
    BY <1>8, EndsStay DEF EndTurn, Forget, GivenOnce, files, history
  <1>9. CASE Crash
    BY <1>9, EndsStay DEF Crash, Forget, GivenOnce, files, history
  <1>10. ASSUME NEW o \in Orders, Adopt(o) PROVE GivenOnce'
    BY <1>10, EndsStay DEF Adopt, Matches, GivenOnce, history
  <1>11. ASSUME NEW o \in Orders, Recover(o) PROVE GivenOnce'
    BY <1>11, EndsStay DEF Recover, Settled, GivenOnce, history
  <1>12. ASSUME NEW o \in Orders, Purge(o) PROVE GivenOnce'
    BY <1>12, EndsStay, PurgeEnds DEF Purge, Settled, Issue, GivenOnce, history
  <1>13. ASSUME NEW o \in Orders, Wait(o) PROVE GivenOnce'
    BY <1>13, EndsStay DEF Wait, Settled, GivenOnce, history
  <1>14. ASSUME NEW o \in Orders, Fill(o) PROVE GivenOnce'
    BY <1>14, EndsStay DEF Fill, GivenOnce, files, history
  <1>15. ASSUME NEW o \in Orders, NEW how \in {"canceled", "expired"}, Drop(o, how)
         PROVE  GivenOnce'
    BY <1>15, EndsStay DEF Drop, GivenOnce, files, history
  <1>16. ASSUME NEW o \in Orders, Close(o) PROVE GivenOnce'
    BY <1>16, EndsStay DEF Close, GivenOnce, files, history
  <1>17. ASSUME NEW o \in Orders, Show(o) PROVE GivenOnce'
    BY <1>17, EndsStay DEF Show, Over, GivenOnce, files, history
  <1>18. ASSUME NEW o \in Orders, Place(o) PROVE GivenOnce'
    BY <1>18, EndsStay DEF Place, GivenOnce, files, history
  <1>19. ASSUME NEW o \in Orders, Lapse(o) PROVE GivenOnce'
    BY <1>19, EndsStay DEF Lapse, Over, GivenOnce, files, history
  <1> QED BY <1>1, <1>2, <1>3, <1>4, <1>5, <1>6, <1>7, <1>8, <1>9, <1>10, <1>11, <1>12,
     <1>13, <1>14, <1>15, <1>16, <1>17, <1>18, <1>19 DEF Next, Pass, Broker

\* The memory of a pass stays in agreement with the files it was read from.
LEMMA PassAgreesKept ==
  ASSUME TypeOK, TrackedBeforeNext, GivenOnce, PassAgrees, Next
  PROVE  PassAgrees'
  <1>1. CASE ReadPositions
    BY <1>1, EndsStay DEF ReadPositions, PassAgrees, files, history
  <1>2. CASE ReadOrders
    <2>1. /\ UNCHANGED <<pending, tracked, told, journaled, changed>>
          /\ pc' \in {"adopt", "manage"}
          /\ lost' \subseteq forgotten'
      BY <1>2 DEF ReadOrders, PassAgrees, files
    <2>2. CASE pc' = "manage"
      BY <2>1, <2>2 DEF PassAgrees
    <2>3. CASE pc' = "adopt"
      <3>1. keep' = pending /\ (state' = tracked \/ state' = Without(lost'))
        BY <1>2, <2>3 DEF ReadOrders
      <3>2. ASSUME NEW p \in Orders, NEW o \in Orders, state'[p] = o
            PROVE  journaled'[p] = Nothing \/ Ended(o)'
        <4>1. CASE state' = tracked
          BY <2>1, <3>2, <4>1, EndsStay DEF GivenOnce
        <4>2. CASE state' = Without(lost')
          <5>1. state'[p] = IF p \in lost' THEN Nothing ELSE tracked[p]
            BY <4>2 DEF Without
          <5>2. o # Nothing
            BY DEF Orders, Nothing
          <5>3. tracked[p] = o
            BY <3>2, <5>1, <5>2
          <5> QED BY <2>1, <5>3, EndsStay DEF GivenOnce
        <4> QED BY <3>1, <4>1, <4>2
      <3>3. \A p \in Orders \ lost' : state'[p] = tracked[p]
        BY <3>1 DEF Without
      <3> QED BY <2>1, <2>3, <3>1, <3>2, <3>3 DEF PassAgrees
    <2> QED BY <2>1, <2>2, <2>3
  <1>3. CASE EndAdopt
    BY <1>3, EndsStay DEF EndAdopt, Matches, PassAgrees, files, history, TypeOK
  <1>4. CASE SaveState
    BY <1>4, EndsStay DEF SaveState, PassAgrees, history, TypeOK
  <1>5. CASE WritePending
    BY <1>5, EndsStay DEF WritePending, PassAgrees, history
  <1>6. CASE Manage
    BY <1>6, EndsStay DEF Manage, ManageWithout, Closed, PassAgrees, TypeOK
  <1>7. CASE SavePending
    BY <1>7, EndsStay DEF SavePending, PassAgrees
  <1>8. CASE EndTurn
    BY <1>8, EndsStay DEF EndTurn, Forget, PassAgrees, TypeOK, files, history
  <1>9. CASE Crash
    BY <1>9, EndsStay DEF Crash, Forget, PassAgrees, TypeOK, files, history
  <1>10. ASSUME NEW o \in Orders, Adopt(o) PROVE PassAgrees'
    <2>1. PICK u \in keep : state' = [state EXCEPT ![o] = u] /\ keep' = keep \ {u}
      BY <1>10 DEF Adopt, Matches
    <2>2. /\ pc = "adopt" /\ o \in seen /\ state[o] = Nothing
          /\ UNCHANGED <<pending, tracked, journaled, lost, forgotten, pc>> /\ changed'
      BY <1>10 DEF Adopt, history
    <2>3. /\ u \in Orders /\ u # Nothing
          /\ \A p \in Orders : state'[p] = IF p = o THEN u ELSE state[p]
      BY <2>1 DEF TypeOK, Orders, Nothing
    <2>4. keep' \subseteq pending'
      BY <2>1, <2>2 DEF PassAgrees
    <2>5. \A p \in Orders \ lost' : tracked'[p] # Nothing => state'[p] = tracked'[p]
      BY <2>2, <2>3 DEF PassAgrees
    <2>6. ASSUME NEW v \in pending' \ keep'
          PROVE  (\E p \in Orders : state'[p] = v) \/ Ended(v)'
      <3>1. v \in Orders /\ v # Nothing
        BY <2>2 DEF TypeOK, Orders, Nothing
      <3>2. v = u \/ v \in pending \ keep
        BY <2>1, <2>2
      <3> QED BY <2>2, <2>3, <3>1, <3>2, EndsStay DEF PassAgrees
    <2>7. ASSUME NEW p \in Orders, NEW v \in Orders, state'[p] = v
          PROVE  journaled'[p] = Nothing \/ Ended(v)'
      <3>1. CASE p = o
        BY <2>2, <3>1 DEF TrackedBeforeNext
      <3>2. CASE p # o
        BY <2>2, <2>3, <2>7, <3>2, EndsStay DEF PassAgrees
      <3> QED BY <3>1, <3>2
    <2> QED BY <2>2, <2>4, <2>5, <2>6, <2>7 DEF PassAgrees
  <1>11. ASSUME NEW o \in Orders, Recover(o) PROVE PassAgrees'
    <2>1. CASE /\ Tell(o, "filled") /\ changed'
               /\ state' = [state EXCEPT ![o] = IF @ = Nothing THEN o ELSE @]
               /\ keep' = keep \ {o}
      <3>1. Ended(o)'
        BY <2>1, ToldIsEnded DEF Ends
      <3>2. \A p \in Orders :
                \/ state'[p] = state[p]
                \/ state[p] = Nothing /\ p = o /\ state'[p] = o
        BY <2>1 DEF TypeOK
      <3>3. pc = "settle" /\ UNCHANGED <<pending, tracked, journaled, lost, forgotten, pc>>
        BY <1>11 DEF Recover, Settled, history
      <3>4. keep' \subseteq pending'
        BY <2>1, <3>3 DEF PassAgrees
      <3>5. \A p \in Orders \ lost' : tracked'[p] # Nothing => state'[p] = tracked'[p]
        BY <3>2, <3>3 DEF PassAgrees
      <3>6. ASSUME NEW u \in pending' \ keep'
            PROVE  (\E p \in Orders : state'[p] = u) \/ Ended(u)'
        <4>1. u = o \/ u \in pending \ keep
          BY <2>1, <3>3
        <4>2. u \in Orders /\ u # Nothing
          BY <3>3 DEF TypeOK, Orders, Nothing
        <4> QED BY <3>1, <3>2, <3>3, <4>1, <4>2, EndsStay DEF PassAgrees
      <3>7. ASSUME NEW p \in Orders, NEW u \in Orders, state'[p] = u
            PROVE  journaled'[p] = Nothing \/ Ended(u)'
        BY <3>1, <3>2, <3>3, <3>7, EndsStay DEF PassAgrees
      <3> QED BY <2>1, <3>3, <3>4, <3>5, <3>6, <3>7 DEF PassAgrees
    <2>2. CASE UNCHANGED <<state, changed, keep>>
      <3>1. pc = "settle" /\ UNCHANGED <<pending, tracked, journaled, lost, forgotten, pc>>
        BY <1>11 DEF Recover, Settled, history
      <3> QED BY <2>2, <3>1, EndsStay DEF PassAgrees, TypeOK
    <2> QED BY <1>11, <2>1, <2>2 DEF Recover
  <1>12. ASSUME NEW o \in Orders, Purge(o) PROVE PassAgrees'
    <2>1. /\ pc = "settle"
          /\ UNCHANGED <<pending, tracked, journaled, lost, forgotten, pc, state, changed>>
      BY <1>12 DEF Purge, Settled, history
    <2>2. keep' \subseteq pending'
      BY <1>12, <2>1, PurgeEnds DEF PassAgrees
    <2>3. ASSUME NEW u \in pending' \ keep'
          PROVE  (\E p \in Orders : state'[p] = u) \/ Ended(u)'
      BY <1>12, <2>1, PurgeEnds, EndsStay DEF PassAgrees, TypeOK
    <2>4. \A p, u \in Orders : state'[p] = u => journaled'[p] = Nothing \/ Ended(u)'
      BY <2>1, EndsStay DEF PassAgrees
    <2>5. \A p \in Orders \ lost' : tracked'[p] # Nothing => state'[p] = tracked'[p]
      BY <2>1 DEF PassAgrees
    <2>6. ~changed' => \A u \in pending' \ keep' : Ended(u)'
      BY <1>12, <2>1, PurgeEnds, EndsStay DEF PassAgrees, TypeOK
    <2> QED BY <2>1, <2>2, <2>3, <2>4, <2>5, <2>6 DEF PassAgrees
  <1>13. ASSUME NEW o \in Orders, Wait(o) PROVE PassAgrees'
    BY <1>13, EndsStay DEF Wait, Settled, PassAgrees, history, TypeOK
  <1>14. ASSUME NEW o \in Orders, Fill(o) PROVE PassAgrees'
    BY <1>14, EndsStay DEF Fill, PassAgrees, files, turn, history, TypeOK
  <1>15. ASSUME NEW o \in Orders, NEW how \in {"canceled", "expired"}, Drop(o, how)
         PROVE  PassAgrees'
    BY <1>15, EndsStay DEF Drop, PassAgrees, files, turn, history, TypeOK
  <1>16. ASSUME NEW o \in Orders, Close(o) PROVE PassAgrees'
    BY <1>16, EndsStay DEF Close, PassAgrees, files, turn, history, TypeOK
  <1>17. ASSUME NEW o \in Orders, Show(o) PROVE PassAgrees'
    BY <1>17, EndsStay DEF Show, Over, PassAgrees, files, turn, history, TypeOK
  <1>18. ASSUME NEW o \in Orders, Place(o) PROVE PassAgrees'
    BY <1>18, EndsStay DEF Place, PassAgrees, files, history
  <1>19. ASSUME NEW o \in Orders, Lapse(o) PROVE PassAgrees'
    BY <1>19, EndsStay DEF Lapse, Over, PassAgrees, files, turn, history, TypeOK
  <1> QED BY <1>1, <1>2, <1>3, <1>4, <1>5, <1>6, <1>7, <1>8, <1>9, <1>10, <1>11, <1>12,
     <1>13, <1>14, <1>15, <1>16, <1>17, <1>18, <1>19 DEF Next, Pass, Broker

\* No step loses a saved context.
LEMMA ContextAccountedKept ==
  ASSUME TypeOK, KnownOrders, GivenOnce, PassAgrees, ContextAccounted, Next
  PROVE  ContextAccounted'
  <1>1. CASE ReadPositions
    BY <1>1, EndsStay DEF ReadPositions, ContextAccounted, files, history, Held, TypeOK
  <1>2. CASE ReadOrders
    BY <1>2, EndsStay DEF ReadOrders, ContextAccounted, files, history, Held, TypeOK
  <1>3. CASE EndAdopt
    BY <1>3, EndsStay DEF EndAdopt, Matches, ContextAccounted, files, history, Held,
       TypeOK
  <1>4. CASE SaveState
    <2> SUFFICES ASSUME NEW o \in saved \ (pending \cup unread), o \notin unread'
                 PROVE  Held(o)' \/ Ended(o)'
      BY <1>4 DEF SaveState, ContextAccounted
    <2>1. UNCHANGED <<journaled, told>>
      BY <1>4 DEF SaveState
    <2>2. Held(o) \/ Ended(o)
      BY DEF ContextAccounted
    <2>3. CASE Ended(o)
      BY <2>1, <2>3 DEF Ended
    <2>4. ASSUME NEW p \in Orders, journaled[p] = o PROVE Held(o)'
      BY <2>1, <2>4 DEF Held
    <2>5. ASSUME NEW p \in Orders, tracked[p] = o PROVE Held(o)'
      <3>1. tracked[p] # Nothing /\ o \in Orders
        BY <2>5 DEF TypeOK, Orders, Nothing
      <3>2. CASE UNCHANGED tracked
        BY <2>5, <3>2 DEF Held
      <3>3. CASE /\ tracked' = state
                 /\ unread' = unread \cup ({tracked[u] : u \in lost} \cap Orders)
        <4>1. p \notin lost
          BY <2>5, <3>1, <3>3
        <4>2. state[p] = tracked[p]
          BY <1>4, <3>1, <4>1 DEF SaveState, PassAgrees
        <4> QED BY <2>5, <3>3, <4>2 DEF Held
      <3> QED BY <1>4, <3>2, <3>3 DEF SaveState
    <2> QED BY <2>2, <2>3, <2>4, <2>5 DEF Held
  <1>5. CASE WritePending
    BY <1>5, EndsStay DEF WritePending, ContextAccounted, history, Held, TypeOK,
       KnownOrders, GivenOnce, PassAgrees, Orders, Nothing, Bare, Contexts, broker
  <1>6. CASE Manage
    <2>1. PICK entries \in SUBSET Entries : ManageWithout(entries)
      BY <1>6 DEF Manage
    <2>2. PICK found \in SUBSET (Closed \ entries) :
             /\ tracked' = [p \in Orders |->
                    IF p \in found THEN Nothing
                    ELSE IF position[p] = "open" /\ Without(entries)[p] = Nothing THEN Bare
                    ELSE Without(entries)[p]]
             /\ journaled' = [p \in Orders |->
                    IF p \in found /\ journaled[p] = Nothing THEN tracked[p] ELSE journaled[p]]
      BY <2>1 DEF ManageWithout
    <2>3. /\ UNCHANGED <<saved, pending, told>>
          /\ unread' = unread \cup ({tracked[p] : p \in entries} \cap Orders)
      BY <2>1 DEF ManageWithout
    <2> SUFFICES ASSUME NEW o \in saved \ (pending \cup unread), o \notin unread'
                 PROVE  Held(o)' \/ Ended(o)'
      BY <2>3 DEF ContextAccounted
    <2>4. Held(o) \/ Ended(o)
      BY DEF ContextAccounted
    <2>5. o \in Orders /\ o # Nothing
      BY DEF TypeOK, Orders, Nothing
    <2>6. CASE Ended(o)
      BY <2>3, <2>6 DEF Ended
    <2>7. ASSUME NEW p \in Orders, journaled[p] = o PROVE Held(o)'
      <3>1. journaled'[p] = o
        BY <2>2, <2>5, <2>7
      <3> QED BY <3>1 DEF Held
    <2>8. ASSUME NEW p \in Orders, tracked[p] = o PROVE Held(o)' \/ Ended(o)'
      <3>1. p \notin entries
        BY <2>3, <2>5, <2>8
      <3>2. CASE p \in found /\ journaled[p] = Nothing
        <4>1. journaled'[p] = o
          BY <2>2, <2>8, <3>2
        <4> QED BY <4>1 DEF Held
      <3>3. CASE p \in found /\ journaled[p] # Nothing
        BY <2>3, <2>5, <2>8, <3>3 DEF GivenOnce, Ended
      <3>4. CASE p \notin found
        <4>1. tracked'[p] = o
          BY <2>2, <2>5, <2>8, <3>1, <3>4 DEF Without
        <4> QED BY <4>1 DEF Held
      <3> QED BY <3>2, <3>3, <3>4
    <2> QED BY <2>4, <2>6, <2>7, <2>8 DEF Held
  <1>7. CASE SavePending
    BY <1>7, EndsStay DEF SavePending, ContextAccounted, Held, TypeOK
  <1>8. CASE EndTurn
    BY <1>8, EndsStay DEF EndTurn, Forget, ContextAccounted, files, history, Held,
       TypeOK
  <1>9. CASE Crash
    BY <1>9, EndsStay DEF Crash, Forget, ContextAccounted, files, history, Held, TypeOK
  <1>10. ASSUME NEW o \in Orders, Adopt(o) PROVE ContextAccounted'
    BY <1>10, EndsStay, ToldIsEnded DEF Adopt, Matches, ContextAccounted, history, Held,
       TypeOK
  <1>11. ASSUME NEW o \in Orders, Recover(o) PROVE ContextAccounted'
    BY <1>11, EndsStay, ToldIsEnded DEF Recover, Settled, ContextAccounted, history,
       Held, TypeOK
  <1>12. ASSUME NEW o \in Orders, Purge(o) PROVE ContextAccounted'
    BY <1>12, EndsStay, PurgeEnds DEF Purge, Settled, Issue, ContextAccounted, history,
       Held, TypeOK
  <1>13. ASSUME NEW o \in Orders, Wait(o) PROVE ContextAccounted'
    BY <1>13, EndsStay DEF Wait, Settled, ContextAccounted, history, Held, TypeOK
  <1>14. ASSUME NEW o \in Orders, Fill(o) PROVE ContextAccounted'
    BY <1>14, EndsStay DEF Fill, ContextAccounted, files, history, Held, TypeOK
  <1>15. ASSUME NEW o \in Orders, NEW how \in {"canceled", "expired"}, Drop(o, how)
         PROVE  ContextAccounted'
    BY <1>15, EndsStay DEF Drop, ContextAccounted, files, history, Held, TypeOK
  <1>16. ASSUME NEW o \in Orders, Close(o) PROVE ContextAccounted'
    BY <1>16, EndsStay DEF Close, ContextAccounted, files, history, Held, TypeOK
  <1>17. ASSUME NEW o \in Orders, Show(o) PROVE ContextAccounted'
    BY <1>17, EndsStay DEF Show, Over, ContextAccounted, files, history, Held, TypeOK
  <1>18. ASSUME NEW o \in Orders, Place(o) PROVE ContextAccounted'
    BY <1>18, EndsStay DEF Place, ContextAccounted, files, history, Held, TypeOK
  <1>19. ASSUME NEW o \in Orders, Lapse(o) PROVE ContextAccounted'
    BY <1>19, EndsStay DEF Lapse, Over, ContextAccounted, files, history, Held, TypeOK
  <1> QED BY <1>1, <1>2, <1>3, <1>4, <1>5, <1>6, <1>7, <1>8, <1>9, <1>10, <1>11, <1>12,
     <1>13, <1>14, <1>15, <1>16, <1>17, <1>18, <1>19 DEF Next, Pass, Broker

\* What the lifecycle journal tells of one order.
Truth(o) ==
  /\ \A end \in {"canceled", "expired"} : end \in told[o] => order[o] = end
  /\ "unknown" \in told[o] => Over(o)
  /\ "filled" \in told[o] => FillToTell(o)

\* An order that is over stays as it ended.
LEMMA OverStays ==
  ASSUME TypeOK, Next, NEW u \in Orders, Over(u)
  PROVE  order'[u] = order[u]
  BY DEF TypeOK, Next, Pass, Broker, Crash, ReadPositions, ReadOrders, EndAdopt,
     SaveState, WritePending, Manage, ManageWithout, SavePending, EndTurn, Adopt, Recover,
     Purge, Wait, Fill, Drop, Close, Show, Place, Lapse, broker, Settled, Over

\* A fill that can be told of an order still can later.
LEMMA FillStays ==
  ASSUME TypeOK, Next, NEW u \in Orders, FillToTell(u)
  PROVE  FillToTell(u)'
  <1>1. \A p \in Orders : position[p] # "none" => position'[p] # "none"
    BY DEF TypeOK, Next, Pass, Broker, Crash, ReadPositions, ReadOrders, EndAdopt,
       SaveState, WritePending, Manage, ManageWithout, SavePending, EndTurn, Adopt,
       Recover, Purge, Wait, Fill, Drop, Close, Show, Place, Lapse, broker, Settled
  <1>2. forgotten \subseteq forgotten'
    BY DEF TypeOK, Next, Pass, Broker, Crash, ReadPositions, ReadOrders, EndAdopt,
       SaveState, WritePending, Manage, ManageWithout, SavePending, EndTurn, Adopt,
       Recover, Purge, Wait, Fill, Drop, Close, Show, Place, Lapse, history, Settled
  <1> QED BY <1>1, <1>2 DEF FillToTell

\* So what is true of an order stays true while no end of it is told.
LEMMA TruthStays ==
  ASSUME TypeOK, Next, NEW u \in Orders, Truth(u), told'[u] \subseteq told[u] \cup {"placed"}
  PROVE  Truth(u)'
  <1>1. ASSUME NEW end \in {"canceled", "expired"}, end \in told'[u] PROVE order'[u] = end
    BY <1>1, OverStays DEF Truth, Over
  <1>2. "unknown" \in told'[u] => Over(u)'
    BY OverStays DEF Truth, Over
  <1>3. "filled" \in told'[u] => FillToTell(u)'
    BY FillStays DEF Truth
  <1> QED BY <1>1, <1>2, <1>3 DEF Truth

\* Adopt, Recover and Purge are the steps that tell an end, each of one order.
LEMMA OnlyThreeTell ==
  ASSUME TypeOK, Next
  PROVE  \/ \A u \in Orders : told'[u] \subseteq told[u] \cup {"placed"}
         \/ \E o \in Orders : Adopt(o) \/ Recover(o) \/ Purge(o)
  BY DEF TypeOK, Next, Pass, Broker, Crash, ReadPositions, ReadOrders, EndAdopt,
     SaveState, WritePending, Manage, ManageWithout, SavePending, EndTurn, Wait, Fill,
     Drop, Close, Show, Place, Lapse, files, Settled, Tell, TellNot

\* No step tells an end that is not the broker's, or a fill of another symbol or side.
LEMMA TellsTruthKept ==
  ASSUME TypeOK, Fills, TrackedBeforeNext, KnownOrders, NotLive, PassAgrees,
     TellsTruth, Next
  PROVE  TellsTruth'
  <1>1. \A u \in Orders : Truth(u)
    BY DEF TellsTruth, Truth
  <1>2. SUFFICES ASSUME NEW u \in Orders PROVE Truth(u)'
    BY DEF TellsTruth, Truth
  <1>3. CASE told'[u] \subseteq told[u] \cup {"placed"}
    BY <1>1, <1>3, TruthStays
  <1>4. ASSUME NEW p \in Orders, Adopt(p) PROVE Truth(u)'
    <2>1. PICK o \in Matches(p) : Tell(o, "filled") \/ TellNot
      BY <1>4 DEF Adopt
    <2>2. o \in Orders /\ order[o] # "none" /\ Slot[p] = Slot[o]
      BY <1>4 DEF Matches, TypeOK, Adopt, PassAgrees, KnownOrders
    <2>3. position[p] # "none"
      BY <1>4 DEF Adopt, Fills
    <2>4. o <= p \/ p \in forgotten
      <3>1. CASE tracked[p] = Nothing
        BY <1>4, <2>2, <3>1 DEF Adopt, TrackedBeforeNext, Orders
      <3>2. CASE tracked[p] # Nothing
        BY <1>4, <3>2 DEF Adopt, PassAgrees
      <3> QED BY <3>1, <3>2
    <2>5. FillToTell(o)'
      <3>1. FillToTell(o)
        BY <2>2, <2>3, <2>4 DEF FillToTell
      <3> QED BY <2>2, <3>1, FillStays
    <2>6. CASE u = o
      <3>1. told'[u] \subseteq told[u] \cup {"filled"}
        BY <2>1, <2>2, <2>6 DEF TypeOK, Tell, TellNot
      <3>2. order'[u] = order[u]
        BY <1>4 DEF Adopt, broker
      <3> QED BY <1>1, <2>5, <2>6, <3>1, <3>2 DEF Truth, Over
    <2>7. CASE u # o
      <3>1. told'[u] = told[u]
        BY <2>1, <2>2, <2>7 DEF TypeOK, Tell, TellNot
      <3> QED BY <1>1, <3>1, TruthStays
    <2> QED BY <2>6, <2>7
  <1>5. ASSUME NEW o \in Orders, Recover(o) PROVE Truth(u)'
    <2>1. order[o] = "filled"
      BY <1>5 DEF Recover
    <2>2. CASE u = o
      <3>1. told'[u] \subseteq told[u] \cup {"filled"}
        BY <1>5, <2>2 DEF TypeOK, Recover, Tell, TellNot
      <3>2. UNCHANGED <<order, position, forgotten>>
        BY <1>5 DEF Recover, Settled, broker, history
      <3>3. FillToTell(o)'
        BY <2>1, <3>2 DEF FillToTell, Fills, Orders
      <3> QED BY <1>1, <2>2, <3>1, <3>2, <3>3 DEF Truth, Over
    <2>3. CASE u # o
      <3>1. told'[u] = told[u]
        BY <1>5, <2>3 DEF TypeOK, Recover, Tell, TellNot
      <3> QED BY <1>1, <3>1, TruthStays
    <2> QED BY <2>2, <2>3
  <1>6. ASSUME NEW o \in Orders, Purge(o) PROVE Truth(u)'
    <2>1. Over(o)
      BY <1>6 DEF Purge, Settled, NotLive, KnownOrders, PassAgrees, TypeOK, Over
    <2>2. UNCHANGED <<order, position, forgotten>>
      BY <1>6 DEF Purge, Settled, broker, history
    <2>3. CASE u = o
      <3>1. told'[u] \subseteq told[u] \cup {Issue(o), "unknown"}
        BY <1>6, <2>3 DEF TypeOK, Purge, Tell, TellNot
      <3>2. \/ Issue(o) = "unknown"
            \/ Issue(o) \in {"canceled", "expired"} /\ Issue(o) = order[o]
        BY DEF Issue
      <3>3. ASSUME NEW end \in {"canceled", "expired"}, end \in told'[u] PROVE order'[u] = end
        BY <1>1, <2>2, <2>3, <3>1, <3>2, <3>3 DEF Truth
      <3>4. Over(u)'
        BY <2>1, <2>2, <2>3 DEF Over
      <3>5. "filled" \in told'[u] => FillToTell(u)'
        BY <1>1, <2>2, <3>1, <3>2, FillStays DEF Truth
      <3> QED BY <3>3, <3>4, <3>5 DEF Truth
    <2>4. CASE u # o
      <3>1. told'[u] = told[u]
        BY <1>6, <2>4 DEF TypeOK, Purge, Tell, TellNot
      <3> QED BY <1>1, <3>1, TruthStays
    <2> QED BY <2>3, <2>4
  <1> QED BY <1>3, <1>4, <1>5, <1>6, OnlyThreeTell

\* No turn has begun: nothing is pending, tracked or told.
LEMMA InitIsSafe == Init => IInv
  <1> SUFFICES ASSUME Init PROVE IInv
    OBVIOUS
  <1>1. TypeOK
    <2>1. /\ tracked \in [Orders -> Contexts] /\ state \in [Orders -> Contexts]
          /\ journaled \in [Orders -> Contexts]
      BY DEF Init, Contexts
    <2>2. mishaps \in 0..MaxMishaps
      BY PendingAssumption DEF Init
    <2>3. told \in [Orders -> SUBSET (Ends \cup {"placed"})]
      BY DEF Init
    <2> QED BY <2>1, <2>2, <2>3 DEF Init, TypeOK
  <1>2. OneWaits /\ Fills /\ TrackedBeforeNext
    BY DEF Init, OneWaits, Fills, TrackedBeforeNext, Nothing, Over
  <1>3. KnownOrders /\ NotLive /\ GivenOnce /\ PassAgrees
    BY DEF Init, KnownOrders, NotLive, GivenOnce, PassAgrees, Nothing
  <1>4. ContextAccounted /\ TellsTruth
    BY DEF Init, ContextAccounted, TellsTruth
  <1> QED BY <1>1, <1>2, <1>3, <1>4 DEF IInv

\* Every step of the turn, the broker and the clock keeps the invariant.
LEMMA StepIsSafe == IInv /\ [Next]_vars => IInv'
  <1> SUFFICES ASSUME IInv, [Next]_vars PROVE IInv'
    OBVIOUS
  <1>1. CASE Next
    BY <1>1, TypesKept, OneWaitsKept, FillsKept, TrackedBeforeNextKept, KnownOrdersKept,
       NotLiveKept, GivenOnceKept, PassAgreesKept, ContextAccountedKept, TellsTruthKept
       DEF IInv
  <1>2. CASE UNCHANGED vars
    BY <1>2 DEF IInv, TypeOK, OneWaits, Fills, TrackedBeforeNext, KnownOrders, NotLive,
       GivenOnce, PassAgrees, ContextAccounted, TellsTruth, FillToTell, Over, Ended, Held, vars,
       broker, files, turn, history
  <1> QED BY <1>1, <1>2

\* The invariant IInv holds of reconcile_pending_contexts in every state, whatever the broker
\* does between two reads, whatever part of positions.json does not load, and wherever the
\* process dies: what a pass holds agrees with the files but for the entries it knows lost.
THEOREM PendingInvariance == Spec => []IInv
  <1>1. Init => IInv
    BY InitIsSafe
  <1>2. IInv /\ [Next]_vars => IInv'
    BY StepIsSafe
  <1> QED BY <1>1, <1>2, PTL DEF Spec

\* A context saved at the placing of a limit order (_memoriser_contexte_limit) is never
\* dropped: it waits in the file, has been handed to a position, or its order's end is told.
THEOREM NoContextIsDropped == Spec => []ContextAccounted
  <1>1. IInv => ContextAccounted
    BY DEF IInv
  <1> QED BY <1>1, PendingInvariance, PTL

\* A cancellation or an expiry that limit_lifecycle.ndjson tells (_order_issue) is the
\* broker's and an unknown end that of an order that is over; a fill it tells is one of the
\* order's symbol and side, its own or of a later order, and of an earlier one only if
\* load_state had lost that position's entry.
THEOREM LifecycleIsTrue == Spec => []TellsTruth
  <1>1. IInv => TellsTruth
    BY DEF IInv
  <1> QED BY <1>1, PendingInvariance, PTL

=============================================================================
