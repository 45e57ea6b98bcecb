-------------------------- MODULE ClosureJournalProofs --------------------------
(***************************************************************************)
(* Proofs about ClosureJournal: for any number of positions, any window    *)
(* and any number of mishaps, no closure is journaled twice, no saved      *)
(* context disappears, and a coverage line never takes the place of a      *)
(* trade that can be measured.                                             *)
(***************************************************************************)
EXTENDS ClosureJournal, TLAPS

\* What the operations on a tracked state return.
LEMMA TrackTypes ==
  /\ NoTrack \in Track /\ NoTrack.context = "none"
  /\ \A c \in {"none", "full", "bare"} : Fresh(c) \in Track /\ Fresh(c).context = c
  /\ Untracked \in [Positions -> Track]
  /\ \A t \in Track : /\ t.context \in {"none", "full", "bare"}
                      /\ Aged(t) \in Track /\ Aged(t).context = t.context
  <1>1. NoTrack \in Track /\ NoTrack.context = "none"
    BY ClosureAssumption DEF NoTrack, Track
  <1>2. \A c \in {"none", "full", "bare"} : Fresh(c) \in Track /\ Fresh(c).context = c
    BY ClosureAssumption DEF Fresh, Track
  <1>3. Untracked \in [Positions -> Track]
    BY <1>1 DEF Untracked
  <1>4. ASSUME NEW t \in Track
        PROVE  /\ t.context \in {"none", "full", "bare"}
               /\ Aged(t) \in Track /\ Aged(t).context = t.context
    BY ClosureAssumption DEF Aged, Track
  <1> QED BY <1>1, <1>2, <1>3, <1>4

\* A measurable context was saved at an entry.
LEMMA FullIsObservedKept ==
  ASSUME TypeOK, FullIsObserved, [Next]_vars
  PROVE  FullIsObserved'
  <1>1. ASSUME NEW p \in Positions, Enter(p) PROVE FullIsObserved'
    BY <1>1 DEF Enter, Mishap, Smooth, Unreadable, Fresh, Untracked, NoTrack, pass,
       FullIsObserved, TypeOK
  <1>2. CASE EndTurn
    BY <1>2 DEF EndTurn, broker, files, copies, FullIsObserved, TypeOK
  <1>3. CASE BeginPass
    BY <1>3, TrackTypes DEF BeginPass, Unreadable, Mishap, Smooth, Opens, Tracked, Fresh,
       Untracked, NoTrack, broker, files, copies, FullIsObserved, TypeOK
  <1>4. ASSUME NEW p \in Positions, KeepMissing(p) PROVE FullIsObserved'
    BY <1>4 DEF KeepMissing, Judged, Smooth, Mishap, broker, copies, FullIsObserved, TypeOK
  <1>5. ASSUME NEW p \in Positions, QuarantineMissing(p) PROVE FullIsObserved'
    BY <1>5 DEF QuarantineMissing, Judged, Quarantine, Pop, NoTrack, Smooth, Mishap, broker,
       copies, FullIsObserved, TypeOK
  <1>6. ASSUME NEW p \in Positions, RejectClosure(p) PROVE FullIsObserved'
    BY <1>6 DEF RejectClosure, Judged, Quarantine, Pop, Keep, NoTrack, Smooth, Mishap,
       broker, copies, FullIsObserved, TypeOK
  <1>7. ASSUME NEW p \in Positions, SkipJournaled(p) PROVE FullIsObserved'
    BY <1>7 DEF SkipJournaled, Judged, Pop, NoTrack, Smooth, broker, copies, FullIsObserved,
       TypeOK
  <1>8. ASSUME NEW p \in Positions, RecordClosure(p) PROVE FullIsObserved'
    BY <1>8 DEF RecordClosure, Record, Smooth, broker, copies, FullIsObserved, TypeOK
  <1>9. ASSUME NEW p \in Positions, FailClosure(p) PROVE FullIsObserved'
    BY <1>9 DEF FailClosure, Judged, Keep, Mishap, broker, copies, FullIsObserved, TypeOK
  <1>10. CASE DetailClosure
    BY <1>10 DEF DetailClosure, Detail, NoDetail, Pop, NoTrack, Smooth, Mishap, broker,
       copies, None, FullIsObserved, TypeOK
  <1>11. CASE EndPurge
    BY <1>11 DEF EndPurge, Smooth, Mishap, broker, copies, FullIsObserved, TypeOK
  <1>12. ASSUME NEW p \in Positions, ResolveJournaled(p) PROVE FullIsObserved'
    BY <1>12 DEF ResolveJournaled, Candidate, Resolve, Smooth, Mishap, broker, copies,
       FullIsObserved, TypeOK
  <1>13. ASSUME NEW p \in Positions, ResolveRecord(p) PROVE FullIsObserved'
    BY <1>13 DEF ResolveRecord, Candidate, Record, Smooth, broker, copies, FullIsObserved,
       TypeOK
  <1>14. CASE ResolveDetail
    BY <1>14 DEF ResolveDetail, Detail, NoDetail, Smooth, Mishap, broker, copies, None,
       FullIsObserved, TypeOK
  <1>15. CASE EndPass
    BY <1>15 DEF EndPass, Cover, Unknown, Untracked, NoTrack, Smooth, Mishap, broker,
       copies, FullIsObserved, TypeOK
  <1>16. CASE Crash
    BY <1>16 DEF Crash, Mishap, Untracked, NoTrack, broker, files, copies, FullIsObserved,
       TypeOK
  <1>17. ASSUME NEW p \in Positions, ExitPartly(p) PROVE FullIsObserved'
    BY <1>17 DEF ExitPartly, files, pass, copies, FullIsObserved, TypeOK
  <1>18. ASSUME NEW p \in Positions, Close(p) PROVE FullIsObserved'
    BY <1>18 DEF Close, files, pass, copies, FullIsObserved, TypeOK
  <1>19. ASSUME NEW p \in Positions, Show(p) PROVE FullIsObserved'
    BY <1>19 DEF Show, files, pass, copies, FullIsObserved, TypeOK
  <1>20. CASE Tick
    BY <1>20, TrackTypes DEF Tick, Aged, broker, copies, FullIsObserved, TypeOK
  <1>21. CASE UNCHANGED vars
    BY <1>21 DEF FullIsObserved, vars, broker, files, pass, copies
  <1> QED BY <1>1, <1>2, <1>3, <1>4, <1>5, <1>6, <1>7, <1>8, <1>9, <1>10, <1>11, <1>12,
     <1>13, <1>14, <1>15, <1>16, <1>17, <1>18, <1>19, <1>20, <1>21 DEF Next, PassStep,
     BrokerStep

\* Every step keeps the types.
LEMMA TypeOKKept ==
  ASSUME InProgress, FullIsObserved, TypeOK, [Next]_vars
  PROVE  TypeOK'
  <1>1. ASSUME NEW p \in Positions, Enter(p) PROVE TypeOK'
    <2>1. file' \in [Positions -> Track]
      <3>1. PICK c \in {"full", "bare"} :
               \/ file' = file
               \/ file' = [file EXCEPT ![p] = Fresh(c)]
               \/ file' = [Untracked EXCEPT ![p] = Fresh(c)]
        BY <1>1 DEF Enter
      <3>2. Fresh(c) \in Track
        BY TrackTypes
      <3>3. file \in [Positions -> Track] /\ Untracked \in [Positions -> Track]
        BY TrackTypes DEF TypeOK
      <3> QED BY <3>1, <3>2, <3>3
    <2>2. observed' \subseteq Positions /\ copied' \cup unread' \subseteq observed'
      BY <1>1 DEF Enter, Unreadable, copies, TypeOK, FullIsObserved
    <2>3. life' \in [Positions -> {"none", "open", "closed"}]
      BY <1>1 DEF Enter, TypeOK
    <2>4. mishaps' \in 0..MaxMishaps
      BY <1>1, ClosureAssumption DEF Enter, Unreadable, Mishap, Smooth, TypeOK
    <2> QED BY <1>1, <2>1, <2>2, <2>3, <2>4 DEF Enter, pass, TypeOK
  <1>2. CASE EndTurn
    BY <1>2, ClosureAssumption DEF EndTurn, broker, files, copies, TypeOK, Track, Steps,
       Exits, Kinds, InProgress, FullIsObserved
  <1>3. CASE BeginPass
    <2>1. mem' \in [Positions -> Track]
      <3>1. PICK live \in SUBSET Opens, state \in {file, Untracked} :
               \E adopted \in SUBSET {p \in live : ~Tracked(state[p])} :
                  mem' = [p \in Positions |->
                            IF p \in adopted THEN Fresh("bare")
                            ELSE IF p \in live THEN Fresh(state[p].context)
                            ELSE state[p]]
        BY <1>3 DEF BeginPass
      <3>2. PICK adopted : mem' = [p \in Positions |->
                                     IF p \in adopted THEN Fresh("bare")
                                     ELSE IF p \in live THEN Fresh(state[p].context)
                                     ELSE state[p]]
        BY <3>1
      <3>3. \A p \in Positions : state[p] \in Track
        BY TrackTypes DEF TypeOK
      <3>4. \A p \in Positions : state[p].context \in {"none", "full", "bare"}
        BY <3>3, TrackTypes
      <3>5. Fresh("bare") \in Track /\ \A p \in Positions : Fresh(state[p].context) \in Track
        BY <3>4, TrackTypes
      <3> QED BY <3>2, <3>3, <3>5
    <2>2. copied' \cup unread' \subseteq observed
      BY <1>3 DEF BeginPass, Unreadable, copies, TypeOK, FullIsObserved
    <2>3. seen' \subseteq Positions /\ todo' \subseteq Positions
      BY <1>3 DEF BeginPass, Opens
    <2>4. mishaps' \in 0..MaxMishaps
      BY <1>3, ClosureAssumption DEF BeginPass, Unreadable, Mishap, Smooth, TypeOK
    <2>5. pc' \in Steps /\ gap' \in BOOLEAN
      BY <1>3 DEF BeginPass, Steps
    <2> QED BY <1>3, <2>1, <2>2, <2>3, <2>4, <2>5 DEF BeginPass, broker, files, TypeOK
  <1>4. ASSUME NEW p \in Positions, KeepMissing(p) PROVE TypeOK'
    BY <1>4, ClosureAssumption DEF KeepMissing, Judged, Smooth, Mishap, broker, copies,
       TypeOK, Track, Steps, Exits, Kinds, InProgress, FullIsObserved
  <1>5. ASSUME NEW p \in Positions, QuarantineMissing(p) PROVE TypeOK'
    BY <1>5, ClosureAssumption DEF QuarantineMissing, Judged, Quarantine, Pop, NoTrack,
       Smooth, Mishap, broker, copies, TypeOK, Track, Steps, Exits, Kinds, InProgress,
       FullIsObserved
  <1>6. ASSUME NEW p \in Positions, RejectClosure(p) PROVE TypeOK'
    <2>1. rejects' \in [Positions -> SUBSET Kinds]
      BY <1>6 DEF RejectClosure, Quarantine, Kinds, TypeOK
    <2>2. mem' \in [Positions -> Track] /\ gap' \in BOOLEAN
      BY <1>6, TrackTypes DEF RejectClosure, Pop, Keep, TypeOK
    <2>3. mishaps' \in 0..MaxMishaps
      BY <1>6, ClosureAssumption DEF RejectClosure, Mishap, Smooth, TypeOK
    <2> QED BY <1>6, <2>1, <2>2, <2>3 DEF RejectClosure, Judged, broker, copies, TypeOK
  <1>7. ASSUME NEW p \in Positions, SkipJournaled(p) PROVE TypeOK'
    BY <1>7, ClosureAssumption DEF SkipJournaled, Judged, Pop, NoTrack, Smooth, broker,
       copies, TypeOK, Track, Steps, Exits, Kinds, InProgress, FullIsObserved
  <1>8. ASSUME NEW p \in Positions, RecordClosure(p) PROVE TypeOK'
    BY <1>8, ClosureAssumption DEF RecordClosure, Record, Smooth, broker, copies, TypeOK,
       Track, Steps, Exits, Kinds, InProgress, FullIsObserved
  <1>9. ASSUME NEW p \in Positions, FailClosure(p) PROVE TypeOK'
    BY <1>9, ClosureAssumption DEF FailClosure, Judged, Keep, Mishap, broker, copies,
       TypeOK, Track, Steps, Exits, Kinds, InProgress, FullIsObserved
  <1>10. CASE DetailClosure
    BY <1>10, ClosureAssumption DEF DetailClosure, Detail, NoDetail, Pop, NoTrack, Smooth,
       Mishap, broker, copies, None, TypeOK, Track, Steps, Exits, Kinds, InProgress,
       FullIsObserved
  <1>11. CASE EndPurge
    BY <1>11, ClosureAssumption DEF EndPurge, Smooth, Mishap, broker, copies, TypeOK, Track,
       Steps, Exits, Kinds, InProgress, FullIsObserved
  <1>12. ASSUME NEW p \in Positions, ResolveJournaled(p) PROVE TypeOK'
    <2>1. rejects' \in [Positions -> SUBSET Kinds]
      BY <1>12 DEF ResolveJournaled, Resolve, Kinds, TypeOK
    <2>2. mishaps' \in 0..MaxMishaps
      BY <1>12, ClosureAssumption DEF ResolveJournaled, Resolve, Mishap, Smooth, TypeOK
    <2> QED BY <1>12, <2>1, <2>2 DEF ResolveJournaled, broker, copies, TypeOK
  <1>13. ASSUME NEW p \in Positions, ResolveRecord(p) PROVE TypeOK'
    BY <1>13, ClosureAssumption DEF ResolveRecord, Candidate, Record, Smooth, broker,
       copies, TypeOK, Track, Steps, Exits, Kinds, InProgress, FullIsObserved
  <1>14. CASE ResolveDetail
    BY <1>14, ClosureAssumption DEF ResolveDetail, Detail, NoDetail, Smooth, Mishap, broker,
       copies, None, TypeOK, Track, Steps, Exits, Kinds, InProgress, FullIsObserved
  <1>15. CASE EndPass
    <2>1. rejects' \in [Positions -> SUBSET Kinds]
      BY <1>15 DEF EndPass, Cover, Kinds, TypeOK
    <2>2. mishaps' \in 0..MaxMishaps
      BY <1>15, ClosureAssumption DEF EndPass, Mishap, Smooth, TypeOK
    <2>3. /\ pc' \in Steps /\ gap' \in BOOLEAN
          /\ seen' \subseteq Positions /\ todo' \subseteq Positions
      BY <1>15 DEF EndPass, Steps
    <2> QED BY <1>15, <2>1, <2>2, <2>3, TrackTypes DEF EndPass, broker, copies, TypeOK
  <1>16. CASE Crash
    <2>1. mishaps' \in 0..MaxMishaps
      BY <1>16, ClosureAssumption DEF Crash, Mishap, TypeOK
    <2>2. /\ pc' \in Steps /\ gap' \in BOOLEAN /\ cur' \in Positions \cup {None}
          /\ seen' \subseteq Positions /\ todo' \subseteq Positions
      BY <1>16 DEF Crash, Steps
    <2> QED BY <1>16, <2>1, <2>2, TrackTypes DEF Crash, broker, files, copies, TypeOK
  <1>17. ASSUME NEW p \in Positions, ExitPartly(p) PROVE TypeOK'
    BY <1>17, ClosureAssumption DEF ExitPartly, files, pass, copies, TypeOK, Track, Steps,
       Exits, Kinds, InProgress, FullIsObserved
  <1>18. ASSUME NEW p \in Positions, Close(p) PROVE TypeOK'
    BY <1>18, ClosureAssumption DEF Close, files, pass, copies, TypeOK, Track, Steps, Exits,
       Kinds, InProgress, FullIsObserved
  <1>19. ASSUME NEW p \in Positions, Show(p) PROVE TypeOK'
    BY <1>19, ClosureAssumption DEF Show, files, pass, copies, TypeOK, Track, Steps, Exits,
       Kinds, InProgress, FullIsObserved
  <1>20. CASE Tick
    <2>1. file' \in [Positions -> Track] /\ mem' \in [Positions -> Track]
      BY <1>20, TrackTypes DEF Tick, TypeOK
    <2> QED BY <1>20, <2>1 DEF Tick, broker, copies, TypeOK
  <1>21. CASE UNCHANGED vars
    BY <1>21 DEF TypeOK, Track, Steps, Exits, Kinds, vars, broker, files, pass, copies
  <1> QED BY <1>1, <1>2, <1>3, <1>4, <1>5, <1>6, <1>7, <1>8, <1>9, <1>10, <1>11, <1>12,
     <1>13, <1>14, <1>15, <1>16, <1>17, <1>18, <1>19, <1>20, <1>21 DEF Next, PassStep,
     BrokerStep

\* A line is appended only for a ticket without one.
LEMMA OneLinePerTradeKept ==
  ASSUME TypeOK, OneLinePerTrade, [Next]_vars
  PROVE  OneLinePerTrade'
  <1>1. ASSUME NEW p \in Positions, Enter(p) PROVE OneLinePerTrade'
    BY <1>1 DEF Enter, Mishap, Smooth, Unreadable, Fresh, Untracked, NoTrack, pass,
       OneLinePerTrade, TypeOK
  <1>2. CASE EndTurn
    BY <1>2 DEF EndTurn, broker, files, copies, OneLinePerTrade, TypeOK
  <1>3. CASE BeginPass
    BY <1>3 DEF BeginPass, Unreadable, Mishap, Smooth, Opens, Tracked, Fresh, Untracked,
       NoTrack, broker, files, copies, OneLinePerTrade, TypeOK
  <1>4. ASSUME NEW p \in Positions, KeepMissing(p) PROVE OneLinePerTrade'
    BY <1>4 DEF KeepMissing, Judged, Smooth, Mishap, broker, copies, OneLinePerTrade, TypeOK
  <1>5. ASSUME NEW p \in Positions, QuarantineMissing(p) PROVE OneLinePerTrade'
    BY <1>5 DEF QuarantineMissing, Judged, Quarantine, Pop, NoTrack, Smooth, Mishap, broker,
       copies, OneLinePerTrade, TypeOK
  <1>6. ASSUME NEW p \in Positions, RejectClosure(p) PROVE OneLinePerTrade'
    BY <1>6 DEF RejectClosure, Judged, Quarantine, Pop, Keep, NoTrack, Smooth, Mishap,
       broker, copies, OneLinePerTrade, TypeOK
  <1>7. ASSUME NEW p \in Positions, SkipJournaled(p) PROVE OneLinePerTrade'
    BY <1>7 DEF SkipJournaled, Judged, Pop, NoTrack, Smooth, broker, copies,
       OneLinePerTrade, TypeOK
  <1>8. ASSUME NEW p \in Positions, RecordClosure(p) PROVE OneLinePerTrade'
    BY <1>8 DEF RecordClosure, Record, Smooth, broker, copies, OneLinePerTrade, TypeOK
  <1>9. ASSUME NEW p \in Positions, FailClosure(p) PROVE OneLinePerTrade'
    BY <1>9 DEF FailClosure, Judged, Keep, Mishap, broker, copies, OneLinePerTrade, TypeOK
  <1>10. CASE DetailClosure
    BY <1>10 DEF DetailClosure, Detail, NoDetail, Pop, NoTrack, Smooth, Mishap, broker,
       copies, None, OneLinePerTrade, TypeOK
  <1>11. CASE EndPurge
    BY <1>11 DEF EndPurge, Smooth, Mishap, broker, copies, OneLinePerTrade, TypeOK
  <1>12. ASSUME NEW p \in Positions, ResolveJournaled(p) PROVE OneLinePerTrade'
    BY <1>12 DEF ResolveJournaled, Candidate, Resolve, Smooth, Mishap, broker, copies,
       OneLinePerTrade, TypeOK
  <1>13. ASSUME NEW p \in Positions, ResolveRecord(p) PROVE OneLinePerTrade'
    BY <1>13 DEF ResolveRecord, Candidate, Record, Smooth, broker, copies, OneLinePerTrade,
       TypeOK
  <1>14. CASE ResolveDetail
    BY <1>14 DEF ResolveDetail, Detail, NoDetail, Smooth, Mishap, broker, copies, None,
       OneLinePerTrade, TypeOK
  <1>15. CASE EndPass
    BY <1>15 DEF EndPass, Cover, Unknown, Untracked, NoTrack, Smooth, Mishap, broker,
       copies, OneLinePerTrade, TypeOK
  <1>16. CASE Crash
    BY <1>16 DEF Crash, Mishap, Untracked, NoTrack, broker, files, copies, OneLinePerTrade,
       TypeOK
  <1>17. ASSUME NEW p \in Positions, ExitPartly(p) PROVE OneLinePerTrade'
    BY <1>17 DEF ExitPartly, files, pass, copies, OneLinePerTrade, TypeOK
  <1>18. ASSUME NEW p \in Positions, Close(p) PROVE OneLinePerTrade'
    BY <1>18 DEF Close, files, pass, copies, OneLinePerTrade, TypeOK
  <1>19. ASSUME NEW p \in Positions, Show(p) PROVE OneLinePerTrade'
    BY <1>19 DEF Show, files, pass, copies, OneLinePerTrade, TypeOK
  <1>20. CASE Tick
    BY <1>20 DEF Tick, Aged, broker, copies, OneLinePerTrade, TypeOK
  <1>21. CASE UNCHANGED vars
    BY <1>21 DEF OneLinePerTrade, vars, broker, files, pass, copies
  <1> QED BY <1>1, <1>2, <1>3, <1>4, <1>5, <1>6, <1>7, <1>8, <1>9, <1>10, <1>11, <1>12,
     <1>13, <1>14, <1>15, <1>16, <1>17, <1>18, <1>19, <1>20, <1>21 DEF Next, PassStep,
     BrokerStep

\* Nothing is known of a position before its entry.
LEMMA UnbornKept ==
  ASSUME TypeOK, InProgress, Unborn, [Next]_vars
  PROVE  Unborn'
  <1>1. ASSUME NEW p \in Positions, Enter(p) PROVE Unborn'
    BY <1>1 DEF Enter, Mishap, Smooth, Unreadable, Fresh, Untracked, NoTrack, pass, Unborn,
       Tracked, TypeOK, InProgress
  <1>2. CASE EndTurn
    BY <1>2 DEF EndTurn, broker, files, copies, Unborn, Tracked, TypeOK, InProgress
  <1>3. CASE BeginPass
    BY <1>3 DEF BeginPass, Unreadable, Mishap, Smooth, Opens, Tracked, Fresh, Untracked,
       NoTrack, broker, files, copies, Unborn, TypeOK, InProgress
  <1>4. ASSUME NEW p \in Positions, KeepMissing(p) PROVE Unborn'
    BY <1>4 DEF KeepMissing, Judged, Smooth, Mishap, broker, copies, Unborn, Tracked,
       TypeOK, InProgress
  <1>5. ASSUME NEW p \in Positions, QuarantineMissing(p) PROVE Unborn'
    BY <1>5 DEF QuarantineMissing, Judged, Quarantine, Pop, NoTrack, Smooth, Mishap, broker,
       copies, Unborn, Tracked, TypeOK, InProgress
  <1>6. ASSUME NEW p \in Positions, RejectClosure(p) PROVE Unborn'
    BY <1>6 DEF RejectClosure, Judged, Quarantine, Pop, Keep, NoTrack, Smooth, Mishap,
       broker, copies, Unborn, Tracked, TypeOK, InProgress
  <1>7. ASSUME NEW p \in Positions, SkipJournaled(p) PROVE Unborn'
    BY <1>7 DEF SkipJournaled, Judged, Pop, NoTrack, Smooth, broker, copies, Unborn,
       Tracked, TypeOK, InProgress
  <1>8. ASSUME NEW p \in Positions, RecordClosure(p) PROVE Unborn'
    BY <1>8 DEF RecordClosure, Record, Smooth, broker, copies, Unborn, Tracked, TypeOK,
       InProgress
  <1>9. ASSUME NEW p \in Positions, FailClosure(p) PROVE Unborn'
    BY <1>9 DEF FailClosure, Judged, Keep, Mishap, broker, copies, Unborn, Tracked, TypeOK,
       InProgress
  <1>10. CASE DetailClosure
    BY <1>10 DEF DetailClosure, Detail, NoDetail, Pop, NoTrack, Smooth, Mishap, broker,
       copies, None, Unborn, Tracked, TypeOK, InProgress
  <1>11. CASE EndPurge
    BY <1>11 DEF EndPurge, Smooth, Mishap, broker, copies, Unborn, Tracked, TypeOK,
       InProgress
  <1>12. ASSUME NEW p \in Positions, ResolveJournaled(p) PROVE Unborn'
    BY <1>12 DEF ResolveJournaled, Candidate, Resolve, Smooth, Mishap, broker, copies,
       Unborn, Tracked, TypeOK, InProgress
  <1>13. ASSUME NEW p \in Positions, ResolveRecord(p) PROVE Unborn'
    BY <1>13 DEF ResolveRecord, Candidate, Record, Smooth, broker, copies, Unborn, Tracked,
       TypeOK, InProgress
  <1>14. CASE ResolveDetail
    <2>1. /\ UNCHANGED <<life, history, file, mem, trades, observed>> /\ todo' \subseteq todo
      BY <1>14 DEF ResolveDetail, broker
    <2>2. ASSUME NEW p \in Positions, life[p] = "none" PROVE rejects'[p] = {}
      <3>1. cur # p
        BY <1>14, <2>2 DEF ResolveDetail, InProgress, Unborn
      <3> QED BY <1>14, <2>2, <3>1 DEF ResolveDetail, Unborn, TypeOK
    <2> QED BY <2>1, <2>2 DEF Unborn, Tracked
  <1>15. CASE EndPass
    BY <1>15 DEF EndPass, Cover, Unknown, Untracked, NoTrack, Smooth, Mishap, broker,
       copies, Unborn, Tracked, TypeOK, InProgress
  <1>16. CASE Crash
    BY <1>16 DEF Crash, Mishap, Untracked, NoTrack, broker, files, copies, Unborn, Tracked,
       TypeOK, InProgress
  <1>17. ASSUME NEW p \in Positions, ExitPartly(p) PROVE Unborn'
    BY <1>17 DEF ExitPartly, files, pass, copies, Unborn, Tracked, TypeOK, InProgress
  <1>18. ASSUME NEW p \in Positions, Close(p) PROVE Unborn'
    BY <1>18 DEF Close, files, pass, copies, Unborn, Tracked, TypeOK, InProgress
  <1>19. ASSUME NEW p \in Positions, Show(p) PROVE Unborn'
    BY <1>19 DEF Show, files, pass, copies, Unborn, Tracked, TypeOK, InProgress
  <1>20. CASE Tick
    <2>1. \A p \in Positions : /\ Tracked(file'[p]) = Tracked(file[p])
                              /\ Tracked(mem'[p]) = Tracked(mem[p])
      BY <1>20, TrackTypes DEF Tick, Tracked, TypeOK
    <2> QED BY <1>20, <2>1 DEF Tick, Unborn, Tracked, broker
  <1>21. CASE UNCHANGED vars
    BY <1>21 DEF Unborn, Tracked, vars, broker, files, pass, copies
  <1> QED BY <1>1, <1>2, <1>3, <1>4, <1>5, <1>6, <1>7, <1>8, <1>9, <1>10, <1>11, <1>12,
     <1>13, <1>14, <1>15, <1>16, <1>17, <1>18, <1>19, <1>20, <1>21 DEF Next, PassStep,
     BrokerStep

\* Between a line and its detail the ticket has that line.
LEMMA InProgressKept ==
  ASSUME TypeOK, InProgress, [Next]_vars
  PROVE  InProgress'
  <1>1. ASSUME NEW p \in Positions, Enter(p) PROVE InProgress'
    BY <1>1 DEF Enter, Mishap, Smooth, Unreadable, Fresh, Untracked, NoTrack, pass,
       InProgress, TypeOK
  <1>2. CASE EndTurn
    BY <1>2 DEF EndTurn, broker, files, copies, InProgress, TypeOK
  <1>3. CASE BeginPass
    BY <1>3 DEF BeginPass, Unreadable, Mishap, Smooth, Opens, Tracked, Fresh, Untracked,
       NoTrack, broker, files, copies, InProgress, TypeOK
  <1>4. ASSUME NEW p \in Positions, KeepMissing(p) PROVE InProgress'
    BY <1>4 DEF KeepMissing, Judged, Smooth, Mishap, broker, copies, InProgress, TypeOK
  <1>5. ASSUME NEW p \in Positions, QuarantineMissing(p) PROVE InProgress'
    BY <1>5 DEF QuarantineMissing, Judged, Quarantine, Pop, NoTrack, Smooth, Mishap, broker,
       copies, InProgress, TypeOK
  <1>6. ASSUME NEW p \in Positions, RejectClosure(p) PROVE InProgress'
    BY <1>6 DEF RejectClosure, Judged, Quarantine, Pop, Keep, NoTrack, Smooth, Mishap,
       broker, copies, InProgress, TypeOK
  <1>7. ASSUME NEW p \in Positions, SkipJournaled(p) PROVE InProgress'
    BY <1>7 DEF SkipJournaled, Judged, Pop, NoTrack, Smooth, broker, copies, InProgress,
       TypeOK
  <1>8. ASSUME NEW p \in Positions, RecordClosure(p) PROVE InProgress'
    BY <1>8 DEF RecordClosure, Record, Smooth, broker, copies, InProgress, TypeOK
  <1>9. ASSUME NEW p \in Positions, FailClosure(p) PROVE InProgress'
    BY <1>9 DEF FailClosure, Judged, Keep, Mishap, broker, copies, InProgress, TypeOK
  <1>10. CASE DetailClosure
    BY <1>10 DEF DetailClosure, Detail, NoDetail, Pop, NoTrack, Smooth, Mishap, broker,
       copies, None, InProgress, TypeOK
  <1>11. CASE EndPurge
    BY <1>11 DEF EndPurge, Smooth, Mishap, broker, copies, InProgress, TypeOK
  <1>12. ASSUME NEW p \in Positions, ResolveJournaled(p) PROVE InProgress'
    BY <1>12 DEF ResolveJournaled, Candidate, Resolve, Smooth, Mishap, broker, copies,
       InProgress, TypeOK
  <1>13. ASSUME NEW p \in Positions, ResolveRecord(p) PROVE InProgress'
    BY <1>13 DEF ResolveRecord, Candidate, Record, Smooth, broker, copies, InProgress,
       TypeOK
  <1>14. CASE ResolveDetail
    BY <1>14 DEF ResolveDetail, Detail, NoDetail, Smooth, Mishap, broker, copies, None,
       InProgress, TypeOK
  <1>15. CASE EndPass
    BY <1>15 DEF EndPass, Cover, Unknown, Untracked, NoTrack, Smooth, Mishap, broker,
       copies, InProgress, TypeOK
  <1>16. CASE Crash
    BY <1>16 DEF Crash, Mishap, Untracked, NoTrack, broker, files, copies, InProgress,
       TypeOK
  <1>17. ASSUME NEW p \in Positions, ExitPartly(p) PROVE InProgress'
    BY <1>17 DEF ExitPartly, files, pass, copies, InProgress, TypeOK
  <1>18. ASSUME NEW p \in Positions, Close(p) PROVE InProgress'
    BY <1>18 DEF Close, files, pass, copies, InProgress, TypeOK
  <1>19. ASSUME NEW p \in Positions, Show(p) PROVE InProgress'
    BY <1>19 DEF Show, files, pass, copies, InProgress, TypeOK
  <1>20. CASE Tick
    BY <1>20 DEF Tick, Aged, broker, copies, InProgress, TypeOK
  <1>21. CASE UNCHANGED vars
    BY <1>21 DEF InProgress, vars, broker, files, pass, copies
  <1> QED BY <1>1, <1>2, <1>3, <1>4, <1>5, <1>6, <1>7, <1>8, <1>9, <1>10, <1>11, <1>12,
     <1>13, <1>14, <1>15, <1>16, <1>17, <1>18, <1>19, <1>20, <1>21 DEF Next, PassStep,
     BrokerStep

\* A pass pops a measurable context only with its line, or with a quarantine that carries it.
LEMMA PassKeepsKept ==
  ASSUME TypeOK, ContextNeverLost, Unspoilt, InProgress, PassKeeps, [Next]_vars
  PROVE  PassKeeps'
  <1>1. ASSUME NEW p \in Positions, Enter(p) PROVE PassKeeps'
    BY <1>1 DEF Enter, Mishap, Smooth, Unreadable, Fresh, Untracked, NoTrack, pass,
       PassKeeps, Tracked, TypeOK, ContextNeverLost, Unspoilt, InProgress
  <1>2. CASE EndTurn
    BY <1>2 DEF EndTurn, broker, files, copies, PassKeeps, Tracked, TypeOK,
       ContextNeverLost, Unspoilt, InProgress
  <1>3. CASE BeginPass
    BY <1>3 DEF BeginPass, Unreadable, Mishap, Smooth, Opens, Tracked, Fresh, Untracked,
       NoTrack, broker, files, copies, PassKeeps, TypeOK, ContextNeverLost, Unspoilt,
       InProgress
  <1>4. ASSUME NEW p \in Positions, KeepMissing(p) PROVE PassKeeps'
    BY <1>4 DEF KeepMissing, Judged, Smooth, Mishap, broker, copies, PassKeeps, Tracked,
       TypeOK, ContextNeverLost, Unspoilt, InProgress
  <1>5. ASSUME NEW p \in Positions, QuarantineMissing(p) PROVE PassKeeps'
    BY <1>5 DEF QuarantineMissing, Judged, Quarantine, Pop, NoTrack, Smooth, Mishap, broker,
       copies, PassKeeps, Tracked, TypeOK, ContextNeverLost, Unspoilt, InProgress
  <1>6. ASSUME NEW p \in Positions, RejectClosure(p) PROVE PassKeeps'
    BY <1>6 DEF RejectClosure, Judged, Quarantine, Pop, Keep, NoTrack, Smooth, Mishap,
       broker, copies, PassKeeps, Tracked, TypeOK, ContextNeverLost, Unspoilt, InProgress
  <1>7. ASSUME NEW p \in Positions, SkipJournaled(p) PROVE PassKeeps'
    BY <1>7 DEF SkipJournaled, Judged, Pop, NoTrack, Smooth, broker, copies, PassKeeps,
       Tracked, TypeOK, ContextNeverLost, Unspoilt, InProgress
  <1>8. ASSUME NEW p \in Positions, RecordClosure(p) PROVE PassKeeps'
    BY <1>8 DEF RecordClosure, Record, Smooth, broker, copies, PassKeeps, Tracked, TypeOK,
       ContextNeverLost, Unspoilt, InProgress
  <1>9. ASSUME NEW p \in Positions, FailClosure(p) PROVE PassKeeps'
    BY <1>9 DEF FailClosure, Judged, Keep, Mishap, broker, copies, PassKeeps, Tracked,
       TypeOK, ContextNeverLost, Unspoilt, InProgress
  <1>10. CASE DetailClosure
    BY <1>10 DEF DetailClosure, Detail, NoDetail, Pop, NoTrack, Smooth, Mishap, broker,
       copies, None, PassKeeps, Tracked, TypeOK, ContextNeverLost, Unspoilt, InProgress
  <1>11. CASE EndPurge
    BY <1>11 DEF EndPurge, Smooth, Mishap, broker, copies, PassKeeps, Tracked, TypeOK,
       ContextNeverLost, Unspoilt, InProgress
  <1>12. ASSUME NEW p \in Positions, ResolveJournaled(p) PROVE PassKeeps'
    BY <1>12 DEF ResolveJournaled, Candidate, Resolve, Smooth, Mishap, broker, copies,
       PassKeeps, Tracked, TypeOK, ContextNeverLost, Unspoilt, InProgress
  <1>13. ASSUME NEW p \in Positions, ResolveRecord(p) PROVE PassKeeps'
    BY <1>13 DEF ResolveRecord, Candidate, Record, Smooth, broker, copies, PassKeeps,
       Tracked, TypeOK, ContextNeverLost, Unspoilt, InProgress
  <1>14. CASE ResolveDetail
    BY <1>14 DEF ResolveDetail, Detail, NoDetail, Smooth, Mishap, broker, copies, None,
       PassKeeps, Tracked, TypeOK, ContextNeverLost, Unspoilt, InProgress
  <1>15. CASE EndPass
    BY <1>15 DEF EndPass, Cover, Unknown, Untracked, NoTrack, Smooth, Mishap, broker,
       copies, PassKeeps, Tracked, TypeOK, ContextNeverLost, Unspoilt, InProgress
  <1>16. CASE Crash
    BY <1>16 DEF Crash, Mishap, Untracked, NoTrack, broker, files, copies, PassKeeps,
       Tracked, TypeOK, ContextNeverLost, Unspoilt, InProgress
  <1>17. ASSUME NEW p \in Positions, ExitPartly(p) PROVE PassKeeps'
    BY <1>17 DEF ExitPartly, files, pass, copies, PassKeeps, Tracked, TypeOK,
       ContextNeverLost, Unspoilt, InProgress
  <1>18. ASSUME NEW p \in Positions, Close(p) PROVE PassKeeps'
    BY <1>18 DEF Close, files, pass, copies, PassKeeps, Tracked, TypeOK, ContextNeverLost,
       Unspoilt, InProgress
  <1>19. ASSUME NEW p \in Positions, Show(p) PROVE PassKeeps'
    BY <1>19 DEF Show, files, pass, copies, PassKeeps, Tracked, TypeOK, ContextNeverLost,
       Unspoilt, InProgress
  <1>20. CASE Tick
    BY <1>20 DEF Tick, Aged, broker, copies, PassKeeps, Tracked, TypeOK, ContextNeverLost,
       Unspoilt, InProgress
  <1>21. CASE UNCHANGED vars
    BY <1>21 DEF PassKeeps, Tracked, vars, broker, files, pass, copies
  <1> QED BY <1>1, <1>2, <1>3, <1>4, <1>5, <1>6, <1>7, <1>8, <1>9, <1>10, <1>11, <1>12,
     <1>13, <1>14, <1>15, <1>16, <1>17, <1>18, <1>19, <1>20, <1>21 DEF Next, PassStep,
     BrokerStep

\* No reject line is in the way of the quarantine of a saved context.
LEMMA UnspoiltKept ==
  ASSUME TypeOK, Unborn, PassKeeps, InProgress, Unspoilt, [Next]_vars
  PROVE  Unspoilt'
  <1>1. ASSUME NEW p \in Positions, Enter(p) PROVE Unspoilt'
    <2>1. life[p] = "none" /\ UNCHANGED <<trades, rejects>>
      BY <1>1 DEF Enter
    <2>2. /\ observed' \subseteq observed \cup {p}
          /\ copied \subseteq copied' /\ unread \subseteq unread'
      BY <1>1 DEF Enter, Unreadable, copies
    <2>3. rejects[p] = {}
      BY <2>1 DEF Unborn
    <2> QED BY <2>1, <2>2, <2>3 DEF Unspoilt
  <1>2. CASE EndTurn
    BY <1>2 DEF EndTurn, broker, files, copies, Unspoilt, Tracked, TypeOK, Unborn,
       PassKeeps, InProgress
  <1>3. CASE BeginPass
    BY <1>3 DEF BeginPass, Unreadable, Mishap, Smooth, Opens, Tracked, Fresh, Untracked,
       NoTrack, broker, files, copies, Unspoilt, TypeOK, Unborn, PassKeeps, InProgress
  <1>4. ASSUME NEW p \in Positions, KeepMissing(p) PROVE Unspoilt'
    BY <1>4 DEF KeepMissing, Judged, Smooth, Mishap, broker, copies, Unspoilt, Tracked,
       TypeOK, Unborn, PassKeeps, InProgress
  <1>5. ASSUME NEW p \in Positions, QuarantineMissing(p) PROVE Unspoilt'
    BY <1>5 DEF QuarantineMissing, Judged, Quarantine, Pop, NoTrack, Smooth, Mishap, broker,
       copies, Unspoilt, Tracked, TypeOK, Unborn, PassKeeps, InProgress
  <1>6. ASSUME NEW p \in Positions, RejectClosure(p) PROVE Unspoilt'
    BY <1>6 DEF RejectClosure, Judged, Quarantine, Pop, Keep, NoTrack, Smooth, Mishap,
       broker, copies, Unspoilt, Tracked, TypeOK, Unborn, PassKeeps, InProgress
  <1>7. ASSUME NEW p \in Positions, SkipJournaled(p) PROVE Unspoilt'
    BY <1>7 DEF SkipJournaled, Judged, Pop, NoTrack, Smooth, broker, copies, Unspoilt,
       Tracked, TypeOK, Unborn, PassKeeps, InProgress
  <1>8. ASSUME NEW p \in Positions, RecordClosure(p) PROVE Unspoilt'
    BY <1>8 DEF RecordClosure, Record, Smooth, broker, copies, Unspoilt, Tracked, TypeOK,
       Unborn, PassKeeps, InProgress
  <1>9. ASSUME NEW p \in Positions, FailClosure(p) PROVE Unspoilt'
    BY <1>9 DEF FailClosure, Judged, Keep, Mishap, broker, copies, Unspoilt, Tracked,
       TypeOK, Unborn, PassKeeps, InProgress
  <1>10. CASE DetailClosure
    BY <1>10 DEF DetailClosure, Detail, NoDetail, Pop, NoTrack, Smooth, Mishap, broker,
       copies, None, Unspoilt, Tracked, TypeOK, Unborn, PassKeeps, InProgress
  <1>11. CASE EndPurge
    BY <1>11 DEF EndPurge, Smooth, Mishap, broker, copies, Unspoilt, Tracked, TypeOK,
       Unborn, PassKeeps, InProgress
  <1>12. ASSUME NEW p \in Positions, ResolveJournaled(p) PROVE Unspoilt'
    BY <1>12 DEF ResolveJournaled, Candidate, Resolve, Smooth, Mishap, broker, copies,
       Unspoilt, Tracked, TypeOK, Unborn, PassKeeps, InProgress
  <1>13. ASSUME NEW p \in Positions, ResolveRecord(p) PROVE Unspoilt'
    BY <1>13 DEF ResolveRecord, Candidate, Record, Smooth, broker, copies, Unspoilt,
       Tracked, TypeOK, Unborn, PassKeeps, InProgress
  <1>14. CASE ResolveDetail
    BY <1>14 DEF ResolveDetail, Detail, NoDetail, Smooth, Mishap, broker, copies, None,
       Unspoilt, Tracked, TypeOK, Unborn, PassKeeps, InProgress
  <1>15. CASE EndPass
    BY <1>15 DEF EndPass, Cover, Unknown, Untracked, NoTrack, Smooth, Mishap, broker,
       copies, Unspoilt, Tracked, TypeOK, Unborn, PassKeeps, InProgress
  <1>16. CASE Crash
    BY <1>16 DEF Crash, Mishap, Untracked, NoTrack, broker, files, copies, Unspoilt,
       Tracked, TypeOK, Unborn, PassKeeps, InProgress
  <1>17. ASSUME NEW p \in Positions, ExitPartly(p) PROVE Unspoilt'
    BY <1>17 DEF ExitPartly, files, pass, copies, Unspoilt, Tracked, TypeOK, Unborn,
       PassKeeps, InProgress
  <1>18. ASSUME NEW p \in Positions, Close(p) PROVE Unspoilt'
    BY <1>18 DEF Close, files, pass, copies, Unspoilt, Tracked, TypeOK, Unborn, PassKeeps,
       InProgress
  <1>19. ASSUME NEW p \in Positions, Show(p) PROVE Unspoilt'
    BY <1>19 DEF Show, files, pass, copies, Unspoilt, Tracked, TypeOK, Unborn, PassKeeps,
       InProgress
  <1>20. CASE Tick
    BY <1>20 DEF Tick, Aged, broker, copies, Unspoilt, Tracked, TypeOK, Unborn, PassKeeps,
       InProgress
  <1>21. CASE UNCHANGED vars
    BY <1>21 DEF Unspoilt, Tracked, vars, broker, files, pass, copies
  <1> QED BY <1>1, <1>2, <1>3, <1>4, <1>5, <1>6, <1>7, <1>8, <1>9, <1>10, <1>11, <1>12,
     <1>13, <1>14, <1>15, <1>16, <1>17, <1>18, <1>19, <1>20, <1>21 DEF Next, PassStep,
     BrokerStep

\* positions.json is overwritten only by a pass that keeps the contexts.
LEMMA ContextNeverLostKept ==
  ASSUME TypeOK, PassKeeps, InProgress, Unborn, ContextNeverLost, [Next]_vars
  PROVE  ContextNeverLost'
  <1>1. ASSUME NEW p \in Positions, Enter(p) PROVE ContextNeverLost'
    <2>1. /\ UNCHANGED <<trades, rejects>>
          /\ copied \subseteq copied' /\ unread \subseteq unread'
      BY <1>1 DEF Enter, Unreadable, copies
    <2> SUFFICES ASSUME NEW q \in observed' \ unread', q \notin copied', ~(trades[q] > 0),
                        "missingFull" \notin rejects[q]
                 PROVE  file'[q].context = "full"
      BY <2>1 DEF ContextNeverLost
    <2>2. CASE q = p
      <3>1. p \notin observed
        BY <1>1 DEF Enter, Unborn
      <3>2. PICK c \in {"full", "bare"} :
               /\ \/ file' = [file EXCEPT ![p] = Fresh(c)]
                  \/ file' = [Untracked EXCEPT ![p] = Fresh(c)]
               /\ observed' = IF c = "full" THEN observed \cup {p} ELSE observed
        BY <1>1, <2>2, <3>1 DEF Enter
      <3>3. c = "full"
        BY <2>2, <3>1, <3>2
      <3>4. file'[p] = Fresh("full")
        BY <3>2, <3>3, TrackTypes DEF TypeOK
      <3> QED BY <2>2, <3>4, TrackTypes
    <2>3. CASE q # p
      BY <1>1, <2>1, <2>3 DEF Enter, Unreadable, ContextNeverLost, TypeOK
    <2> QED BY <2>2, <2>3
  <1>2. CASE EndTurn
    BY <1>2 DEF EndTurn, broker, files, copies, ContextNeverLost, Tracked, TypeOK,
       PassKeeps, InProgress, Unborn
  <1>3. CASE BeginPass
    BY <1>3 DEF BeginPass, Unreadable, Mishap, Smooth, Opens, Tracked, Fresh, Untracked,
       NoTrack, broker, files, copies, ContextNeverLost, TypeOK, PassKeeps, InProgress,
       Unborn
  <1>4. ASSUME NEW p \in Positions, KeepMissing(p) PROVE ContextNeverLost'
    BY <1>4 DEF KeepMissing, Judged, Smooth, Mishap, broker, copies, ContextNeverLost,
       Tracked, TypeOK, PassKeeps, InProgress, Unborn
  <1>5. ASSUME NEW p \in Positions, QuarantineMissing(p) PROVE ContextNeverLost'
    BY <1>5 DEF QuarantineMissing, Judged, Quarantine, Pop, NoTrack, Smooth, Mishap, broker,
       copies, ContextNeverLost, Tracked, TypeOK, PassKeeps, InProgress, Unborn
  <1>6. ASSUME NEW p \in Positions, RejectClosure(p) PROVE ContextNeverLost'
    BY <1>6 DEF RejectClosure, Judged, Quarantine, Pop, Keep, NoTrack, Smooth, Mishap,
       broker, copies, ContextNeverLost, Tracked, TypeOK, PassKeeps, InProgress, Unborn
  <1>7. ASSUME NEW p \in Positions, SkipJournaled(p) PROVE ContextNeverLost'
    BY <1>7 DEF SkipJournaled, Judged, Pop, NoTrack, Smooth, broker, copies,
       ContextNeverLost, Tracked, TypeOK, PassKeeps, InProgress, Unborn
  <1>8. ASSUME NEW p \in Positions, RecordClosure(p) PROVE ContextNeverLost'
    BY <1>8 DEF RecordClosure, Record, Smooth, broker, copies, ContextNeverLost, Tracked,
       TypeOK, PassKeeps, InProgress, Unborn
  <1>9. ASSUME NEW p \in Positions, FailClosure(p) PROVE ContextNeverLost'
    BY <1>9 DEF FailClosure, Judged, Keep, Mishap, broker, copies, ContextNeverLost,
       Tracked, TypeOK, PassKeeps, InProgress, Unborn
  <1>10. CASE DetailClosure
    BY <1>10 DEF DetailClosure, Detail, NoDetail, Pop, NoTrack, Smooth, Mishap, broker,
       copies, None, ContextNeverLost, Tracked, TypeOK, PassKeeps, InProgress, Unborn
  <1>11. CASE EndPurge
    BY <1>11 DEF EndPurge, Smooth, Mishap, broker, copies, ContextNeverLost, Tracked,
       TypeOK, PassKeeps, InProgress, Unborn
  <1>12. ASSUME NEW p \in Positions, ResolveJournaled(p) PROVE ContextNeverLost'
    BY <1>12 DEF ResolveJournaled, Candidate, Resolve, Smooth, Mishap, broker, copies,
       ContextNeverLost, Tracked, TypeOK, PassKeeps, InProgress, Unborn
  <1>13. ASSUME NEW p \in Positions, ResolveRecord(p) PROVE ContextNeverLost'
    BY <1>13 DEF ResolveRecord, Candidate, Record, Smooth, broker, copies, ContextNeverLost,
       Tracked, TypeOK, PassKeeps, InProgress, Unborn
  <1>14. CASE ResolveDetail
    BY <1>14 DEF ResolveDetail, Detail, NoDetail, Smooth, Mishap, broker, copies, None,
       ContextNeverLost, Tracked, TypeOK, PassKeeps, InProgress, Unborn
  <1>15. CASE EndPass
    BY <1>15 DEF EndPass, Cover, Unknown, Untracked, NoTrack, Smooth, Mishap, broker,
       copies, ContextNeverLost, Tracked, TypeOK, PassKeeps, InProgress, Unborn
  <1>16. CASE Crash
    BY <1>16 DEF Crash, Mishap, Untracked, NoTrack, broker, files, copies, ContextNeverLost,
       Tracked, TypeOK, PassKeeps, InProgress, Unborn
  <1>17. ASSUME NEW p \in Positions, ExitPartly(p) PROVE ContextNeverLost'
    BY <1>17 DEF ExitPartly, files, pass, copies, ContextNeverLost, Tracked, TypeOK,
       PassKeeps, InProgress, Unborn
  <1>18. ASSUME NEW p \in Positions, Close(p) PROVE ContextNeverLost'
    BY <1>18 DEF Close, files, pass, copies, ContextNeverLost, Tracked, TypeOK, PassKeeps,
       InProgress, Unborn
  <1>19. ASSUME NEW p \in Positions, Show(p) PROVE ContextNeverLost'
    BY <1>19 DEF Show, files, pass, copies, ContextNeverLost, Tracked, TypeOK, PassKeeps,
       InProgress, Unborn
  <1>20. CASE Tick
    BY <1>20 DEF Tick, Aged, broker, copies, ContextNeverLost, Tracked, TypeOK, PassKeeps,
       InProgress, Unborn
  <1>21. CASE UNCHANGED vars
    BY <1>21 DEF ContextNeverLost, Tracked, vars, broker, files, pass, copies
  <1> QED BY <1>1, <1>2, <1>3, <1>4, <1>5, <1>6, <1>7, <1>8, <1>9, <1>10, <1>11, <1>12,
     <1>13, <1>14, <1>15, <1>16, <1>17, <1>18, <1>19, <1>20, <1>21 DEF Next, PassStep,
     BrokerStep


\* There is no position, no file and no pass yet.
LEMMA InitIsSafe == Init => IInv
  <1> SUFFICES ASSUME Init PROVE IInv
    OBVIOUS
  <1>1. TypeOK
    <2>1. mishaps \in 0..MaxMishaps
      BY ClosureAssumption DEF Init
    <2>2. file \in [Positions -> Track] /\ mem \in [Positions -> Track]
      BY TrackTypes DEF Init
    <2>3. /\ life \in [Positions -> {"none", "open", "closed"}]
          /\ history \in [Positions -> Exits] /\ trades \in [Positions -> Nat]
          /\ rejects \in [Positions -> SUBSET Kinds] /\ pc \in Steps
      BY DEF Init, Exits, Kinds, Steps
    <2>4. /\ cur \in Positions \cup {None} /\ gap \in BOOLEAN
          /\ observed \subseteq Positions /\ copied \cup unread \subseteq observed
          /\ excursions \subseteq Positions /\ resolved \subseteq Positions
          /\ seen \subseteq Positions /\ todo \subseteq Positions
      BY DEF Init
    <2> QED BY <2>1, <2>2, <2>3, <2>4 DEF TypeOK
  <1>2. FullIsObserved /\ Unborn
    BY DEF Init, FullIsObserved, Unborn, Untracked, NoTrack, Tracked
  <1>3. OneLinePerTrade /\ ContextNeverLost /\ InProgress /\ PassKeeps /\ Unspoilt
    BY DEF Init, OneLinePerTrade, ContextNeverLost, InProgress, PassKeeps, Unspoilt
  <1> QED BY <1>1, <1>2, <1>3 DEF IInv

\* What positions.json, the journals and a pass in progress owe each other holds in every
\* state, whatever fails and wherever the process dies.
THEOREM ClosureInvariance == Spec => []IInv
  <1>1. IInv /\ [Next]_vars => IInv'
    BY TypeOKKept, FullIsObservedKept, OneLinePerTradeKept, UnbornKept, InProgressKept,
       PassKeepsKept, UnspoiltKept, ContextNeverLostKept DEF IInv
  <1> QED BY InitIsSafe, <1>1, PTL DEF Spec

\* A saved context is never dropped before its line or a quarantine that carries it.
THEOREM ContextsAreKept == Spec => []ContextNeverLost
  <1>1. IInv => ContextNeverLost
    BY DEF IInv
  <1> QED BY <1>1, ClosureInvariance, PTL

\* recover_unobserved_closures writes a coverage line for a saved context only when it is
\* journaled or quarantined already.
THEOREM CoverageComesLast == Spec => CoverageIsLastResort
  <1> DEFINE Last == \A p \in observed \ (copied \cup unread) :
                        "coverage" \in rejects'[p] \ rejects[p]
                            => trades[p] > 0 \/ "missingFull" \in rejects[p]
  <1>1. IInv /\ [Next]_vars => [Last]_vars
    <2> SUFFICES ASSUME IInv, Next,
                        NEW q \in observed \ (copied \cup unread),
                        "coverage" \in rejects'[q], "coverage" \notin rejects[q]
                 PROVE  trades[q] > 0 \/ "missingFull" \in rejects[q]
      OBVIOUS
    <2>1. q \in Positions /\ rejects \in [Positions -> SUBSET Kinds]
      BY DEF IInv, TypeOK
    <2>2. CASE EndPass
      BY <2>1, <2>2 DEF EndPass, Cover, Unknown, Tracked, IInv, PassKeeps, TypeOK, Track
    <2>3. CASE ~EndPass
      <3>1. ASSUME NEW p \in Positions, NEW kind \in Kinds \ {"coverage"}, Quarantine(p, kind)
            PROVE  FALSE
        BY <2>1, <3>1 DEF Quarantine
      <3>2. ASSUME NEW p \in Positions, rejects' = [rejects EXCEPT ![p] = @ \cup {"resolved"}]
            PROVE  FALSE
        BY <2>1, <3>2
      <3>3. ASSUME UNCHANGED rejects PROVE FALSE
        BY <3>3
      <3>4. ASSUME NEW p \in Positions, QuarantineMissing(p) PROVE FALSE
        BY <3>1, <3>4 DEF QuarantineMissing, Kinds
      <3>5. ASSUME NEW p \in Positions, RejectClosure(p) PROVE FALSE
        BY <3>1, <3>3, <3>5 DEF RejectClosure, Kinds
      <3>6. ASSUME NEW p \in Positions, ResolveJournaled(p) PROVE FALSE
        BY <3>2, <3>3, <3>6 DEF ResolveJournaled, Resolve
      <3>7. CASE ResolveDetail
        BY <3>2, <3>3, <3>7 DEF ResolveDetail, IInv, InProgress
      <3> QED
        BY <2>3, <3>3, <3>4, <3>5, <3>6, <3>7
           DEF Next, PassStep, BrokerStep, Enter, EndTurn, BeginPass, KeepMissing, SkipJournaled,
               RecordClosure, FailClosure, DetailClosure, EndPurge, ResolveRecord, Record, Crash,
               ExitPartly, Close, Show, Tick, files
    <2> QED BY <2>2, <2>3
  <1> QED BY <1>1, ClosureInvariance, PTL DEF Spec, CoverageIsLastResort

=============================================================================
