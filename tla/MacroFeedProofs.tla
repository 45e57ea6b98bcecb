---------------------------- MODULE MacroFeedProofs ----------------------------
(***************************************************************************)
(* Proofs about MacroFeed: for any events, symbols, delays and drift, and  *)
(* any number of threads started one after the other, a dead or failing    *)
(* source never lets an entry through a publication it has shown, a source *)
(* that is back is read again within the longest backoff, and stop is      *)
(* over when its delay is.                                                 *)
(***************************************************************************)
EXTENDS MacroFeed, TLAPS

\* The delays are numbers of instants.
LEMMA ConstantsAreNat ==
    /\ Ttl \in Nat /\ Refresh \in Nat /\ MaxBackoff \in Nat /\ Before \in Nat /\ After \in Nat
    /\ Horizon \in Nat /\ Skew \in Nat /\ Budget \in Nat /\ Floor \in Nat /\ Margin \in Nat
    /\ Drift \in Nat /\ MaxTime \in Nat /\ Margin > 0 /\ MaxThreads \in Nat
  BY MacroAssumption

\* The interval after a read is a number, and after a failure it is capped.
LEMMA DelayBounds ==
  ASSUME failures' \in Nat
  PROVE  Delay \in Nat /\ (failures' > 0 => Delay <= MaxBackoff)
  <1>1. Min({failures', 8}) \in 0..8
    BY DEF Min
  <1>2. \A k \in 0..8 : 2^k \in Nat
    <2> TAKE k \in 0..8
    <2>1. /\ 2^0 \in Nat /\ 2^1 \in Nat /\ 2^2 \in Nat /\ 2^3 \in Nat /\ 2^4 \in Nat
          /\ 2^5 \in Nat /\ 2^6 \in Nat /\ 2^7 \in Nat /\ 2^8 \in Nat
      OBVIOUS
    <2>2. k \in {0, 1, 2, 3, 4, 5, 6, 7, 8}
      OBVIOUS
    <2> QED BY <2>1, <2>2, Zenon
  <1> DEFINE doubled == Refresh * 2^Min({failures', 8})
  <1>3. doubled \in Nat
    <2>1. PICK power \in Nat : power = 2^Min({failures', 8})
      BY <1>1, <1>2
    <2>2. Refresh \in Nat /\ power \in Nat
      BY ConstantsAreNat
    <2>3. \A a, b \in Nat : a * b \in Nat
      OBVIOUS
    <2>4. doubled = Refresh * power
      BY <2>1
    <2> HIDE DEF doubled
    <2> QED BY <2>2, <2>3, <2>4, Zenon
  <1>4. Min({doubled, MaxBackoff}) \in Nat /\ Min({doubled, MaxBackoff}) <= MaxBackoff
    <2> HIDE DEF doubled
    <2> QED BY <1>3, ConstantsAreNat DEF Min
  <1> QED BY <1>4, ConstantsAreNat DEF Delay

\* The later of two instants.
LEMMA MaxOfTwo ==
  ASSUME NEW a \in Nat, NEW b \in Nat
  PROVE  Max({a, b}) \in Nat /\ Max({a, b}) >= a /\ Max({a, b}) >= b
  BY DEF Max

\* The delay of stop covers a read within the budget.
LEMMA JoinDelayBounds == JoinDelay \in Nat /\ JoinDelay > Budget
  <1>1. Floor \in Nat /\ Budget + Margin \in Nat /\ Budget + Margin > Budget
    BY ConstantsAreNat
  <1> QED BY <1>1, ConstantsAreNat DEF JoinDelay, Max

\* Every step keeps the types.
LEMMA TypeOKKept ==
  ASSUME TypeOK, [Next]_vars
  PROVE  TypeOK'
  <1>1. ASSUME NEW shown \in SUBSET Events, NEW ahead \in 0..Drift, Announce(shown, ahead)
     PROVE TypeOK'
    <2>1. newsAt' \in 0..now' /\ announced' \in [at : Nat, events : SUBSET Events]
      BY <1>1, ConstantsAreNat DEF Announce, TypeOK
    <2>2. since' \in [Events -> 0..Never]
      BY <1>1, ConstantsAreNat DEF Announce, TypeOK, Never
    <2> QED BY <1>1, <2>1, <2>2 DEF Announce, TypeOK, loop, service, cache
  <1>2. CASE Break
    <2>1. /\ now' \in 0..MaxTime /\ newsAt' \in 0..now' /\ goodSince' \in 0..now'
          /\ failedAt' \in 0..now'
      BY <1>2, ConstantsAreNat DEF Break, TypeOK, loop, service, cache
    <2>2. /\ announced' \in [at : Nat, events : SUBSET Events] /\ readable' \in BOOLEAN
          /\ since' \in [Events -> 0..Never]
      BY <1>2 DEF Break, TypeOK, loop, service, cache
    <2>3. /\ thread' \in [Threads -> {"unborn", "starting", "reading", "asleep", "ending", "dead"}]
          /\ bell' \in [Threads -> {"off", "rung", "on"}]
      BY <1>2 DEF Break, TypeOK, loop, service, cache, Threads
    <2>4. due' \in [Threads -> Nat]
      BY <1>2, ConstantsAreNat DEF Break, TypeOK, loop, service, cache
    <2>5. draft' \in [Threads -> Calendars]
      BY <1>2 DEF Break, TypeOK, loop, service, cache, Calendars
    <2>6. /\ fil' \in Threads \cup {Nobody} /\ armed' \in Threads \cup {Nobody} /\ demand' \in BOOLEAN
          /\ caller' \in [pc : {"free", "joining"}, until : Nat, whole : BOOLEAN]
      BY <1>2, ConstantsAreNat, JoinDelayBounds DEF Break, TypeOK, loop, service, cache,
         Threads, Nobody, Free
    <2>7. /\ calendar' \in Calendars /\ failures' \in Nat
      BY <1>2 DEF Break, TypeOK, loop, service, cache, Calendars
    <2>8. begun' \in [Threads -> 0..now']
      BY <1>2, ConstantsAreNat DEF Break, TypeOK, loop, service, cache
    <2> QED BY <2>1, <2>2, <2>3, <2>4, <2>5, <2>6, <2>7, <2>8 DEF TypeOK
  <1>3. CASE Mend
    BY <1>3, ConstantsAreNat DEF Mend, TypeOK, Calendars, None, Nobody, Free, Threads,
       Never, loop, service, cache
  <1>4. CASE Join
    BY <1>4, ConstantsAreNat DEF Join, TypeOK, Calendars, None, Nobody, Free, Threads,
       Never, producer, loop, cache
  <1>5. CASE Tick
    <2>1. /\ now' \in 0..MaxTime /\ newsAt' \in 0..now' /\ goodSince' \in 0..now'
          /\ failedAt' \in 0..now'
      BY <1>5, ConstantsAreNat DEF Tick, TypeOK, producer, loop, service, cache
    <2>2. /\ announced' \in [at : Nat, events : SUBSET Events] /\ readable' \in BOOLEAN
          /\ since' \in [Events -> 0..Never]
      BY <1>5 DEF Tick, TypeOK, producer, loop, service, cache
    <2>3. /\ thread' \in [Threads -> {"unborn", "starting", "reading", "asleep", "ending", "dead"}]
          /\ bell' \in [Threads -> {"off", "rung", "on"}]
      BY <1>5 DEF Tick, TypeOK, producer, loop, service, cache, Threads
    <2>4. due' \in [Threads -> Nat]
      BY <1>5, ConstantsAreNat DEF Tick, TypeOK, producer, loop, service, cache
    <2>5. draft' \in [Threads -> Calendars]
      BY <1>5 DEF Tick, TypeOK, producer, loop, service, cache, Calendars
    <2>6. /\ fil' \in Threads \cup {Nobody} /\ armed' \in Threads \cup {Nobody} /\ demand' \in BOOLEAN
          /\ caller' \in [pc : {"free", "joining"}, until : Nat, whole : BOOLEAN]
      BY <1>5, ConstantsAreNat, JoinDelayBounds DEF Tick, TypeOK, producer, loop, service,
         cache, Threads, Nobody, Free
    <2>7. /\ calendar' \in Calendars /\ failures' \in Nat
      BY <1>5 DEF Tick, TypeOK, producer, loop, service, cache, Calendars
    <2>8. begun' \in [Threads -> 0..now']
      BY <1>5, ConstantsAreNat DEF Tick, TypeOK, producer, loop, service, cache
    <2> QED BY <2>1, <2>2, <2>3, <2>4, <2>5, <2>6, <2>7, <2>8 DEF TypeOK
  <1>6. ASSUME NEW t \in Threads, EndRead(t) PROVE TypeOK'
    <2>1. /\ calendar' \in Calendars /\ failures' \in Nat /\ failedAt' \in 0..now'
      BY <1>6 DEF EndRead, Publish, RecordFailure, AfterRead, TypeOK, producer, service,
         Calendars
    <2>2. /\ now' \in 0..MaxTime /\ newsAt' \in 0..now' /\ goodSince' \in 0..now'
      BY <1>6, ConstantsAreNat DEF EndRead, Publish, RecordFailure, AfterRead, TypeOK,
         producer, service
    <2>3. /\ announced' \in [at : Nat, events : SUBSET Events] /\ readable' \in BOOLEAN
          /\ since' \in [Events -> 0..Never]
      BY <1>6 DEF EndRead, Publish, RecordFailure, AfterRead, TypeOK, producer, service
    <2>4. /\ thread' \in [Threads -> {"unborn", "starting", "reading", "asleep", "ending", "dead"}]
          /\ bell' \in [Threads -> {"off", "rung", "on"}]
      BY <1>6 DEF EndRead, Publish, RecordFailure, AfterRead, TypeOK, producer, service,
         Threads
    <2>5. due' \in [Threads -> Nat]
      BY <1>6, ConstantsAreNat, <2>1, DelayBounds DEF EndRead, Publish, RecordFailure,
         AfterRead, TypeOK, producer, service
    <2>6. draft' \in [Threads -> Calendars]
      BY <1>6 DEF EndRead, Publish, RecordFailure, AfterRead, TypeOK, producer, service,
         Calendars
    <2>7. /\ fil' \in Threads \cup {Nobody} /\ armed' \in Threads \cup {Nobody} /\ demand' \in BOOLEAN
          /\ caller' \in [pc : {"free", "joining"}, until : Nat, whole : BOOLEAN]
      BY <1>6, ConstantsAreNat, JoinDelayBounds DEF EndRead, Publish, RecordFailure,
         AfterRead, TypeOK, producer, service, Threads, Nobody, Free
    <2>8. begun' \in [Threads -> 0..now']
      BY <1>6, ConstantsAreNat DEF EndRead, AfterRead, TypeOK, producer, service
    <2> QED BY <2>1, <2>2, <2>3, <2>4, <2>5, <2>6, <2>7, <2>8 DEF TypeOK
  <1>7. ASSUME NEW t \in Threads, Wake(t) PROVE TypeOK'
    <2>1. /\ now' \in 0..MaxTime /\ newsAt' \in 0..now' /\ goodSince' \in 0..now'
          /\ failedAt' \in 0..now'
      BY <1>7, ConstantsAreNat DEF Wake, BeginRead, TypeOK, producer, service, cache
    <2>2. /\ announced' \in [at : Nat, events : SUBSET Events] /\ readable' \in BOOLEAN
          /\ since' \in [Events -> 0..Never]
      BY <1>7 DEF Wake, BeginRead, TypeOK, producer, service, cache
    <2>3. /\ thread' \in [Threads -> {"unborn", "starting", "reading", "asleep", "ending", "dead"}]
          /\ bell' \in [Threads -> {"off", "rung", "on"}]
      BY <1>7 DEF Wake, BeginRead, TypeOK, producer, service, cache, Threads
    <2>4. due' \in [Threads -> Nat]
      BY <1>7, ConstantsAreNat DEF Wake, BeginRead, TypeOK, producer, service, cache
    <2>5. draft' \in [Threads -> Calendars]
      BY <1>7 DEF Wake, BeginRead, TypeOK, producer, service, cache, Calendars
    <2>6. /\ fil' \in Threads \cup {Nobody} /\ armed' \in Threads \cup {Nobody} /\ demand' \in BOOLEAN
          /\ caller' \in [pc : {"free", "joining"}, until : Nat, whole : BOOLEAN]
      BY <1>7, ConstantsAreNat, JoinDelayBounds DEF Wake, BeginRead, TypeOK, producer,
         service, cache, Threads, Nobody, Free
    <2>7. /\ calendar' \in Calendars /\ failures' \in Nat
      BY <1>7 DEF Wake, BeginRead, TypeOK, producer, service, cache, Calendars
    <2>8. begun' \in [Threads -> 0..now']
      BY <1>7, ConstantsAreNat DEF Wake, BeginRead, TypeOK, producer, service, cache
    <2> QED BY <2>1, <2>2, <2>3, <2>4, <2>5, <2>6, <2>7, <2>8 DEF TypeOK
  <1>8. ASSUME NEW t \in Threads, Ring(t) PROVE TypeOK'
    BY <1>8, ConstantsAreNat DEF Ring, TypeOK, Calendars, None, Nobody, Free, Threads,
       Never, producer, service, cache
  <1>9. ASSUME NEW t \in Threads, Arm(t) PROVE TypeOK'
    <2>1. /\ now' \in 0..MaxTime /\ newsAt' \in 0..now' /\ goodSince' \in 0..now'
          /\ failedAt' \in 0..now'
      BY <1>9, ConstantsAreNat DEF Arm, BeginRead, TypeOK, producer, cache
    <2>2. /\ announced' \in [at : Nat, events : SUBSET Events] /\ readable' \in BOOLEAN
          /\ since' \in [Events -> 0..Never]
      BY <1>9 DEF Arm, BeginRead, TypeOK, producer, cache
    <2>3. /\ thread' \in [Threads -> {"unborn", "starting", "reading", "asleep", "ending", "dead"}]
          /\ bell' \in [Threads -> {"off", "rung", "on"}]
      BY <1>9 DEF Arm, BeginRead, TypeOK, producer, cache, Threads
    <2>4. due' \in [Threads -> Nat]
      BY <1>9, ConstantsAreNat DEF Arm, BeginRead, TypeOK, producer, cache
    <2>5. draft' \in [Threads -> Calendars]
      BY <1>9 DEF Arm, BeginRead, TypeOK, producer, cache, Calendars
    <2>6. /\ fil' \in Threads \cup {Nobody} /\ armed' \in Threads \cup {Nobody} /\ demand' \in BOOLEAN
          /\ caller' \in [pc : {"free", "joining"}, until : Nat, whole : BOOLEAN]
      BY <1>9, ConstantsAreNat, JoinDelayBounds DEF Arm, BeginRead, TypeOK, producer, cache,
         Threads, Nobody, Free
    <2>7. /\ calendar' \in Calendars /\ failures' \in Nat
      BY <1>9 DEF Arm, BeginRead, TypeOK, producer, cache, Calendars
    <2>8. begun' \in [Threads -> 0..now']
      BY <1>9, ConstantsAreNat DEF Arm, BeginRead, TypeOK, producer, cache
    <2> QED BY <2>1, <2>2, <2>3, <2>4, <2>5, <2>6, <2>7, <2>8 DEF TypeOK
  <1>10. ASSUME NEW t \in Threads, End(t) PROVE TypeOK'
    <2>1. begun' \in [Threads -> 0..now']
      BY <1>10, ConstantsAreNat DEF End, TypeOK
    <2>2. thread' \in [Threads -> {"unborn", "starting", "reading", "asleep", "ending", "dead"}]
      BY <1>10 DEF End, TypeOK
    <2> QED BY <1>10, <2>1, <2>2 DEF End, TypeOK, Nobody, Threads, producer, cache
  <1>11. ASSUME NEW t \in Threads, Start(t) PROVE TypeOK'
    BY <1>11, ConstantsAreNat DEF Start, TypeOK, Calendars, None, Nobody, Free, Threads,
       Never, producer, cache
  <1>12. ASSUME NEW t \in Threads, Collapse(t) PROVE TypeOK'
    BY <1>12, ConstantsAreNat DEF Collapse, TypeOK, Calendars, None, Nobody, Free,
       Threads, Never, producer, service, cache
  <1>13. ASSUME NEW whole \in BOOLEAN, NEW delay \in {0, JoinDelay}, Stop(whole, delay)
     PROVE TypeOK'
    <2>1. /\ now' \in 0..MaxTime /\ newsAt' \in 0..now' /\ goodSince' \in 0..now'
          /\ failedAt' \in 0..now'
      BY <1>13, ConstantsAreNat DEF Stop, TypeOK, producer, cache
    <2>2. /\ announced' \in [at : Nat, events : SUBSET Events] /\ readable' \in BOOLEAN
          /\ since' \in [Events -> 0..Never]
      BY <1>13 DEF Stop, TypeOK, producer, cache
    <2>3. /\ thread' \in [Threads -> {"unborn", "starting", "reading", "asleep", "ending", "dead"}]
          /\ bell' \in [Threads -> {"off", "rung", "on"}]
      BY <1>13 DEF Stop, TypeOK, producer, cache, Threads
    <2>4. due' \in [Threads -> Nat]
      BY <1>13, ConstantsAreNat DEF Stop, TypeOK, producer, cache
    <2>5. draft' \in [Threads -> Calendars]
      BY <1>13 DEF Stop, TypeOK, producer, cache, Calendars
    <2>6. /\ fil' \in Threads \cup {Nobody} /\ armed' \in Threads \cup {Nobody} /\ demand' \in BOOLEAN
          /\ caller' \in [pc : {"free", "joining"}, until : Nat, whole : BOOLEAN]
      <3>1. now + delay \in Nat
        BY JoinDelayBounds, ConstantsAreNat DEF TypeOK
      <3>2. caller' = caller \/ caller' = [pc |-> "joining", until |-> now + delay, whole |-> whole]
        BY <1>13 DEF Stop
      <3>3. caller' \in [pc : {"free", "joining"}, until : Nat, whole : BOOLEAN]
        BY <3>1, <3>2 DEF TypeOK
      <3> QED BY <1>13, <3>3 DEF Stop, TypeOK
    <2>7. /\ calendar' \in Calendars /\ failures' \in Nat
      BY <1>13 DEF Stop, TypeOK, producer, cache, Calendars
    <2>8. begun' \in [Threads -> 0..now']
      BY <1>13, ConstantsAreNat DEF Stop, TypeOK, producer, cache
    <2> QED BY <2>1, <2>2, <2>3, <2>4, <2>5, <2>6, <2>7, <2>8 DEF TypeOK
  <1>14. ASSUME NEW t \in Threads, Answer(t) PROVE TypeOK'
    BY <1>14, ConstantsAreNat DEF Answer, TypeOK, Calendars, None, Nobody, Free,
       Threads, Never, producer, service, cache
  <1>15. CASE UNCHANGED vars
    BY <1>15 DEF TypeOK, Calendars, None, Nobody, Free, Threads, Never, vars, producer,
       loop, service, cache
  <1> QED BY <1>1, <1>2, <1>3, <1>4, <1>5, <1>6, <1>7, <1>8, <1>9, <1>10, <1>11, <1>12,
     <1>13, <1>14, <1>15 DEF Next, Turn

\* One thread at most is alive, and the service holds it: start waits for its end.
LEMMA OneReaderKept ==
  ASSUME TypeOK, OneReader, [Next]_vars
  PROVE  OneReader'
  <1>1. ASSUME NEW shown \in SUBSET Events, NEW ahead \in 0..Drift, Announce(shown, ahead)
     PROVE OneReader'
    BY <1>1 DEF Announce, OneReader, Alive, Running, Nobody, Threads, TypeOK, loop,
       service, cache
  <1>2. CASE Break
    BY <1>2 DEF Break, OneReader, Alive, Running, Nobody, Threads, TypeOK, loop, service,
       cache
  <1>3. CASE Mend
    BY <1>3 DEF Mend, OneReader, Alive, Running, Nobody, Threads, TypeOK, loop, service,
       cache
  <1>4. CASE Join
    BY <1>4 DEF Join, OneReader, Alive, Running, Nobody, Threads, TypeOK, producer, loop,
       cache
  <1>5. CASE Tick
    BY <1>5 DEF Tick, OneReader, Alive, Running, Nobody, Threads, TypeOK, producer, loop,
       service, cache
  <1>6. ASSUME NEW t \in Threads, EndRead(t) PROVE OneReader'
    BY <1>6 DEF EndRead, Publish, RecordFailure, AfterRead, OneReader, Alive, Running,
       Nobody, Threads, TypeOK, producer, service
  <1>7. ASSUME NEW t \in Threads, Wake(t) PROVE OneReader'
    BY <1>7 DEF Wake, BeginRead, OneReader, Alive, Running, Nobody, Threads, TypeOK,
       producer, service, cache
  <1>8. ASSUME NEW t \in Threads, Ring(t) PROVE OneReader'
    BY <1>8 DEF Ring, OneReader, Alive, Running, Nobody, Threads, TypeOK, producer,
       service, cache
  <1>9. ASSUME NEW t \in Threads, Arm(t) PROVE OneReader'
    BY <1>9 DEF Arm, BeginRead, OneReader, Alive, Running, Nobody, Threads, TypeOK,
       producer, cache
  <1>10. ASSUME NEW t \in Threads, End(t) PROVE OneReader'
    BY <1>10 DEF End, OneReader, Alive, Running, Nobody, Threads, TypeOK, producer, cache
  <1>11. ASSUME NEW t \in Threads, Start(t) PROVE OneReader'
    BY <1>11 DEF Start, OneReader, Alive, Running, Nobody, Threads, TypeOK, producer,
       cache
  <1>12. ASSUME NEW t \in Threads, Collapse(t) PROVE OneReader'
    BY <1>12 DEF Collapse, OneReader, Alive, Running, Nobody, Threads, TypeOK, producer,
       service, cache
  <1>13. ASSUME NEW whole \in BOOLEAN, NEW delay \in {0, JoinDelay}, Stop(whole, delay)
     PROVE OneReader'
    BY <1>13 DEF Stop, OneReader, Alive, Running, Nobody, Threads, TypeOK, producer, cache
  <1>14. ASSUME NEW t \in Threads, Answer(t) PROVE OneReader'
    BY <1>14, ConstantsAreNat DEF Answer, OneReader, Alive, Running, Nobody, Threads, TypeOK,
       producer, service, cache
  <1>15. CASE UNCHANGED vars
    BY <1>15 DEF OneReader, Alive, Running, Nobody, Threads, vars, producer, loop,
       service, cache
  <1> QED BY <1>1, <1>2, <1>3, <1>4, <1>5, <1>6, <1>7, <1>8, <1>9, <1>10, <1>11, <1>12,
     <1>13, <1>14, <1>15 DEF Next, Turn

\* A calendar stays complete: the producer's time only goes on, and what it shows anew is
\* later than any calendar stamped before.
LEMMA NothingInventedKept ==
  ASSUME TypeOK, NothingInvented, [Next]_vars
  PROVE  NothingInvented'
  <1>1. ASSUME NEW shown \in SUBSET Events, NEW ahead \in 0..Drift, Announce(shown, ahead)
     PROVE NothingInvented'
    BY <1>1, ConstantsAreNat DEF Announce, NothingInvented, Honest, Complete, Calendars,
       None, Never, TypeOK, loop, service, cache
  <1>2. CASE Break
    BY <1>2, ConstantsAreNat DEF Break, NothingInvented, Honest, Complete, Calendars,
       None, Never, TypeOK, loop, service, cache
  <1>3. CASE Mend
    BY <1>3, ConstantsAreNat DEF Mend, NothingInvented, Honest, Complete, Calendars, None,
       Never, TypeOK, loop, service, cache
  <1>4. CASE Join
    BY <1>4, ConstantsAreNat DEF Join, NothingInvented, Honest, Complete, Calendars, None,
       Never, TypeOK, producer, loop, cache
  <1>5. CASE Tick
    BY <1>5, ConstantsAreNat DEF Tick, NothingInvented, Honest, Complete, Calendars, None,
       Never, TypeOK, producer, loop, service, cache
  <1>6. ASSUME NEW t \in Threads, EndRead(t) PROVE NothingInvented'
    BY <1>6, ConstantsAreNat DEF EndRead, Publish, RecordFailure, AfterRead,
       NothingInvented, Honest, Complete, Calendars, None, Never, TypeOK, producer,
       service
  <1>7. ASSUME NEW t \in Threads, Wake(t) PROVE NothingInvented'
    BY <1>7, ConstantsAreNat DEF Wake, BeginRead, NothingInvented, Honest, Complete,
       Calendars, None, Never, TypeOK, producer, service, cache
  <1>8. ASSUME NEW t \in Threads, Ring(t) PROVE NothingInvented'
    BY <1>8, ConstantsAreNat DEF Ring, NothingInvented, Honest, Complete, Calendars, None,
       Never, TypeOK, producer, service, cache
  <1>9. ASSUME NEW t \in Threads, Arm(t) PROVE NothingInvented'
    BY <1>9, ConstantsAreNat DEF Arm, BeginRead, NothingInvented, Honest, Complete,
       Calendars, None, Never, TypeOK, producer, cache
  <1>10. ASSUME NEW t \in Threads, End(t) PROVE NothingInvented'
    BY <1>10, ConstantsAreNat DEF End, NothingInvented, Honest, Complete, Calendars, None,
       Never, TypeOK, producer, cache
  <1>11. ASSUME NEW t \in Threads, Start(t) PROVE NothingInvented'
    BY <1>11, ConstantsAreNat DEF Start, NothingInvented, Honest, Complete, Calendars,
       None, Never, TypeOK, producer, cache
  <1>12. ASSUME NEW t \in Threads, Collapse(t) PROVE NothingInvented'
    BY <1>12, ConstantsAreNat DEF Collapse, NothingInvented, Honest, Complete, Calendars,
       None, Never, TypeOK, producer, service, cache
  <1>13. ASSUME NEW whole \in BOOLEAN, NEW delay \in {0, JoinDelay}, Stop(whole, delay)
     PROVE NothingInvented'
    BY <1>13, ConstantsAreNat DEF Stop, NothingInvented, Honest, Complete, Calendars,
       None, Never, TypeOK, producer, cache
  <1>14. ASSUME NEW t \in Threads, Answer(t) PROVE NothingInvented'
    BY <1>14, ConstantsAreNat DEF Answer, NothingInvented, Honest, Complete, Calendars,
       None, Never, TypeOK, producer, service, cache
  <1>15. CASE UNCHANGED vars
    BY <1>15 DEF NothingInvented, Honest, Complete, Calendars, None, Never, vars,
       producer, loop, service, cache
  <1> QED BY <1>1, <1>2, <1>3, <1>4, <1>5, <1>6, <1>7, <1>8, <1>9, <1>10, <1>11, <1>12,
     <1>13, <1>14, <1>15 DEF Next, Turn

\* A thread that serves keeps its event, its budget and its cap.
LEMMA ServesKept ==
  ASSUME TypeOK, OneReader, Serves, [Next]_vars
  PROVE  Serves'
  <1>1. ASSUME NEW shown \in SUBSET Events, NEW ahead \in 0..Drift, Announce(shown, ahead)
     PROVE Serves'
    BY <1>1, ConstantsAreNat DEF Announce, Serves, Alive, Running, None, Nobody, Threads,
       TypeOK, OneReader, loop, service, cache
  <1>2. CASE Break
    BY <1>2, ConstantsAreNat DEF Break, Serves, Alive, Running, None, Nobody, Threads,
       TypeOK, OneReader, loop, service, cache
  <1>3. CASE Mend
    BY <1>3, ConstantsAreNat DEF Mend, Serves, Alive, Running, None, Nobody, Threads,
       TypeOK, OneReader, loop, service, cache
  <1>4. CASE Join
    BY <1>4, ConstantsAreNat DEF Join, Serves, Alive, Running, None, Nobody, Threads,
       TypeOK, OneReader, producer, loop, cache
  <1>5. CASE Tick
    <2>1. UNCHANGED <<thread, armed, due, failures, failedAt>>
      BY <1>5 DEF Tick, loop, service, cache
    <2> QED BY <2>1 DEF Serves
  <1>6. ASSUME NEW t \in Threads, EndRead(t) PROVE Serves'
    <2>1. /\ armed = t /\ UNCHANGED <<now, armed>>
          /\ \A u \in Threads \ {t} : thread'[u] = thread[u] /\ due'[u] = due[u]
          /\ thread'[t] \in {"ending", "asleep"}
      BY <1>6 DEF EndRead, AfterRead, Serves, TypeOK, service
    <2>2. \A u \in Threads \ {t} : thread'[u] \notin {"reading", "asleep"}
      BY <2>1 DEF Serves
    <2>3. failures' \in Nat
      BY <1>6 DEF EndRead, Publish, RecordFailure, TypeOK
    <2>4. Delay \in Nat /\ (failures' > 0 => Delay <= MaxBackoff)
      BY <2>3, DelayBounds
    <2>5. now \in Nat
      BY ConstantsAreNat DEF TypeOK
    <2>6. thread'[t] = "asleep" => due'[t] = now + Delay
      BY <1>6 DEF EndRead, AfterRead, TypeOK
    <2>7. failures' > 0 => failedAt' = now
      BY <1>6 DEF EndRead, Publish, RecordFailure
    <2>8. thread'[t] = "asleep" /\ failures' > 0 => due'[t] <= failedAt' + MaxBackoff
      <3> HIDE DEF Delay
      <3> QED BY <2>4, <2>5, <2>6, <2>7, ConstantsAreNat
    <2> QED BY <2>1, <2>2, <2>8 DEF Serves
  <1>7. ASSUME NEW t \in Threads, Wake(t) PROVE Serves'
    BY <1>7, ConstantsAreNat DEF Wake, BeginRead, Serves, Alive, Running, None, Nobody,
       Threads, TypeOK, OneReader, producer, service, cache
  <1>8. ASSUME NEW t \in Threads, Ring(t) PROVE Serves'
    BY <1>8, ConstantsAreNat DEF Ring, Serves, Alive, Running, None, Nobody, Threads,
       TypeOK, OneReader, producer, service, cache
  <1>9. ASSUME NEW t \in Threads, Arm(t) PROVE Serves'
    <2>1. thread[t] = "starting" /\ armed' = t /\ UNCHANGED <<failures, failedAt>>
      BY <1>9 DEF Arm, cache
    <2>2. thread'[t] \in {"reading", "ending"}
      BY <1>9 DEF Arm, BeginRead, TypeOK
    <2>3. \A u \in Threads \ {t} : ~Alive(u) /\ thread'[u] = thread[u]
      BY <1>9 DEF Arm, BeginRead, OneReader, Alive, TypeOK
    <2> QED BY <2>1, <2>2, <2>3 DEF Serves, Alive
  <1>10. ASSUME NEW t \in Threads, End(t) PROVE Serves'
    BY <1>10, ConstantsAreNat DEF End, Serves, Alive, Running, None, Nobody, Threads,
       TypeOK, OneReader, producer, cache
  <1>11. ASSUME NEW t \in Threads, Start(t) PROVE Serves'
    BY <1>11, ConstantsAreNat DEF Start, Serves, Alive, Running, None, Nobody, Threads,
       TypeOK, OneReader, producer, cache
  <1>12. ASSUME NEW t \in Threads, Collapse(t) PROVE Serves'
    BY <1>12, ConstantsAreNat DEF Collapse, Serves, Alive, Running, None, Nobody, Threads,
       TypeOK, OneReader, producer, service, cache
  <1>13. ASSUME NEW whole \in BOOLEAN, NEW delay \in {0, JoinDelay}, Stop(whole, delay)
     PROVE Serves'
    BY <1>13, ConstantsAreNat DEF Stop, Serves, Alive, Running, None, Nobody, Threads,
       TypeOK, OneReader, producer, cache
  <1>14. ASSUME NEW t \in Threads, Answer(t) PROVE Serves'
    BY <1>14, ConstantsAreNat DEF Answer, Serves, Alive, Running, None, Nobody, Threads,
       TypeOK, OneReader, producer, service, cache
  <1>15. CASE UNCHANGED vars
    BY <1>15 DEF Serves, Alive, Running, None, Nobody, Threads, vars, producer, loop,
       service, cache
  <1> QED BY <1>1, <1>2, <1>3, <1>4, <1>5, <1>6, <1>7, <1>8, <1>9, <1>10, <1>11, <1>12,
     <1>13, <1>14, <1>15 DEF Next, Turn

\* A source that comes back finds the thread asleep for MaxBackoff at most.
LEMMA RecoveryBoundedKept ==
  ASSUME TypeOK, OneReader, Serves, RecoveryBounded, [Next]_vars
  PROVE  RecoveryBounded'
  <1>1. ASSUME NEW shown \in SUBSET Events, NEW ahead \in 0..Drift, Announce(shown, ahead)
     PROVE RecoveryBounded'
    BY <1>1, ConstantsAreNat DEF Announce, RecoveryBounded, Max, Threads, TypeOK, Serves, loop,
       service, cache
  <1>2. CASE Break
    BY <1>2, ConstantsAreNat DEF Break, RecoveryBounded, Max, Threads, TypeOK, Serves, loop,
       service, cache
  <1>3. CASE Mend
    <2> SUFFICES ASSUME NEW t \in Threads, thread[t] = "asleep", failures > 0
                 PROVE  begun[t] <= now /\ due[t] <= Max({now, failedAt}) + MaxBackoff
      BY <1>3 DEF Mend, RecoveryBounded, loop, cache
    <2>1. /\ now \in Nat /\ failedAt \in Nat /\ failedAt <= now /\ due[t] \in Nat
          /\ begun[t] \in 0..now
      BY ConstantsAreNat DEF TypeOK
    <2>2. due[t] <= failedAt + MaxBackoff
      BY DEF Serves
    <2> QED BY <2>1, <2>2, MaxOfTwo, ConstantsAreNat
  <1>4. CASE Join
    BY <1>4, ConstantsAreNat DEF Join, RecoveryBounded, Max, Threads, TypeOK, Serves, producer,
       loop, cache
  <1>5. CASE Tick
    BY <1>5, ConstantsAreNat DEF Tick, RecoveryBounded, Max, Threads, TypeOK, Serves, producer,
       loop, service, cache
  <1>6. ASSUME NEW t \in Threads, EndRead(t) PROVE RecoveryBounded'
    <2> SUFFICES ASSUME thread'[t] = "asleep", readable, failures' > 0
                 PROVE  /\ begun'[t] <= goodSince
                        /\ due'[t] <= Max({goodSince, failedAt'}) + MaxBackoff
      <3>1. UNCHANGED <<readable, goodSince>>
        BY <1>6 DEF EndRead, producer
      <3>2. \A u \in Threads \ {t} : thread'[u] # "asleep"
        BY <1>6 DEF EndRead, AfterRead, OneReader, Alive, TypeOK
      <3> QED BY <3>1, <3>2 DEF RecoveryBounded
    <2>1. goodSince >= begun[t] /\ failedAt' = now
      BY <1>6 DEF EndRead, Publish, RecordFailure
    <2>2. due'[t] = now + Delay /\ begun'[t] = begun[t]
      BY <1>6 DEF EndRead, AfterRead, TypeOK
    <2>3. failures' \in Nat
      BY <1>6 DEF EndRead, Publish, RecordFailure, TypeOK
    <2>4. Delay \in Nat /\ Delay <= MaxBackoff
      BY <2>3, DelayBounds
    <2>5. now \in Nat /\ goodSince \in Nat /\ begun[t] \in Nat
      BY ConstantsAreNat DEF TypeOK
    <2>6. Max({goodSince, now}) \in Nat /\ Max({goodSince, now}) >= now
      BY <2>5, MaxOfTwo
    <2> HIDE DEF Delay
    <2> QED BY <2>1, <2>2, <2>4, <2>5, <2>6, ConstantsAreNat
  <1>7. ASSUME NEW t \in Threads, Wake(t) PROVE RecoveryBounded'
    BY <1>7, ConstantsAreNat DEF Wake, BeginRead, RecoveryBounded, Max, Threads, TypeOK,
       Serves, producer, service, cache
  <1>8. ASSUME NEW t \in Threads, Ring(t) PROVE RecoveryBounded'
    BY <1>8, ConstantsAreNat DEF Ring, RecoveryBounded, Max, Threads, TypeOK, Serves, producer,
       service, cache
  <1>9. ASSUME NEW t \in Threads, Arm(t) PROVE RecoveryBounded'
    BY <1>9, ConstantsAreNat DEF Arm, BeginRead, RecoveryBounded, Max, Threads, TypeOK, Serves,
       producer, cache
  <1>10. ASSUME NEW t \in Threads, End(t) PROVE RecoveryBounded'
    BY <1>10, ConstantsAreNat DEF End, RecoveryBounded, Max, Threads, TypeOK, Serves, producer,
       cache
  <1>11. ASSUME NEW t \in Threads, Start(t) PROVE RecoveryBounded'
    BY <1>11, ConstantsAreNat DEF Start, RecoveryBounded, Max, Threads, TypeOK, Serves,
       producer, cache
  <1>12. ASSUME NEW t \in Threads, Collapse(t) PROVE RecoveryBounded'
    BY <1>12, ConstantsAreNat DEF Collapse, RecoveryBounded, Max, Threads, TypeOK, Serves,
       producer, service, cache
  <1>13. ASSUME NEW whole \in BOOLEAN, NEW delay \in {0, JoinDelay}, Stop(whole, delay)
     PROVE RecoveryBounded'
    BY <1>13, ConstantsAreNat DEF Stop, RecoveryBounded, Max, Threads, TypeOK, Serves,
       producer, cache
  <1>14. ASSUME NEW t \in Threads, Answer(t) PROVE RecoveryBounded'
    BY <1>14, ConstantsAreNat DEF Answer, RecoveryBounded, Max, Threads, TypeOK, Serves, Max,
       producer, service, cache
  <1>15. CASE UNCHANGED vars
    BY <1>15 DEF RecoveryBounded, Max, Threads, vars, producer, loop, service, cache
  <1> QED BY <1>1, <1>2, <1>3, <1>4, <1>5, <1>6, <1>7, <1>8, <1>9, <1>10, <1>11, <1>12,
     <1>13, <1>14, <1>15 DEF Next, Turn

\* While a stop is under way the thread is on its way to its end.
LEMMA StopUnderwayKept ==
  ASSUME TypeOK, OneReader, Serves, StopUnderway, [Next]_vars
  PROVE  StopUnderway'
  <1>1. ASSUME NEW shown \in SUBSET Events, NEW ahead \in 0..Drift, Announce(shown, ahead)
     PROVE StopUnderway'
    BY <1>1, ConstantsAreNat, JoinDelayBounds DEF Announce, StopUnderway, Asked, Alive,
       Running, Free, Nobody, Threads, TypeOK, OneReader, loop, service, cache
  <1>2. CASE Break
    BY <1>2, ConstantsAreNat, JoinDelayBounds DEF Break, StopUnderway, Asked, Alive,
       Running, Free, Nobody, Threads, TypeOK, OneReader, loop, service, cache
  <1>3. CASE Mend
    BY <1>3, ConstantsAreNat, JoinDelayBounds DEF Mend, StopUnderway, Asked, Alive,
       Running, Free, Nobody, Threads, TypeOK, OneReader, loop, service, cache
  <1>4. CASE Join
    BY <1>4, ConstantsAreNat, JoinDelayBounds DEF Join, StopUnderway, Asked, Alive,
       Running, Free, Nobody, Threads, TypeOK, OneReader, producer, loop, cache
  <1>5. CASE Tick
    BY <1>5, ConstantsAreNat, JoinDelayBounds DEF Tick, StopUnderway, Asked, Alive,
       Running, Free, Nobody, Threads, TypeOK, OneReader, producer, loop, service, cache
  <1>6. ASSUME NEW t \in Threads, EndRead(t) PROVE StopUnderway'
    <2>1. UNCHANGED <<now, caller, demand>> /\ Asked' = Asked
      BY <1>6 DEF EndRead, Asked, service
    <2> SUFFICES ASSUME caller.pc = "joining", caller.whole, NEW u \in Threads
                 PROVE  /\ thread'[u] = "starting" => demand
                        /\ thread'[u] \in {"reading", "asleep"} => bell'[u] \in {"rung", "on"}
                        /\ thread'[u] \in {"starting", "asleep"} => now <= Asked
                        /\ thread'[u] = "reading" =>
                             begun'[u] <= Asked /\ (bell'[u] = "rung" => now <= Asked)
                        /\ thread'[u] = "ending" => begun'[u] <= Asked
      BY <2>1 DEF StopUnderway
    <2>2. /\ thread[u] = "starting" => demand
          /\ thread[u] \in {"reading", "asleep"} => bell[u] \in {"rung", "on"}
          /\ thread[u] \in {"starting", "asleep"} => now <= Asked
          /\ thread[u] = "reading" =>
               begun[u] <= Asked /\ (bell[u] = "rung" => now <= Asked)
          /\ thread[u] = "ending" => begun[u] <= Asked
      BY DEF StopUnderway
    <2>3. u # t => /\ thread'[u] = thread[u] /\ begun'[u] = begun[u]
                   /\ bell'[u] = bell[u]
      BY <1>6 DEF EndRead, AfterRead, TypeOK
    <2>4. now \in Nat /\ begun[u] \in Nat /\ begun[u] <= now /\ Asked \in Int
      BY ConstantsAreNat, JoinDelayBounds DEF TypeOK, Asked
    <2>5. u = t => /\ thread[u] = "reading" /\ bell'[u] = bell[u]
                   /\ \/ bell[u] = "on" /\ thread'[u] = "ending" /\ begun'[u] = begun[u]
                      \/ bell[u] # "on" /\ thread'[u] = "asleep"
      BY <1>6 DEF EndRead, AfterRead, TypeOK
    <2> QED BY <2>2, <2>3, <2>4, <2>5
  <1>7. ASSUME NEW t \in Threads, Wake(t) PROVE StopUnderway'
    <2>1. UNCHANGED <<now, caller, demand>> /\ Asked' = Asked
      BY <1>7 DEF Wake, Asked, service
    <2> SUFFICES ASSUME caller.pc = "joining", caller.whole, NEW u \in Threads
                 PROVE  /\ thread'[u] = "starting" => demand
                        /\ thread'[u] \in {"reading", "asleep"} => bell'[u] \in {"rung", "on"}
                        /\ thread'[u] \in {"starting", "asleep"} => now <= Asked
                        /\ thread'[u] = "reading" =>
                             begun'[u] <= Asked /\ (bell'[u] = "rung" => now <= Asked)
                        /\ thread'[u] = "ending" => begun'[u] <= Asked
      BY <2>1 DEF StopUnderway
    <2>2. /\ thread[u] = "starting" => demand
          /\ thread[u] \in {"reading", "asleep"} => bell[u] \in {"rung", "on"}
          /\ thread[u] \in {"starting", "asleep"} => now <= Asked
          /\ thread[u] = "reading" =>
               begun[u] <= Asked /\ (bell[u] = "rung" => now <= Asked)
          /\ thread[u] = "ending" => begun[u] <= Asked
      BY DEF StopUnderway
    <2>3. u # t => /\ thread'[u] = thread[u] /\ begun'[u] = begun[u]
                   /\ bell'[u] = bell[u]
      BY <1>7 DEF Wake, BeginRead, TypeOK
    <2>4. now \in Nat /\ begun[u] \in Nat /\ begun[u] <= now /\ Asked \in Int
      BY ConstantsAreNat, JoinDelayBounds DEF TypeOK, Asked
    <2>5. u = t => /\ thread[u] = "asleep" /\ bell'[u] = bell[u]
                   /\ \/ /\ bell[u] = "on" /\ thread'[u] = "ending"
                         /\ begun'[u] = begun[u]
                      \/ thread'[u] = "reading" /\ begun'[u] = now
      BY <1>7 DEF Wake, BeginRead, TypeOK
    <2> QED BY <2>2, <2>3, <2>4, <2>5
  <1>8. ASSUME NEW t \in Threads, Ring(t) PROVE StopUnderway'
    BY <1>8, ConstantsAreNat, JoinDelayBounds DEF Ring, StopUnderway, Asked, Alive,
       Running, Free, Nobody, Threads, TypeOK, OneReader, producer, service, cache
  <1>9. ASSUME NEW t \in Threads, Arm(t) PROVE StopUnderway'
    <2>1. UNCHANGED <<now, caller, demand>> /\ Asked' = Asked
      BY <1>9 DEF Arm, Asked, service
    <2> SUFFICES ASSUME caller.pc = "joining", caller.whole, NEW u \in Threads
                 PROVE  /\ thread'[u] = "starting" => demand
                        /\ thread'[u] \in {"reading", "asleep"} => bell'[u] \in {"rung", "on"}
                        /\ thread'[u] \in {"starting", "asleep"} => now <= Asked
                        /\ thread'[u] = "reading" =>
                             begun'[u] <= Asked /\ (bell'[u] = "rung" => now <= Asked)
                        /\ thread'[u] = "ending" => begun'[u] <= Asked
      BY <2>1 DEF StopUnderway
    <2>2. /\ thread[u] = "starting" => demand
          /\ thread[u] \in {"reading", "asleep"} => bell[u] \in {"rung", "on"}
          /\ thread[u] \in {"starting", "asleep"} => now <= Asked
          /\ thread[u] = "reading" =>
               begun[u] <= Asked /\ (bell[u] = "rung" => now <= Asked)
          /\ thread[u] = "ending" => begun[u] <= Asked
      BY DEF StopUnderway
    <2>3. u # t => /\ thread'[u] = thread[u] /\ begun'[u] = begun[u]
                   /\ bell'[u] = bell[u]
      BY <1>9 DEF Arm, BeginRead, TypeOK
    <2>4. now \in Nat /\ begun[u] \in Nat /\ begun[u] <= now /\ Asked \in Int
      BY ConstantsAreNat, JoinDelayBounds DEF TypeOK, Asked
    <2>5. u = t => thread[u] = "starting"
      BY <1>9 DEF Arm
    <2>6. u = t /\ demand => thread'[u] = "ending" /\ begun'[u] = begun[u]
      BY <1>9 DEF Arm, TypeOK
    <2> QED BY <2>2, <2>3, <2>4, <2>5, <2>6
  <1>10. ASSUME NEW t \in Threads, Answer(t) PROVE StopUnderway'
    BY <1>10, ConstantsAreNat, JoinDelayBounds DEF Answer, StopUnderway, Asked, Alive,
       Running, Free, Nobody, Threads, TypeOK, OneReader, producer, service, cache
  <1>11. ASSUME NEW t \in Threads, End(t) PROVE StopUnderway'
    BY <1>11, ConstantsAreNat, JoinDelayBounds DEF End, StopUnderway, Asked, Alive,
       Running, Free, Nobody, Threads, TypeOK, OneReader, producer, cache
  <1>12. ASSUME NEW t \in Threads, Start(t) PROVE StopUnderway'
    BY <1>12, ConstantsAreNat, JoinDelayBounds DEF Start, StopUnderway, Asked, Alive,
       Running, Free, Nobody, Threads, TypeOK, OneReader, producer, cache
  <1>13. ASSUME NEW t \in Threads, Collapse(t) PROVE StopUnderway'
    BY <1>13, ConstantsAreNat, JoinDelayBounds DEF Collapse, StopUnderway, Asked, Alive,
       Running, Free, Nobody, Threads, TypeOK, OneReader, producer, service, cache
  <1>14. ASSUME NEW whole \in BOOLEAN, NEW delay \in {0, JoinDelay}, Stop(whole, delay)
     PROVE StopUnderway'
    <2> SUFFICES ASSUME caller'.pc = "joining", caller'.whole, NEW u \in Threads
                 PROVE  /\ thread[u] = "starting" => demand'
                        /\ thread[u] \in {"reading", "asleep"} => bell'[u] \in {"rung", "on"}
                        /\ now <= Asked' /\ begun[u] <= Asked'
      BY <1>14 DEF Stop, StopUnderway
    <2>1. caller.pc = "free" /\ caller' = [pc |-> "joining", until |-> now + delay, whole |-> whole]
      BY <1>14 DEF Stop, Free
    <2>2. delay = JoinDelay
      BY <1>14, <2>1 DEF Stop
    <2>3. now \in Nat /\ begun[u] \in 0..now
      BY ConstantsAreNat DEF TypeOK
    <2>4. caller'.until - JoinDelay = now
      BY <2>1, <2>2, <2>3, JoinDelayBounds
    <2>5. now <= Asked' /\ begun[u] <= Asked'
      BY <2>3, <2>4 DEF Asked
    <2>6. thread[u] \in {"reading", "asleep"} => armed = u
      BY DEF Serves
    <2>7. thread[u] \in {"reading", "asleep"} => bell'[u] \in {"rung", "on"}
      BY <1>14, <2>1, <2>6 DEF Stop, TypeOK
    <2> QED BY <1>14, <2>5, <2>7 DEF Stop
  <1>15. CASE UNCHANGED vars
    BY <1>15 DEF StopUnderway, Asked, vars, producer, loop, service, cache
  <1> QED BY <1>1, <1>2, <1>3, <1>4, <1>5, <1>6, <1>7, <1>8, <1>9, <1>10, <1>11, <1>12, <1>13, <1>14, <1>15
     DEF Next, Turn

\* The process has no thread and no calendar yet.
LEMMA InitIsSafe == Init => IInv
  <1> SUFFICES ASSUME Init PROVE IInv
    OBVIOUS
  <1>1. TypeOK
    <2>1. /\ now \in 0..MaxTime /\ newsAt \in 0..now /\ goodSince \in 0..now
          /\ failedAt \in 0..now /\ begun \in [Threads -> 0..now]
          /\ failures \in Nat /\ since \in [Events -> 0..Never]
      BY ConstantsAreNat DEF Init, Never
    <2>2. announced \in [at : Nat, events : SUBSET Events] /\ readable \in BOOLEAN
      BY ConstantsAreNat DEF Init
    <2>3. /\ thread \in [Threads -> {"unborn", "starting", "reading", "asleep", "ending", "dead"}]
          /\ due \in [Threads -> Nat]
          /\ draft \in [Threads -> Calendars] /\ calendar \in Calendars
          /\ bell \in [Threads -> {"off", "rung", "on"}]
      BY DEF Init, Calendars
    <2>4. /\ fil \in Threads \cup {Nobody} /\ armed \in Threads \cup {Nobody} /\ demand \in BOOLEAN
          /\ caller \in [pc : {"free", "joining"}, until : Nat, whole : BOOLEAN]
      BY DEF Init, Nobody, Free
    <2> QED BY <2>1, <2>2, <2>3, <2>4 DEF TypeOK
  <1>2. OneReader /\ Serves /\ RecoveryBounded /\ StopUnderway
    BY DEF Init, OneReader, Serves, RecoveryBounded, StopUnderway, Alive, Free, Nobody, Threads
  <1>3. NothingInvented
    BY ConstantsAreNat DEF Init, NothingInvented, Honest, Complete, None, Never
  <1> QED BY <1>1, <1>2, <1>3 DEF IInv

\* The macro service is sound in every state: one reader, no calendar that was not shown, and
\* a thread that serves, backs off and stops in time.
THEOREM FeedInvariance == Spec => []IInv
  <1>1. IInv /\ [Next]_vars => IInv'
    BY TypeOKKept, OneReaderKept, NothingInventedKept, ServesKept, RecoveryBoundedKept,
       StopUnderwayKept DEF IInv
  <1> QED BY InitIsSafe, <1>1, PTL DEF Spec

\* evaluate_macro_risk and the gate never pass an entry at a publication the producer has
\* shown for the length of the freshness limit, whatever fails or answers late.
THEOREM NoEntryIsBlind == Spec => []NoBlindEntry
  <1>1. IInv => NoBlindEntry
    <2> SUFFICES ASSUME IInv, NEW s \in Symbols, NEW e \in High,
                        Passes(s), since[e] + Drift + Ttl <= now,
                        Followed(s) = {} \/ Currency[e] \in Followed(s)
                 PROVE  /\ ~(now - After <= At[e] /\ At[e] <= now + Before)
                        /\ ~(now <= At[e] /\ At[e] <= now + Horizon)
      BY DEF NoBlindEntry
    <2>1. calendar # None /\ calendar.at >= now - Ttl /\ ~Frozen(s) /\ ~Imminent(s)
      BY ConstantsAreNat DEF Passes, Verdict, IInv, TypeOK, Calendars
    <2>2. e \in Events /\ since[e] \in Nat /\ now \in Nat
      BY MacroAssumption DEF IInv, TypeOK, Never
    <2>3. calendar.at \in Nat
      BY <2>1 DEF IInv, TypeOK, Calendars
    <2>4. since[e] + Drift <= calendar.at
      BY <2>1, <2>2, <2>3, ConstantsAreNat
    <2>5. e \in calendar.events
      BY <2>1, <2>2, <2>4 DEF IInv, NothingInvented, Honest, Complete
    <2>6. e \in Relevant(s)
      BY <2>5 DEF Relevant
    <2> QED BY <2>1, <2>6 DEF Frozen, Imminent
  <1> QED BY <1>1, FeedInvariance, PTL

\* A source that answers again is read again within max_backoff_s of its return, or of the end
\* of the one read that its return found under way (refresh_once, _delai_suivant).
THEOREM SourceIsReadAgain == Spec => []RecoveryBounded
  <1>1. IInv => RecoveryBounded
    BY DEF IInv
  <1> QED BY <1>1, FeedInvariance, PTL

\* stop, with its own delay (_delai_arret), returns with the thread ended, or in the read it
\* was in when stop was asked, which has then outlasted the budget.
THEOREM StopIsInTime == Spec => []StopInTime
  <1>1. IInv => StopInTime
    <2> SUFFICES ASSUME IInv, caller.pc = "joining", caller.whole, now >= caller.until,
                        NEW t \in Threads, Alive(t)
                 PROVE  /\ thread[t] \in {"reading", "ending"}
                        /\ begun[t] <= Asked
                        /\ now - begun[t] > Budget
      BY DEF StopInTime
    <2>1. now \in Nat /\ caller.until \in Nat /\ begun[t] \in Nat
      BY ConstantsAreNat DEF IInv, TypeOK
    <2>2. now > Asked + Budget /\ Asked \in Int
      BY <2>1, JoinDelayBounds, ConstantsAreNat DEF Asked
    <2>3. thread[t] \notin {"starting", "asleep"}
      BY <2>1, <2>2, ConstantsAreNat DEF IInv, StopUnderway
    <2>4. thread[t] \in {"reading", "ending"} /\ begun[t] <= Asked
      BY <2>3 DEF IInv, StopUnderway, Alive
    <2> QED BY <2>1, <2>2, <2>4, ConstantsAreNat
  <1> QED BY <1>1, FeedInvariance, PTL

=============================================================================
