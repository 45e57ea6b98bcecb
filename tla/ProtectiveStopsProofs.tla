------------------------ MODULE ProtectiveStopsProofs ------------------------
(***************************************************************************)
(* Proofs about ProtectiveStops: for every set of prices, risk, spread and *)
(* stops level, and however many mishaps, the stop never moves against the *)
(* position, R stays the risk of the entry while the position is followed, *)
(* and the file is a ratchet.                                              *)
(***************************************************************************)
EXTENDS ProtectiveStops, TLAPS

Phases == {"init", "breakeven", "trailing"}

(***************************************************************************)
(* Lemmas about the decisions.                                             *)
(***************************************************************************)

\* Rounding to a tick does not undo an improvement on a stop that is on a tick.
LEMMA RoundingKeeps ==
    ASSUME NEW c \in Int, NEW s \in Int, c > 100 * s
    PROVE  Rounded(c) \in Int /\ Rounded(c) >= s
  BY DEF Rounded

\* Adoption gives a track whose R is that of the file, or the distance of the stop.
LEMMA AdoptedTrack ==
    ASSUME NEW t \in Track, sl \in Int
    PROVE  /\ Adopted(t) \in Track
           /\ t.r # 0 => Adopted(t) = t
           /\ t.r = 0 => Adopted(t) = [r |-> Distance(sl), phase |-> "init", peak |-> 0]
           /\ Distance(sl) \in Nat
  <1>1. Distance(sl) \in Nat
    BY DEF Distance
  <1>2. NewTrack \in Track
    BY <1>1 DEF NewTrack, Track
  <1> QED
    BY <1>1, <1>2 DEF Adopted, NewTrack

\* The excursion only raises the peak.
LEMMA ExcursionTrack ==
    ASSUME NEW t \in Track, price \in Int
    PROVE  /\ Excursion(t) \in Track
           /\ Excursion(t).r = t.r
           /\ Excursion(t).phase = t.phase
           /\ Excursion(t).peak >= t.peak
  <1>1. Larger(t.peak, price) \in Nat /\ Larger(t.peak, price) >= t.peak
    BY DEF Larger, Track
  <1> QED
    BY <1>1 DEF Excursion, Track

\* Every stop a decision asks for improves on the current one.
LEMMA NewStopsImprove ==
    ASSUME NEW t \in Track, NEW spread \in Nat, sl \in Int, NEW n \in NewStops(t, spread)
    PROVE  n \in Int /\ n >= sl
  <1>1. BreakevenStop(t, spread) \in Int /\ TrailStop(t) \in Int
    BY DEF BreakevenStop, TrailStop, Larger, Track
  <1>2. PICK c \in Candidates(t, spread) : Placeable(c, spread) /\ n = Rounded(c)
    BY DEF NewStops
  <1>3. c \in Int
    BY <1>1, <1>2 DEF Candidates
  <1>4. c > 100 * sl
    BY <1>2 DEF Placeable
  <1> QED
    BY <1>2, <1>3, <1>4, RoundingKeeps

\* The phase goes forward.
LEMMA PhaseForward ==
    ASSUME NEW t \in Track
    PROVE  PhaseAfter(t) \in Phases /\ Rank(PhaseAfter(t)) >= Rank(t.phase)
  <1>1. t.phase \in Phases
    BY DEF Track, Phases
  <1>2. CASE Trails(t)
    <2>1. PhaseAfter(t) = "trailing"
      BY <1>2 DEF PhaseAfter
    <2> QED
      BY <1>1, <2>1 DEF Phases, Rank
  <1>3. CASE ~Trails(t) /\ Breaks(t)
    <2>1. PhaseAfter(t) = "breakeven" /\ t.phase = "init"
      BY <1>3 DEF PhaseAfter, Breaks
    <2> QED
      BY <2>1 DEF Phases, Rank
  <1>4. CASE ~Trails(t) /\ ~Breaks(t)
    <2>1. PhaseAfter(t) = t.phase
      BY <1>4 DEF PhaseAfter
    <2> QED
      BY <1>1, <2>1 DEF Phases, Rank
  <1> QED
    BY <1>2, <1>3, <1>4

\* What a pass holds after its decision: the track it loaded, further on.
LEMMA PassHolds ==
    ASSUME StopsAssumption, TypeOK, NEW loaded \in Track, Pass(loaded)
    PROVE  /\ mem' \in Track /\ target' \in Int
           /\ pc' \in {"exit", "stop", "save"}
           /\ pc' = "stop" => target' >= sl
           /\ Adopted(loaded).r # 0
                => /\ mem'.r = Adopted(loaded).r
                   /\ mem'.peak >= Adopted(loaded).peak
                   /\ Rank(mem'.phase) >= Rank(Adopted(loaded).phase)
  <1>1. PICK spread \in Spreads, other \in BOOLEAN :
            IF Adopted(loaded).r = 0
            THEN pc' = "save" /\ mem' = NoTrack /\ target' = 0
            ELSE Decide(Adopted(loaded), spread, other)
    BY DEF Pass
  <1>2. spread \in Nat /\ sl \in Int /\ price \in Int
    BY DEF StopsAssumption, TypeOK
  <1>3. CASE Adopted(loaded).r = 0
    BY <1>1, <1>3 DEF NoTrack, Track
  <1>4. CASE Adopted(loaded).r # 0
    <2> DEFINE a == Adopted(loaded)
               e == Excursion(a)
               p == [e EXCEPT !.phase = PhaseAfter(e)]
    <2>1. a \in Track
      BY <1>2, AdoptedTrack
    <2>2. e \in Track /\ e.r = a.r /\ e.phase = a.phase /\ e.peak >= a.peak
      BY <1>2, <2>1, ExcursionTrack
    <2>3. PhaseAfter(e) \in Phases /\ Rank(PhaseAfter(e)) >= Rank(e.phase)
      BY <2>2, PhaseForward
    <2>4. Rank(a.phase) \in Int
      BY <2>1 DEF Track, Rank
    <2>5. p \in Track /\ p.r = e.r /\ p.peak = e.peak /\ p.phase = PhaseAfter(e)
      BY <2>2, <2>3 DEF Track, Phases
    <2>6. \/ pc' = "exit" /\ mem' = e /\ target' = 0
          \/ mem' = p /\ pc' = "stop" /\ target' \in NewStops(e, spread)
          \/ mem' = p /\ pc' = "save" /\ target' = 0
      BY <1>1, <1>4 DEF Decide
    <2>7. \A n \in NewStops(e, spread) : n \in Int /\ n >= sl
      BY <1>2, <2>2, NewStopsImprove
    <2> HIDE DEF a, e, p
    <2> QED
      BY <1>2, <2>2, <2>3, <2>4, <2>5, <2>6, <2>7 DEF a
  <1> QED
    BY <1>3, <1>4

(***************************************************************************)
(* The invariant.                                                          *)
(***************************************************************************)
LEMMA NoTrackIsTrack == NoTrack \in Track /\ NoTrack.r = 0
  BY DEF NoTrack, Track

LEMMA InitIInv == ASSUME StopsAssumption PROVE Init => IInv
  <1> SUFFICES ASSUME Init PROVE IInv
    OBVIOUS
  <1>1. file \in Track /\ mem = NoTrack
    BY DEF Init, NoTrack, Track, StopsAssumption
  <1>2. TypeOK
    <2>1. trailing \in BOOLEAN /\ lost \in BOOLEAN
      BY Zenon DEF Init, StopsAssumption
    <2>2. /\ price \in Int /\ sl \in Int /\ target \in Int
          /\ mishaps \in 0..MaxMishaps
      BY DEF Init, StopsAssumption
    <2>3. status \in {"open", "closed"} /\ pc \in {"idle", "exit", "stop", "save"}
      BY DEF Init
    <2> QED
      BY <1>1, <2>1, <2>2, <2>3, NoTrackIsTrack DEF TypeOK
  <1>3. FrozenR
    BY DEF Init, FrozenR, NoTrack
  <1>4. Untouched /\ Improves /\ Held /\ NeverBehind
    BY DEF Init, Untouched, Improves, Held, NeverBehind
  <1> QED
    BY <1>2, <1>3, <1>4 DEF IInv

\* A pass that loaded the file keeps the invariant.
LEMMA BeginPassKeeps ==
    ASSUME StopsAssumption, IInv, BeginPass
    PROVE  IInv'
  <1>1. /\ TypeOK /\ Pass(file) /\ pc = "idle" /\ mem = NoTrack /\ file \in Track
        /\ sl \in Int /\ Risk \in Nat \ {0}
        /\ UNCHANGED <<price, sl, status, trailing, file, lost, mishaps>>
    BY DEF IInv, TypeOK, Held, BeginPass, Pass, broker, StopsAssumption
  <1>2. /\ mem' \in Track /\ target' \in Int
        /\ pc' \in {"exit", "stop", "save"}
        /\ pc' = "stop" => target' >= sl
        /\ Adopted(file).r # 0
             => /\ mem'.r = Adopted(file).r
                /\ mem'.peak >= Adopted(file).peak
                /\ Rank(mem'.phase) >= Rank(Adopted(file).phase)
    BY <1>1, PassHolds
  <1>3. TypeOK'
    BY <1>1, <1>2 DEF TypeOK
  <1>4. ASSUME ~lost
        PROVE  /\ Adopted(file).r = Risk
               /\ Adopted(file).peak >= file.peak
               /\ Rank(Adopted(file).phase) >= Rank(file.phase)
    <2>1. CASE file = NoTrack
      <3>1. sl = -Risk
        BY <1>1, <1>4, <2>1 DEF IInv, Untouched
      <3>2. Distance(sl) = Risk
        BY <1>1, <3>1 DEF Distance
      <3>3. Adopted(file) = [r |-> Risk, phase |-> "init", peak |-> 0]
        BY <1>1, <2>1, <3>2, AdoptedTrack, NoTrackIsTrack
      <3> QED
        BY <2>1, <3>3 DEF NoTrack, Rank
    <2>2. CASE file # NoTrack
      <3>1. file.r = Risk
        BY <1>4, <2>2 DEF IInv, FrozenR
      <3>2. Adopted(file) = file
        BY <1>1, <3>1, AdoptedTrack
      <3>3. Rank(file.phase) \in Int /\ file.peak \in Int
        BY <1>1 DEF Track, Rank
      <3> QED
        BY <3>1, <3>2, <3>3
    <2> QED
      BY <2>1, <2>2
  <1>5. ASSUME ~lost
        PROVE  /\ mem' # NoTrack /\ mem'.r = Risk
               /\ mem'.peak >= file.peak
               /\ Rank(mem'.phase) >= Rank(file.phase)
    <2>1. Adopted(file) \in Track
      BY <1>1, AdoptedTrack
    <2>2. /\ Adopted(file).peak \in Int /\ file.peak \in Int /\ mem'.peak \in Int
          /\ Rank(Adopted(file).phase) \in Int /\ Rank(file.phase) \in Int
          /\ Rank(mem'.phase) \in Int
      BY <1>1, <1>2, <2>1 DEF Track, Rank
    <2>3. /\ Adopted(file).r = Risk
          /\ Adopted(file).peak >= file.peak
          /\ Rank(Adopted(file).phase) >= Rank(file.phase)
      BY <1>4, <1>5
    <2> QED
      BY <1>1, <1>2, <2>2, <2>3, NoTrackIsTrack
  <1>6. FrozenR'
    BY <1>1, <1>5 DEF IInv, FrozenR
  <1>7. Untouched' /\ Improves' /\ Held' /\ NeverBehind'
    BY <1>1, <1>2, <1>5 DEF Untouched, Improves, Held, NeverBehind
  <1> QED
    BY <1>3, <1>6, <1>7 DEF IInv

\* A pass that did not load it is a loss, after which little is promised.
LEMMA BeginUnreadableKeeps ==
    ASSUME StopsAssumption, IInv, BeginUnreadable
    PROVE  IInv'
  <1>1. /\ TypeOK /\ Pass(NoTrack) /\ lost' = TRUE
        /\ mishaps' \in 0..MaxMishaps
        /\ UNCHANGED <<price, sl, status, trailing, file>>
    BY DEF IInv, TypeOK, BeginUnreadable, Pass, broker, StopsAssumption
  <1>2. /\ mem' \in Track /\ target' \in Int
        /\ pc' \in {"exit", "stop", "save"}
        /\ pc' = "stop" => target' >= sl
    BY <1>1, PassHolds, NoTrackIsTrack
  <1>3. TypeOK'
    BY <1>1, <1>2 DEF TypeOK
  <1>4. FrozenR' /\ Untouched' /\ Improves' /\ Held' /\ NeverBehind'
    BY <1>1, <1>2 DEF FrozenR, Untouched, Improves, Held, NeverBehind
  <1> QED
    BY <1>3, <1>4 DEF IInv

\* The market moves nothing the invariant relates.
LEMMA QuoteKeeps ==
    ASSUME StopsAssumption, IInv, NEW p \in Prices, Quote(p)
    PROVE  IInv'
  <1>1. TypeOK'
    BY DEF IInv, TypeOK, Quote, StopsAssumption
  <1>2. UNCHANGED <<sl, file, mem, pc, target, lost>>
    BY DEF Quote
  <1>3. FrozenR' /\ Untouched' /\ Improves' /\ Held' /\ NeverBehind'
    BY <1>2 DEF IInv, FrozenR, Untouched, Improves, Held, NeverBehind
  <1> QED
    BY <1>1, <1>3 DEF IInv

\* Whatever the broker answers, the pass goes on with what it holds.
LEMMA AnswersKeep ==
    ASSUME IInv, ExitExecuted \/ ExitNotDone \/ StopMoved \/ StopRefused
    PROVE  IInv'
  <1>1. /\ UNCHANGED <<price, trailing, file, mem, target, lost, mishaps>>
        /\ pc # "idle" /\ pc' = "save"
        /\ status' \in {"open", "closed"} /\ sl' \in Int
        /\ sl' = sl \/ pc = "stop"
    BY DEF IInv, TypeOK, ExitExecuted, ExitNotDone, StopMoved, StopRefused, broker
  <1>2. TypeOK'
    BY <1>1 DEF IInv, TypeOK
  <1>3. Untouched'
    BY <1>1 DEF IInv, Untouched, NeverBehind
  <1>4. FrozenR' /\ Improves' /\ Held' /\ NeverBehind'
    BY <1>1 DEF IInv, FrozenR, Improves, Held, NeverBehind
  <1> QED
    BY <1>2, <1>3, <1>4 DEF IInv

LEMMA SaveKeeps ==
    ASSUME IInv, Save
    PROVE  IInv'
  <1>1. /\ pc = "save" /\ pc' = "idle" /\ file' = mem /\ mem' = NoTrack /\ target' = 0
        /\ UNCHANGED <<price, sl, status, trailing, lost, mishaps>>
    BY DEF Save, broker
  <1>2. TypeOK'
    BY <1>1, NoTrackIsTrack DEF IInv, TypeOK
  <1>3. FrozenR'
    BY <1>1 DEF IInv, FrozenR
  <1>4. Untouched'
    BY <1>1 DEF IInv, Untouched, NeverBehind
  <1>5. Improves' /\ Held' /\ NeverBehind'
    BY <1>1 DEF Improves, Held, NeverBehind
  <1> QED
    BY <1>2, <1>3, <1>4, <1>5 DEF IInv

LEMMA ForgetKeeps ==
    ASSUME StopsAssumption, IInv, Forget
    PROVE  IInv'
  <1>1. /\ lost' = (lost \/ (file = NoTrack /\ mem # NoTrack))
        /\ pc' = "idle" /\ mem' = NoTrack /\ target' = 0
        /\ mishaps' \in 0..MaxMishaps
        /\ UNCHANGED <<price, sl, status, trailing, file>>
    BY DEF Forget, broker, IInv, TypeOK, StopsAssumption
  <1>2. TypeOK'
    BY <1>1, NoTrackIsTrack DEF IInv, TypeOK
  <1>3. FrozenR'
    BY <1>1 DEF IInv, FrozenR
  <1>4. Untouched'
    BY <1>1 DEF IInv, Untouched
  <1>5. Improves' /\ Held' /\ NeverBehind'
    BY <1>1 DEF Improves, Held, NeverBehind
  <1> QED
    BY <1>2, <1>3, <1>4, <1>5 DEF IInv

\* The invariant is inductive, for every value of the constants.
THEOREM StopsInvariance ==
    ASSUME StopsAssumption
    PROVE  Spec => []IInv
  <1>1. Init => IInv
    BY InitIInv
  <1>2. IInv /\ [Next]_vars => IInv'
    <2> SUFFICES ASSUME IInv, [Next]_vars PROVE IInv'
      OBVIOUS
    <2>1. ASSUME NEW p \in Prices, Quote(p) PROVE IInv'
      BY <2>1, QuoteKeeps
    <2>2. CASE BeginPass
      BY <2>2, BeginPassKeeps
    <2>3. CASE BeginUnreadable
      BY <2>3, BeginUnreadableKeeps
    <2>4. CASE ExitExecuted \/ ExitNotDone \/ StopMoved \/ StopRefused
      BY <2>4, AnswersKeep
    <2>5. CASE Save
      BY <2>5, SaveKeeps
    <2>6. CASE SaveFails \/ Crash
      BY <2>6, ForgetKeeps DEF SaveFails, Crash
    <2>7. CASE UNCHANGED vars
      BY <2>7 DEF vars, broker, IInv, TypeOK, FrozenR, Untouched, Improves, Held, NeverBehind
    <2> QED
      BY <2>1, <2>2, <2>3, <2>4, <2>5, <2>6, <2>7 DEF Next
  <1> QED
    BY <1>1, <1>2, PTL DEF Spec

\* R is never measured from a stop that has moved, while the position is followed.
THEOREM RIsFrozen ==
    ASSUME StopsAssumption
    PROVE  Spec => []FrozenR
  <1>1. IInv => FrozenR
    BY DEF IInv
  <1> QED
    BY <1>1, StopsInvariance, PTL

\* The stop never moves against the position: its only move is to the target of a pass,
\* which improved on the stop the pass saw, and nothing else moved it since.
THEOREM StopNeverWidens ==
    ASSUME StopsAssumption
    PROVE  Spec => NeverWidens
  <1>1. IInv /\ [Next]_vars => [sl' >= sl]_vars
    <2> SUFFICES ASSUME IInv, Next PROVE sl' >= sl
      OBVIOUS
    <2>1. sl \in Int
      BY DEF IInv, TypeOK
    <2>2. CASE StopMoved
      BY <2>2 DEF StopMoved, IInv, Improves
    <2>3. CASE ~StopMoved
      <3>1. sl' = sl
        BY <2>3 DEF Next, Quote, BeginPass, BeginUnreadable, Pass, ExitExecuted, ExitNotDone,
                    StopRefused, Save, SaveFails, Crash, Forget, broker
      <3> QED
        BY <2>1, <3>1
    <2> QED
      BY <2>2, <2>3
  <1> QED
    BY <1>1, StopsInvariance, PTL DEF Spec, NeverWidens

\* Neither the best level nor the phase in the file goes back, short of a lost file.
THEOREM FileIsRatchet ==
    ASSUME StopsAssumption
    PROVE  Spec => MemoryIsRatchet
  <1> DEFINE Ahead == file'.peak >= file.peak /\ Rank(file'.phase) >= Rank(file.phase)
  <1>1. IInv /\ [Next]_vars => [~lost => Ahead]_vars
    <2> SUFFICES ASSUME IInv, Next, ~lost PROVE Ahead
      OBVIOUS
    <2>1. file \in Track
      BY DEF IInv, TypeOK
    <2>2. CASE Save
      BY <2>2 DEF Save, IInv, NeverBehind
    <2>3. CASE ~Save
      <3>1. file' = file
        BY <2>3 DEF Next, Quote, BeginPass, BeginUnreadable, Pass, ExitExecuted, ExitNotDone,
                    StopMoved, StopRefused, SaveFails, Crash, Forget
      <3>2. file.peak \in Int /\ Rank(file.phase) \in Int
        BY <2>1 DEF Track, Rank
      <3> QED
        BY <3>1, <3>2
    <2> QED
      BY <2>2, <2>3
  <1> QED
    BY <1>1, StopsInvariance, PTL DEF Spec, MemoryIsRatchet

\* What protects a position only tightens: its stop at the broker, and what the file
\* remembers of it for the next stop.
THEOREM ProtectionOnlyTightens ==
    ASSUME StopsAssumption
    PROVE  Spec => OnlyTightens
  BY StopNeverWidens, FileIsRatchet DEF OnlyTightens

=============================================================================
