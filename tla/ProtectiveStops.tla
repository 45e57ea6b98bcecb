--------------------------- MODULE ProtectiveStops ---------------------------
(***************************************************************************)
(* The stop and the adaptive exit of one open position, as the passes of   *)
(* position_manager.manage_once move them: what each pass remembers in     *)
(* positions.json, what it decides from a snapshot, and what the broker,   *)
(* the price and a dying process make of the request.                      *)
(*                                                                         *)
(* Prices are favourable ticks from the entry, which is 0: a long and a    *)
(* short look the same.  Thresholds are the percentages of ManageParams,   *)
(* so that levels are compared in hundredths of a tick, before rounding.   *)
(***************************************************************************)
EXTENDS Integers

CONSTANTS
    Prices,      \* levels the price visits
    Risk,        \* distance of the entry stop, in ticks
    Target,      \* take profit
    Spreads,     \* spreads a snapshot may show
    StopsLevel,  \* trade_stops_level of the symbol, in ticks
    Trailings,   \* settings of manage_trailing
    MaxMishaps   \* bound on crashes, failed saves and unreadable files

ASSUME StopsAssumption ==
    /\ Prices \subseteq Int
    /\ Risk \in Nat \ {0}
    /\ Target \in Nat
    /\ Spreads \subseteq Nat
    /\ StopsLevel \in Nat
    /\ Trailings \subseteq BOOLEAN
    /\ MaxMishaps \in Nat

VARIABLES
    price,       \* of the position, in favour
    sl,          \* its stop at the broker
    status,      \* of the position: open or closed
    trailing,    \* manage_trailing of this process
    file,        \* what positions.json holds of it
    mem,         \* what the pass holds of it
    pc,          \* idle, exit, stop or save
    target,      \* the stop to ask for
    lost,        \* a file or an adoption has been lost (history)
    mishaps      \* mishaps so far

broker == <<price, sl, status>>
vars   == <<broker, trailing, file, mem, pc, target, lost, mishaps>>

Track   == [r : Nat, phase : {"init", "breakeven", "trailing"}, peak : Nat]
NoTrack == [r |-> 0, phase |-> "init", peak |-> 0]

Larger(a, b)  == IF a > b THEN a ELSE b
Distance(x)   == IF x < 0 THEN -x ELSE x
Rounded(c)    == (c + 50) \div 100

(***************************************************************************)
(* Memory of a position.                                                   *)
(***************************************************************************)
NewTrack == [r |-> Distance(sl), phase |-> "init", peak |-> 0]

\* A position without memory is adopted: its R is the distance of the stop it has.
Adopted(t) == IF t.r = 0 THEN NewTrack ELSE t

\* Mutant: the latest level, not the best.
ExcursionLatest(t) == [t EXCEPT !.peak = Larger(0, price)]

Excursion(t) == [t EXCEPT !.peak = Larger(t.peak, price)]

(***************************************************************************)
(* decide_adaptive_exit: the floor rises with the peak.                    *)
(***************************************************************************)
Floor(t) == Larger(15 * t.r, Larger(35 * t.peak, 100 * t.peak - 60 * t.r))

GaveBack(t, p) == 100 * t.peak >= 80 * t.r /\ 100 * p <= Floor(t)

\* Mutant: a stop at breakeven is thought to be protection enough.
DemandsUnprotected(t) == GaveBack(t, price) /\ t.phase # "breakeven"

Demands(t) == GaveBack(t, price)

(***************************************************************************)
(* decide_new_sl.                                                          *)
(***************************************************************************)
Breaks(t) == t.phase = "init" /\ 100 * price >= 80 * t.r

TrailReached(t) == 100 * t.peak >= 120 * t.r

\* Mutant: the trail is placed once, like the breakeven.
TrailsOnce(t) == trailing /\ TrailReached(t) /\ t.phase # "trailing"

Trails(t) == trailing /\ TrailReached(t)

BreakevenStop(t, spread) == Larger(100 * spread, 5 * t.r)
TrailStop(t)             == 100 * t.peak - 80 * t.r

Candidates(t, spread) ==
    {c \in {BreakevenStop(t, spread)} : Breaks(t)} \cup {c \in {TrailStop(t)} : Trails(t)}

PhaseAfter(t) ==
    CASE Trails(t) -> "trailing"
      [] ~Trails(t) /\ Breaks(t) -> "breakeven"
      [] OTHER -> t.phase

Clearance(spread) == 120 * Larger(StopsLevel, spread)

\* Mutant: the better side of the current stop is not checked.
PlaceableAnySide(c, spread) ==
    100 * price - c >= Clearance(spread) /\ 100 * price > c

\* Never wider, never too near the price, never beyond it.
Placeable(c, spread) ==
    /\ c > 100 * sl
    /\ 100 * price - c >= Clearance(spread)
    /\ 100 * price > c

\* The stop to ask for: at most one, the better candidate if it may be placed.
NewStops(t, spread) ==
    {Rounded(c) : c \in {b \in Candidates(t, spread) :
        (\A d \in Candidates(t, spread) : b >= d) /\ Placeable(b, spread)}}

-----------------------------------------------------------------------------
Init ==
    /\ price = 0 /\ sl = -Risk /\ status = "open"
    /\ trailing \in Trailings
    /\ file \in {NoTrack, [NoTrack EXCEPT !.r = Risk]}
    /\ mem = NoTrack
    /\ pc = "idle" /\ target = 0
    /\ lost = FALSE /\ mishaps = 0

(***************************************************************************)
(* The market: the broker closes the position at its stop or its target.   *)
(***************************************************************************)
Quote(p) ==
    /\ status = "open" /\ p # price
    /\ price' = p
    /\ status' = IF p <= sl \/ p >= Target THEN "closed" ELSE "open"
    /\ UNCHANGED <<sl, trailing, file, mem, pc, target, lost, mishaps>>

(***************************************************************************)
(* A pass: t is what load_state returns of the position.  An exit wanted   *)
(* for another reason (weekend, fear, basket) is asked for in the same     *)
(* way, and an exit asked for leaves the stop alone, whatever the answer.  *)
(* The phase changes with the decision, before the stop has moved.         *)
(***************************************************************************)
Decide(t, spread, other) ==
    LET tracked == Excursion(t)
        stops   == NewStops(tracked, spread)
    IN  IF Demands(tracked) \/ other
        THEN pc' = "exit" /\ mem' = tracked /\ target' = 0
        ELSE /\ mem' = [tracked EXCEPT !.phase = PhaseAfter(tracked)]
             /\ \/ pc' = "stop" /\ target' \in stops
                \/ pc' = "save" /\ target' = 0 /\ stops = {}

Pass(loaded) ==
    /\ status = "open" /\ pc = "idle"
    /\ \E spread \in Spreads, other \in BOOLEAN :
          IF Adopted(loaded).r = 0
          THEN pc' = "save" /\ mem' = NoTrack /\ target' = 0
          ELSE Decide(Adopted(loaded), spread, other)
    /\ UNCHANGED <<broker, trailing, file>>

BeginPass == Pass(file) /\ UNCHANGED <<lost, mishaps>>

\* positions.json does not load: every position in it is adopted as if it were new.
BeginUnreadable ==
    /\ mishaps < MaxMishaps /\ mishaps' = mishaps + 1
    /\ Pass(NoTrack)
    /\ lost' = TRUE

(***************************************************************************)
(* The broker's answers.                                                   *)
(***************************************************************************)
ExitExecuted ==
    /\ pc = "exit" /\ status = "open"
    /\ status' = "closed" /\ pc' = "save"
    /\ UNCHANGED <<price, sl, trailing, file, mem, target, lost, mishaps>>

\* Refused, executed in part, or too late.
ExitNotDone ==
    /\ pc = "exit" /\ pc' = "save"
    /\ UNCHANGED <<broker, trailing, file, mem, target, lost, mishaps>>

StopMoved ==
    /\ pc = "stop" /\ status = "open"
    /\ target # sl /\ target < price
    /\ sl' = target /\ pc' = "save"
    /\ UNCHANGED <<price, status, trailing, file, mem, target, lost, mishaps>>

StopRefused ==
    /\ pc = "stop" /\ pc' = "save"
    /\ UNCHANGED <<broker, trailing, file, mem, target, lost, mishaps>>

(***************************************************************************)
(* The end of a pass, and what may prevent it.                             *)
(***************************************************************************)
Save ==
    /\ pc = "save"
    /\ file' = mem
    /\ pc' = "idle" /\ mem' = NoTrack /\ target' = 0
    /\ UNCHANGED <<broker, trailing, lost, mishaps>>

Forget ==
    /\ mishaps < MaxMishaps /\ mishaps' = mishaps + 1
    /\ lost' = (lost \/ (file = NoTrack /\ mem # NoTrack))
    /\ pc' = "idle" /\ mem' = NoTrack /\ target' = 0
    /\ UNCHANGED <<broker, trailing, file>>

SaveFails == pc = "save" /\ Forget
Crash     == pc # "idle" /\ Forget

Next ==
    \/ \E p \in Prices : Quote(p)
    \/ BeginPass \/ BeginUnreadable
    \/ ExitExecuted \/ ExitNotDone
    \/ StopMoved \/ StopRefused
    \/ Save \/ SaveFails \/ Crash

(***************************************************************************)
(* The loop keeps passing, and the broker does not refuse for ever what it *)
(* is asked again and again.                                               *)
(***************************************************************************)
Fairness ==
    /\ WF_vars(BeginPass)
    /\ WF_vars(ExitExecuted \/ ExitNotDone \/ StopMoved \/ StopRefused)
    /\ WF_vars(Save)
    /\ SF_vars(ExitExecuted)
    /\ SF_vars(StopMoved)

Spec     == Init /\ [][Next]_vars
FairSpec == Spec /\ Fairness

-----------------------------------------------------------------------------
TypeOK ==
    /\ price \in Int /\ sl \in Int /\ target \in Int
    /\ status \in {"open", "closed"}
    /\ trailing \in BOOLEAN /\ lost \in BOOLEAN
    /\ file \in Track /\ mem \in Track
    /\ pc \in {"idle", "exit", "stop", "save"}
    /\ mishaps \in 0..MaxMishaps

(* The stop never moves against the position, whatever has been forgotten,  *)
(* re-adopted or refused in between: the first of the safety invariants of  *)
(* position_manager.                                                        *)
NeverWidens == [][sl' >= sl]_vars

(* R is the distance of the entry stop for as long as the position is       *)
(* followed: no pass measures it from a stop that has moved (TrackedState). *)
(* It takes a lost file, or a lost adoption, to measure it again.           *)
FrozenR == ~lost => \A t \in {file, mem} : t # NoTrack => t.r = Risk

(* What positions.json remembers is a ratchet: a pass lost before its save  *)
(* loses what it saw, but nothing older, and only a file that did not load  *)
(* makes the best level or the phase of a position go back.                 *)
Rank(phase) ==
    CASE phase = "init" -> 0 [] phase = "breakeven" -> 1 [] phase = "trailing" -> 2
MemoryIsRatchet ==
    [][~lost => file'.peak >= file.peak /\ Rank(file'.phase) >= Rank(file.phase)]_vars

(* What protects a position only tightens: its stop, and what is remembered  *)
(* of it for the next stop.                                                 *)
OnlyTightens == NeverWidens /\ MemoryIsRatchet

(* The inductive invariant: with the types and FrozenR, a stop about to be  *)
(* asked for improves on the one in place; a stop nobody remembers is the   *)
(* one of the entry, until an adoption is lost; and what a pass holds is    *)
(* never behind what the file holds.                                        *)
Untouched    == ~lost /\ file = NoTrack /\ mem = NoTrack => sl = -Risk
Improves     == pc = "stop" => target >= sl
Held         == pc = "idle" => mem = NoTrack
NeverBehind  ==
    ~lost /\ pc # "idle" =>
        mem # NoTrack /\ mem.peak >= file.peak /\ Rank(mem.phase) >= Rank(file.phase)
IInv == TypeOK /\ FrozenR /\ Untouched /\ Improves /\ Held /\ NeverBehind

(* An armed position whose price stays at or below its floor is closed, by  *)
(* however many refusals, partial executions or lost passes in between      *)
(* (decide_adaptive_exit, asked for again by every pass).                   *)
GivenBack   == status = "open" /\ file.r > 0 /\ GaveBack(file, price)
ExitFollows == []<>~GivenBack

(* The stop catches up with the trail: it does not stay behind the best     *)
(* level remembered while it could be placed, even if a move was refused.   *)
BehindTrail ==
    /\ status = "open" /\ file.r > 0 /\ trailing /\ TrailReached(file)
    /\ Rounded(TrailStop(file)) > sl
    /\ \A spread \in Spreads : Placeable(TrailStop(file), spread)
TrailFollows == []<>~BehindTrail

(* From +breakeven_r in favour, the stop is moved to the entry plus a       *)
(* buffer: it does not stay on the losing side while it could be moved      *)
(* (the header of position_manager).                                        *)
Unprotected ==
    /\ status = "open" /\ file.r > 0 /\ 100 * price >= 80 * file.r
    /\ sl < 0
    /\ \A spread \in Spreads : Placeable(BreakevenStop(file, spread), spread)
BreakevenFollows == []<>~Unprotected

=============================================================================
