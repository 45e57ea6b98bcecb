------------------------------ MODULE ManagedBook ------------------------------
(***************************************************************************)
(* The positions of one symbol, outside crypto, between the two stages of  *)
(* a turn of tools/live_demo.py that add to them and take from them:       *)
(*                                                                         *)
(*  - manage_once (titanium/execution/position_manager.py) closes a basket *)
(*    of positions that gives its advantage back (micro_basket.py), and    *)
(*    everything before the weekly close (weekend_flat.py);                *)
(*  - the entries of tour refuse what the window, the positions read at    *)
(*    the start of the turn or the risk of the symbol forbid.              *)
(*                                                                         *)
(* Prices, distances and results of a position are in steps of the broker  *)
(* and stops are StopDistance away, so one R is StopDistance steps; the    *)
(* aggregate of a basket is in sixths of a step, which is exact as long as *)
(* its risk is at most 3.  The adaptive exit of a single position, the     *)
(* move of its stop and the journaling of its end are the subjects of      *)
(* ProtectiveStops and ClosureJournal: here a position may close at any    *)
(* time.                                                                   *)
(***************************************************************************)
EXTENDS Integers, FiniteSets

CONSTANTS
    MaxPrice,       \* bound on the price
    Sizes,          \* the risks an entry can be sized to
    MaxPerSymbol,   \* MAX_PAR_SYMBOLE
    Cap,            \* MAX_RISQUE_PANIER_PCT
    Gap,            \* the improvement an entry on the same side must bring
    Arm,            \* of BasketParams, in sixths of a step
    Lock,
    Giveback,
    Retention,      \* in hundredths
    MaxMishaps      \* bound on crashes, failed reads and writes, and refusals

ASSUME BookAssumption ==
    /\ MaxPrice \in Nat /\ MaxPerSymbol \in Nat \ {0} /\ Cap \in Nat
    /\ Sizes \subseteq Nat \ {0}
    /\ Gap \in Nat \ {0}
    /\ Arm \in Nat /\ Lock \in Nat /\ Giveback \in Nat \ {0}
    /\ Retention \in 0..100
    /\ MaxMishaps \in Nat

Prices == 0..MaxPrice
Sides  == {1, -1}
\* Positions that are alike have different numbers; one number more than may be open, so
\* that an excess would show.
Numbers == 1..(MaxPerSymbol + 1)
Positions == [number : Numbers, side : Sides, entry : Prices, risk : Sizes]
Offers == [side : Sides, price : Prices, risk : Sizes]

VARIABLES
    (* the broker *)
    phase,      \* of the week
    price,
    book,       \* positions open
    (* files *)
    untracked,  \* open positions that positions.json misses
    peak,       \* of the symbol in micro_baskets.json, 0 when it has none
    (* memory of a turn *)
    pc,         \* where it is
    seen,       \* the positions it read first
    legible,    \* whether it could measure the risk of each
    clock,      \* the phase the entries read, or Unreadable
    offer,      \* the entry decided and not yet sent, and the price it was decided on
    (* history *)
    blind,      \* positions entered in the window by a turn whose clock did not say so
    swept,      \* how the window's passes went, before the close
    mishaps     \* mishaps so far

broker  == <<phase, price, book>>
files   == <<untracked, peak>>
turn    == <<pc, seen, legible, clock, offer>>
history == <<blind, swept, mishaps>>
vars    == <<broker, files, turn, history>>

(***************************************************************************)
(* The week.  The window of WeekendFlatParams opens while the market still *)
(* trades and ends after it trades again; the last tick is fresh for       *)
(* RETARD_MAX_MIN after the close.                                         *)
(***************************************************************************)
After == [week   |-> "friday",
          friday |-> "closed",
          closed |-> "asleep",
          asleep |-> "monday",
          monday |-> "week"]

Phases == DOMAIN After

\* Mutant: start <= now < end, though the window goes round the week.
InWindowBetween == {}

\* dans_fenetre
InWindow == Phases \ {"week"}

Trading == {"week", "friday", "monday"}

Unreadable == "unreadable"
NoOffer    == [side |-> 0]

Mishap == mishaps < MaxMishaps /\ mishaps' = mishaps + 1
Smooth == UNCHANGED mishaps

\* The server's time is that of the freshest tick of two symbols that trade
\* all week: it is right, lags behind, or cannot be read.
Readings == {phase, Unreadable} \cup {c \in Phases : After[c] = phase}

\* Whether the last tick of the symbol is fresh at the time c.
Quotes(c) == phase \in Trading \/ c \notin {"asleep", "monday"}

Init ==
    /\ phase = "week"
    /\ price \in Prices
    /\ book = {}
    /\ untracked = {}
    /\ peak = 0
    /\ pc = "snapshot"
    /\ seen = {}
    /\ legible = TRUE
    /\ clock = Unreadable
    /\ offer = NoOffer
    /\ blind = {}
    /\ swept = "not"
    /\ mishaps = 0

(***************************************************************************)
(* The broker.                                                             *)
(***************************************************************************)
Move ==
    /\ phase \in Trading
    /\ price' \in {price - 1, price + 1} \cap Prices
    /\ UNCHANGED <<phase, book, files, turn, history>>

\* A stop, a target, an exit of the position's own.
Close(p) ==
    /\ phase \in Trading
    /\ p \in book
    /\ book' = book \ {p}
    /\ untracked' = untracked \ {p}
    /\ blind' = blind \ {p}
    /\ UNCHANGED <<phase, price, peak, turn, swept, mishaps>>

\* A turn is far shorter than the two hours from the window's start to the
\* close: a pass, disturbed or not, runs in between.
Advance ==
    /\ phase = "friday" => swept # "not"
    /\ phase' = After[phase]
    /\ IF phase = "asleep"
       THEN swept' = "not" /\ blind' = {}
       ELSE UNCHANGED <<swept, blind>>
    /\ UNCHANGED <<price, book, files, turn, mishaps>>

(***************************************************************************)
(* decide_basket_exit: results weighted by risk.                           *)
(***************************************************************************)
\* The sum of the naturals n[p], p in b, counted unit by unit.
Units(b, n) == UNION {{p} \X (1..n[p]) : p \in b}

Total(b, n) == Cardinality(Units(b, n))

Risk(b) == Total(b, [p \in b |-> p.risk])

Gain(p) == p.side * (price - p.entry)

\* What the winners of a basket make less what its losers lose.
Aggregate(b) ==
    LET won  == Total(b, [p \in b |-> p.risk * Gain(p)])
        lost == Total(b, [p \in b |-> -(p.risk * Gain(p))])
    IN  (6 * (won - lost)) \div Risk(b)

Larger(x, y) == IF x >= y THEN x ELSE y

IsBasket(b) == Cardinality(b) >= 2

\* Mutant: the present instead of the best so far.
TopNow(b, before) == Aggregate(b)

Top(b, before) == Larger(before, Aggregate(b))

\* Below every bound on what of a peak may be given back.
GivenBack(b, top) ==
    /\ top >= Arm
    /\ \/ Aggregate(b) <= Lock
       \/ 100 * Aggregate(b) <= Retention * top
       \/ Aggregate(b) <= top - Giveback

\* The positions whose basket has the peak before, that a pass at the time c
\* asks the broker to close.
Flattened(c) == IF c \in InWindow /\ Quotes(c) THEN book ELSE {}

GivenUp(before) ==
    LET b == book \ untracked
    IN  IF IsBasket(b) /\ GivenBack(b, Top(b, before)) THEN book ELSE {}

\* Mutant: the exits of baskets are not sent.
DemandedFlat(c, before) == Flattened(c)

Demanded(c, before) == Flattened(c) \cup GivenUp(before)

(***************************************************************************)
(* A turn.                                                                 *)
(***************************************************************************)
Snapshot ==
    /\ pc = "snapshot"
    /\ pc' = "pass"
    /\ seen' = book
    /\ \/ legible' = TRUE /\ Smooth
       \/ legible' = FALSE /\ Mishap
    /\ UNCHANGED <<broker, files, clock, offer, blind, swept>>

\* The exits a broker that refuses none carries out.
Due(demanded) == IF phase \in Trading THEN demanded ELSE {}

\* manage_once reads the time c and a peak, has the broker close the positions of
\* done, and may not save; peaks of what is no basket any more are dropped.
PassOf(c, before, saves, done) ==
    LET b      == book \ untracked
        smooth == /\ c = phase /\ before = peak /\ saves
                  /\ done = Due(Demanded(c, before))
    IN  /\ IF smooth THEN Smooth ELSE Mishap
        /\ book' = book \ done
        /\ blind' = blind \ done
        /\ untracked' = IF saves THEN {} ELSE untracked \ done
        /\ peak' = CASE saves /\ IsBasket(b)  -> Top(b, before)
                     [] saves /\ ~IsBasket(b) -> 0
                     [] OTHER                 -> peak
        /\ swept' = CASE phase = "friday" /\ smooth                    -> "clean"
                      [] phase = "friday" /\ ~smooth /\ swept = "not" -> "disturbed"
                      [] OTHER                                        -> swept

\* The process may also die once its orders are sent.
Pass ==
    /\ pc = "pass"
    /\ \E c \in Readings, before \in {peak, 0}, saves \in BOOLEAN :
         \E done \in SUBSET Due(Demanded(c, before)) : PassOf(c, before, saves, done)
    /\ pc' = "clock"
    /\ UNCHANGED <<phase, price, seen, legible, clock, offer>>

ReadClock ==
    /\ pc = "clock"
    /\ pc' = "entries"
    /\ clock' \in Readings
    /\ IF clock' = phase THEN Smooth ELSE Mishap
    /\ UNCHANGED <<broker, files, seen, legible, offer, blind, swept>>

\* Mutant: a price as good as the best is an improvement.
MayStackSame(side, reversal) ==
    LET same == {p \in seen : p.side = side}
    IN  /\ Cardinality(seen) < MaxPerSymbol
        /\ same = {} \/ seen = same
        /\ seen # same => reversal
        /\ \A p \in same : side * (p.entry - price) >= 0

\* _autoriser_empilement
MayStack(side, reversal) ==
    LET same     == {p \in seen : p.side = side}
        opposite == seen \ same
    IN  /\ Cardinality(seen) < MaxPerSymbol
        /\ same = {} \/ opposite = {}
        /\ opposite # {} => reversal
        /\ \A p \in same : side * (p.entry - price) >= Gap

\* Mutant: an unreadable risk counts for nothing.
SeenRiskOpen == IF legible THEN Risk(seen) ELSE 0

\* An unreadable risk counts as the whole of the cap.
SeenRisk == IF legible THEN Risk(seen) ELSE Cap

\* What the turn remembers goes with it.
EndTurn ==
    /\ pc' = "snapshot"
    /\ seen' = {}
    /\ legible' = TRUE
    /\ clock' = Unreadable
    /\ offer' = NoOffer

\* The window, the spacing on the price of the moment, and the risk of the symbol once
\* the entry is sized: all on what the turn has read.
Decide ==
    /\ pc = "entries"
    /\ clock \notin InWindow
    /\ phase \in Trading
    /\ \E side \in Sides, risk \in Sizes, reversal \in BOOLEAN :
        /\ MayStack(side, reversal)
        /\ SeenRisk + risk <= Cap
        /\ offer' = [side |-> side, price |-> price, risk |-> risk]
    \* what was read is not read again
    /\ seen' = {} /\ legible' = TRUE /\ clock' = Unreadable
    /\ pc' = "send"
    /\ UNCHANGED <<broker, files, history>>

\* The order goes out after the last gates, and fills at the price it then finds.
Enter ==
    /\ pc = "send"
    /\ phase \in Trading
    /\ \E number \in Numbers :
        LET Alike(n) == [number |-> n, side |-> offer.side, entry |-> price, risk |-> offer.risk]
            p        == Alike(number)
        IN  /\ p \notin book /\ \A n \in 1..(number - 1) : Alike(n) \in book
            /\ book' = book \cup {p}
            /\ blind' = IF phase = "friday" THEN blind \cup {p} ELSE blind
            \* _attacher_contexte, unless the process dies first
            /\ \/ UNCHANGED untracked /\ Smooth
               \/ untracked' = untracked \cup {p} /\ Mishap
    /\ EndTurn
    /\ UNCHANGED <<phase, price, peak, swept>>

\* No candidate, or one that another gate or the broker refuses, before the decision or
\* after it.
Abstain ==
    /\ pc \in {"entries", "send"}
    /\ EndTurn
    /\ UNCHANGED <<broker, files, history>>

\* A turn that stops before its entries: a read that fails, a process that dies.
Abort ==
    /\ pc # "snapshot"
    /\ EndTurn
    /\ Mishap
    /\ UNCHANGED <<broker, files, blind, swept>>

Turn == Snapshot \/ Pass \/ ReadClock \/ Decide \/ Enter \/ Abstain

Next ==
    \/ Move
    \/ \E p \in Positions : Close(p)
    \/ Advance
    \/ Turn
    \/ Abort

Spec == Init /\ [][Next]_vars

\* The loop runs for ever, and the market opens again; the week need not end.
FairSpec == Spec /\ WF_vars(Turn) /\ WF_vars(phase # "week" /\ Advance)

(***************************************************************************)
(* Properties.                                                             *)
(***************************************************************************)
\* Every variable but the peak, a sum of results, has its type.
TypeOK ==
    /\ phase \in Phases /\ price \in Prices
    /\ book \subseteq Positions /\ untracked \subseteq book
    /\ pc \in {"snapshot", "pass", "clock", "entries", "send"}
    /\ seen \subseteq Positions /\ legible \in BOOLEAN
    /\ clock \in Phases \cup {Unreadable}
    /\ IF pc = "send" THEN offer \in Offers ELSE offer = NoOffer
    /\ blind \subseteq book /\ swept \in {"not", "disturbed", "clean"}
    /\ mishaps \in 0..MaxMishaps

\* Until its entries a turn knows of every open position: nothing but its own
\* entry, its last step, adds one.
SeenCovers == pc \in {"pass", "clock", "entries"} => book \subseteq seen

\* Positions of a symbol never outnumber MAX_PAR_SYMBOLE.
Counted ==
    /\ IsFiniteSet(book) /\ IsFiniteSet(seen)
    /\ Cardinality(book) <= MaxPerSymbol

\* What was decided on positions read earlier still fits those that are open when it is
\* sent: one more may open, and the price of the decision is Gap better than the entry of
\* each on its side.  The price of the fill need not be.
OfferFits ==
    pc = "send" =>
        /\ Cardinality(book) < MaxPerSymbol
        /\ \A q \in book : q.side = offer.side =>
              offer.side * (q.entry - offer.price) >= Gap

\* A week's window starts unswept.  Once a clean pass has swept it, all that is
\* open was entered by a turn that did not know of it; without a mishap there is
\* no such turn.
Sweeps ==
    /\ phase \in {"week", "monday"} => swept = "not"
    /\ phase \in {"friday", "closed", "asleep"} /\ swept = "clean" => book \subseteq blind
    /\ mishaps = 0 =>
         /\ phase = "friday" /\ swept # "not" =>
              swept = "clean" /\ book = {} /\ pc # "send"
              /\ (pc = "entries" => clock \in InWindow)
         /\ phase \in {"closed", "asleep"} => book = {}

\* The inductive invariant.
IInv == TypeOK /\ SeenCovers /\ Counted /\ OfferFits /\ Sweeps

\* The positions of a symbol never outnumber MAX_PAR_SYMBOLE nor risk more
\* than MAX_RISQUE_PANIER_PCT together, though every decision is taken on
\* positions read before the pass that closes some and before the market
\* closes others.
WithinBudget == Cardinality(book) <= MaxPerSymbol /\ Risk(book) <= Cap

\* A position outside crypto goes through the weekly close only if something
\* went wrong, and if a pass ran undisturbed in the window, only if the turn
\* that entered it did not know of the window: what the first stage closes the
\* second does not open again.
CrossingExplained ==
    phase \in {"closed", "asleep"} =>
        /\ swept = "clean" => book \subseteq blind
        /\ mishaps = 0 => book = {}

\* A basket's peak is never forgotten while it has two tracked positions,
\* except by a mishap, so that what it may give back does not grow.
PeakKept ==
    [][/\ peak' \in Nat
       /\ peak' < peak => ~IsBasket(book \ untracked) \/ mishaps' > mishaps]_vars

Giving == pc = "pass" /\ GivenUp(peak) # {}

\* A basket that gives its advantage back is closed, or recovers, however
\* often the broker refuses, the process dies or the market is closed.
BasketYields == Giving ~> ~IsBasket(book \ untracked) \/ GivenUp(peak) = {}

\* Positions on one side are Gap apart: "le prix doit ameliorer le meilleur prix encore
\* ouvert" (live_demo.py:292).  The price may move between the decision and the fill.
Spaced ==
    \A p, q \in book : p.side = q.side /\ p # q =>
        p.entry - q.entry >= Gap \/ q.entry - p.entry >= Gap

\* No order is sent to a market that sleeps: "Un marche endormi n'accepte aucun
\* ordre : insister ferait partir une demande refusee a chaque tour jusqu'a la
\* reouverture" (position_manager.py:1476).  The exit of a basket is not guarded.
NothingSentAsleep == pc = "pass" /\ phase = "asleep" => Demanded(phase, peak) = {}

=============================================================================
