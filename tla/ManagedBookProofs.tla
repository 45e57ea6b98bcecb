--------------------------- MODULE ManagedBookProofs ---------------------------
(***************************************************************************)
(* Proofs about ManagedBook: for any prices, risks, caps and gaps, and any *)
(* number of mishaps, a turn's entry is decided on every open position and *)
(* still fits them when it is sent, they never outnumber MAX_PAR_SYMBOLE   *)
(* nor risk more than their cap together, what goes through the weekly     *)
(* close is explained, and a basket's peak is kept.  Nothing here depends  *)
(* on what the basket's rule demands, only that what is closed leaves the  *)
(* book.                                                                   *)
(***************************************************************************)
EXTENDS ManagedBook, FiniteSetTheorems, TLAPS

\* A mishap is counted; without one the count stays.
LEMMA MishapsCounted ==
  ASSUME TypeOK
  PROVE  /\ Mishap => mishaps' \in 0..MaxMishaps /\ mishaps' # 0
         /\ Smooth => mishaps' = mishaps
  BY BookAssumption DEF TypeOK, Mishap, Smooth

\* What a pass does to the book, whatever it demands: it takes positions away, and an
\* undisturbed one in the window takes them all.
LEMMA PassEffect ==
  ASSUME TypeOK, Pass
  PROVE  /\ book' \subseteq book
         /\ \E done \in SUBSET book : book' = book \ done /\ blind' = blind \ done
         /\ untracked' \subseteq book'
         /\ pc = "pass" /\ pc' = "clock"
         /\ UNCHANGED <<phase, price, seen, legible, clock, offer>>
         /\ \/ Mishap /\ swept' \in {swept, "disturbed"}
               /\ (swept = "clean" \/ phase # "friday" => swept' = swept)
            \/ Smooth /\ phase = "friday" /\ swept' = "clean" /\ book' = {}
            \/ Smooth /\ phase # "friday" /\ swept' = swept
  <1>1. PICK c \in Readings, before \in {peak, 0}, saves \in BOOLEAN :
            \E done \in SUBSET Due(Demanded(c, before)) : PassOf(c, before, saves, done)
    BY DEF Pass
  <1>2. PICK done \in SUBSET Due(Demanded(c, before)) : PassOf(c, before, saves, done)
    BY <1>1
  <1>3. Demanded(c, before) \subseteq book
    BY DEF Demanded, Flattened, GivenUp
  <1>4. done \subseteq book
    BY <1>3 DEF Due
  <1>5. ASSUME phase = "friday", c = phase, done = Due(Demanded(c, before))
        PROVE  book' = {}
    <2>1. Flattened(c) = book
      BY <1>5 DEF Flattened, InWindow, Phases, After, Quotes, Trading
    <2> QED BY <2>1, <1>2, <1>3, <1>5 DEF PassOf, Due, Demanded, Trading
  <1>6. untracked' \subseteq book'
    BY <1>2 DEF TypeOK, PassOf
  <1>7. pc = "pass" /\ pc' = "clock" /\ UNCHANGED <<phase, price, seen, legible, clock, offer>>
    BY DEF Pass
  <1>8. ASSUME c = phase /\ before = peak /\ saves /\ done = Due(Demanded(c, before))
        PROVE  /\ Smooth
               /\ phase = "friday" => swept' = "clean" /\ book' = {}
               /\ phase # "friday" => swept' = swept
    <2>1. Smooth /\ (phase = "friday" => swept' = "clean") /\ (phase # "friday" => swept' = swept)
      BY <1>2, <1>8 DEF PassOf
    <2> QED BY <2>1, <1>5, <1>8
  <1>9. ASSUME ~(c = phase /\ before = peak /\ saves /\ done = Due(Demanded(c, before)))
        PROVE  /\ Mishap
               /\ swept' \in {swept, "disturbed"}
               /\ swept = "clean" \/ phase # "friday" => swept' = swept
    BY <1>2, <1>9 DEF PassOf
  <1>10. book' = book \ done /\ blind' = blind \ done
    BY <1>2 DEF PassOf
  <1> QED BY <1>4, <1>6, <1>8, <1>9, <1>10, <1>7

\* A decision is taken at the price of the moment, away from the entries of its side among
\* the positions read, with room for one more.
LEMMA DecideEffect ==
  ASSUME TypeOK, Decide
  PROVE  /\ offer' \in Offers /\ pc' = "send"
         /\ Cardinality(seen) < MaxPerSymbol
         /\ SeenRisk + offer'.risk <= Cap
         /\ \A q \in seen : q.side = offer'.side => offer'.side * (q.entry - offer'.price) >= Gap
  BY DEF Decide, MayStack, Offers, TypeOK

\* An entry adds one position, of the side and the risk decided.
LEMMA EnterEffect ==
  ASSUME TypeOK, Enter
  PROVE  \E p \in Positions :
            /\ p.risk = offer.risk
            /\ book' = book \cup {p}
            /\ blind' = IF phase = "friday" THEN blind \cup {p} ELSE blind
            /\ untracked' \in {untracked, untracked \cup {p}}
  <1>1. offer \in Offers
    BY DEF Enter, TypeOK
  <1>2. PICK number \in Numbers :
           LET Alike(n) == [number |-> n, side |-> offer.side, entry |-> price,
                            risk |-> offer.risk]
               p        == Alike(number)
           IN  /\ book' = book \cup {p}
               /\ blind' = IF phase = "friday" THEN blind \cup {p} ELSE blind
               /\ untracked' \in {untracked, untracked \cup {p}}
    BY DEF Enter
  <1> DEFINE p == [number |-> number, side |-> offer.side, entry |-> price, risk |-> offer.risk]
  <1>3. p \in Positions
    BY <1>1 DEF Positions, Offers, TypeOK
  <1>4. p.risk = offer.risk
    OBVIOUS
  <1> QED BY <1>2, <1>3, <1>4

\* Every step keeps the types.
LEMMA TypesKept ==
  ASSUME TypeOK, [Next]_vars
  PROVE  TypeOK'
  <1>1. CASE Move
    BY <1>1 DEF Move, TypeOK, files, turn, history
  <1>2. ASSUME NEW p \in Positions, Close(p) PROVE TypeOK'
    BY <1>2 DEF Close, TypeOK, turn
  <1>3. CASE Advance
    <2>1. phase' \in Phases
      BY <1>3 DEF Advance, TypeOK, Phases, After
    <2> QED BY <2>1, <1>3 DEF Advance, TypeOK, files, turn
  <1>4. CASE Snapshot
    BY <1>4, MishapsCounted DEF Snapshot, TypeOK, broker, files
  <1>5. CASE Pass
    BY <1>5, PassEffect, MishapsCounted DEF TypeOK
  <1>6. CASE ReadClock
    <2>1. clock' \in Phases \cup {Unreadable}
      BY <1>6 DEF ReadClock, Readings, TypeOK
    <2> QED BY <2>1, <1>6, MishapsCounted DEF ReadClock, TypeOK, broker, files
  <1>7. CASE Enter
    <2>1. mishaps' \in 0..MaxMishaps
      BY <1>7, MishapsCounted DEF Enter, TypeOK
    <2> QED BY <2>1, <1>7, EnterEffect DEF Enter, EndTurn, TypeOK
  <1>8. CASE Abstain
    BY <1>8 DEF Abstain, EndTurn, TypeOK, broker, files, history
  <1>9. CASE Abort
    BY <1>9, MishapsCounted DEF Abort, EndTurn, TypeOK, broker, files
  <1>10. CASE UNCHANGED vars
    BY <1>10 DEF vars, TypeOK, broker, files, turn, history
  <1>11. CASE Decide
    <2>1. offer' \in Offers /\ pc' = "send"
      BY <1>11, DecideEffect
    <2> QED BY <2>1, <1>11 DEF Decide, TypeOK, broker, files, history
  <1> QED BY <1>1, <1>2, <1>3, <1>4, <1>5, <1>6, <1>7, <1>8, <1>9, <1>10, <1>11 DEF Next, Turn

\* What a turn read first still holds every open position when it enters another.
LEMMA SeenKept ==
  ASSUME TypeOK, SeenCovers, [Next]_vars
  PROVE  SeenCovers'
  <1>1. CASE Move
    BY <1>1 DEF Move, SeenCovers, turn
  <1>2. ASSUME NEW p \in Positions, Close(p) PROVE SeenCovers'
    BY <1>2 DEF Close, SeenCovers, turn
  <1>3. CASE Advance
    BY <1>3 DEF Advance, SeenCovers, turn
  <1>4. CASE Snapshot
    BY <1>4 DEF Snapshot, SeenCovers, broker
  <1>5. CASE Pass
    BY <1>5, PassEffect DEF SeenCovers
  <1>6. CASE ReadClock
    BY <1>6 DEF ReadClock, SeenCovers, broker
  <1>7. CASE Decide \/ Enter \/ Abstain \/ Abort
    BY <1>7 DEF Decide, Enter, Abstain, Abort, EndTurn, SeenCovers
  <1>8. CASE UNCHANGED vars
    BY <1>8 DEF vars, SeenCovers, broker, turn
  <1> QED BY <1>1, <1>2, <1>3, <1>4, <1>5, <1>6, <1>7, <1>8 DEF Next, Turn

\* Every step but an entry leaves the book as it is or takes from it.
LEMMA OnlyEntriesAdd ==
  ASSUME TypeOK, [Next]_vars, ~Enter
  PROVE  book' \subseteq book
  <1>1. CASE Pass
    BY <1>1, PassEffect
  <1> QED
    BY <1>1 DEF Next, Turn, Move, Close, Advance, Snapshot, ReadClock, Decide, Abstain,
       Abort, vars, broker

\* Between the decision and the sending the book only shrinks, so that what fitted the
\* positions read fits those that are open (_autoriser_empilement).
LEMMA FitKept ==
  ASSUME TypeOK, SeenCovers, Counted, OfferFits, [Next]_vars
  PROVE  OfferFits'
  <1> SUFFICES ASSUME pc' = "send" PROVE OfferFits'
    BY DEF OfferFits
  <1>1. CASE Decide
    <2>1. book' = book /\ book \subseteq seen
      BY <1>1 DEF Decide, SeenCovers, broker
    <2>2. Cardinality(book) <= Cardinality(seen)
      BY <2>1, FS_Subset DEF Counted
    <2>3. Cardinality(book) \in Nat /\ Cardinality(seen) \in Nat
      BY FS_CardinalityType DEF Counted
    <2>4. Cardinality(seen) < MaxPerSymbol /\ MaxPerSymbol \in Nat
      BY <1>1, DecideEffect, BookAssumption
    <2>5. Cardinality(book') < MaxPerSymbol
      BY <2>1, <2>2, <2>3, <2>4
    <2>6. \A q \in book' : q.side = offer'.side =>
             offer'.side * (q.entry - offer'.price) >= Gap
      BY <1>1, <2>1, DecideEffect
    <2> QED BY <2>5, <2>6 DEF OfferFits
  <1>2. CASE ~Decide
    <2>1. pc = "send" /\ offer' = offer
      BY <1>2, PassEffect DEF Next, Turn, Move, Close, Advance, Snapshot, ReadClock, Enter,
         Abstain, Abort, EndTurn, vars, turn
    <2>2. book' \subseteq book
      BY <2>1, OnlyEntriesAdd DEF Enter, EndTurn
    <2>3. Cardinality(book') <= Cardinality(book)
      BY <2>2, FS_Subset DEF Counted
    <2>4. Cardinality(book) \in Nat /\ Cardinality(book') \in Nat /\ MaxPerSymbol \in Nat
      BY <2>2, FS_Subset, FS_CardinalityType, BookAssumption DEF Counted
    <2>5. Cardinality(book') < MaxPerSymbol
      BY <2>1, <2>3, <2>4 DEF OfferFits
    <2> QED BY <2>1, <2>2, <2>5 DEF OfferFits
  <1> QED BY <1>1, <1>2

\* An entry that was decided finds room for itself.
LEMMA CountKept ==
  ASSUME TypeOK, Counted, OfferFits, [Next]_vars
  PROVE  Counted'
  <1>1. CASE Enter
    <2>1. PICK p \in Positions : book' = book \cup {p}
      BY <1>1, EnterEffect
    <2>2. Cardinality(book) < MaxPerSymbol
      BY <1>1 DEF Enter, OfferFits
    <2>3. /\ IsFiniteSet(book')
          /\ Cardinality(book') <= Cardinality(book) + 1
      <3>1. IsFiniteSet(book)
        BY DEF Counted
      <3>2. /\ IsFiniteSet(book \cup {p})
            /\ Cardinality(book \cup {p}) \in {Cardinality(book), Cardinality(book) + 1}
        BY <3>1, FS_AddElement
      <3>3. Cardinality(book) \in Nat
        BY <3>1, FS_CardinalityType
      <3> QED BY <2>1, <3>2, <3>3
    <2>4. Cardinality(book) \in Nat /\ Cardinality(book') \in Nat
      BY <2>3, FS_CardinalityType DEF Counted
    <2>5. IsFiniteSet(seen')
      BY <1>1, FS_EmptySet DEF Enter, EndTurn
    <2> QED BY <2>2, <2>3, <2>4, <2>5, BookAssumption DEF Counted
  <1>2. CASE ~Enter
    <2>1. book' \subseteq book
      BY <1>2, OnlyEntriesAdd
    <2>2. IsFiniteSet(book') /\ Cardinality(book') <= Cardinality(book)
      BY <2>1, FS_Subset DEF Counted
    <2>3. Cardinality(book) \in Nat /\ Cardinality(book') \in Nat
      BY <2>2, FS_CardinalityType DEF Counted
    <2>4. seen' \in {seen, book, {}}
      BY <1>2, PassEffect DEF Next, Turn, Move, Close, Advance, Snapshot, ReadClock, Decide,
         Abstain, Abort, EndTurn, vars, turn
    <2>5. IsFiniteSet(seen')
      BY <2>4, FS_EmptySet DEF Counted
    <2> QED BY <2>2, <2>3, <2>5, BookAssumption DEF Counted
  <1> QED BY <1>1, <1>2

\* What the window's passes have swept stays explained.
LEMMA SweepsKept ==
  ASSUME TypeOK, Sweeps, [Next]_vars
  PROVE  Sweeps'
  <1>1. CASE Move
    BY <1>1 DEF Move, Sweeps, turn, history
  <1>2. ASSUME NEW p \in Positions, Close(p) PROVE Sweeps'
    BY <1>2 DEF Close, Sweeps, turn
  <1>3. CASE Advance
    <2>1. /\ phase = "week" => phase' = "friday"
          /\ phase = "friday" => phase' = "closed"
          /\ phase = "closed" => phase' = "asleep"
          /\ phase = "asleep" => phase' = "monday"
          /\ phase = "monday" => phase' = "week"
          /\ phase \in {"week", "friday", "closed", "asleep", "monday"}
      BY <1>3 DEF Advance, TypeOK, Phases, After
    <2> QED BY <1>3, <2>1 DEF Advance, Sweeps, turn
  <1>4. CASE Snapshot
    BY <1>4, MishapsCounted DEF Snapshot, Sweeps, broker
  <1>5. CASE Pass
    BY <1>5, PassEffect, MishapsCounted DEF Sweeps, TypeOK
  <1>6. CASE ReadClock
    BY <1>6, MishapsCounted DEF ReadClock, Sweeps, broker, InWindow, Phases, After
  <1>7. CASE Enter
    <2>1. phase \in {"week", "friday", "monday"}
      BY <1>7 DEF Enter, Trading
    <2>2. PICK p \in Positions :
             /\ book' = book \cup {p}
             /\ blind' = IF phase = "friday" THEN blind \cup {p} ELSE blind
      BY <1>7, EnterEffect
    <2>3. /\ UNCHANGED <<phase, swept>> /\ pc' = "snapshot"
          /\ pc = "send"
          /\ mishaps' = 0 => mishaps = 0
      BY <1>7, MishapsCounted DEF Enter, EndTurn
    <2> QED BY <2>1, <2>2, <2>3 DEF Sweeps
  <1>8. CASE Abstain
    BY <1>8 DEF Abstain, EndTurn, Sweeps, broker, history
  <1>9. CASE Abort
    BY <1>9, MishapsCounted DEF Abort, EndTurn, Sweeps, broker
  <1>10. CASE UNCHANGED vars
    BY <1>10 DEF vars, Sweeps, broker, turn, history
  <1>11. CASE Decide
    BY <1>11 DEF Decide, Sweeps, broker, history
  <1> QED BY <1>1, <1>2, <1>3, <1>4, <1>5, <1>6, <1>7, <1>8, <1>9, <1>10, <1>11 DEF Next, Turn

-----------------------------------------------------------------------------
\* The units of finitely many naturals are finitely many.
LEMMA UnitsFinite ==
  ASSUME NEW b, IsFiniteSet(b), NEW n \in [b -> Int]
  PROVE  IsFiniteSet(Units(b, n)) /\ Total(b, n) \in Nat
  <1> DEFINE U(p) == {p} \X (1..n[p])
             F == [p \in b |-> U(p)]
             S == {F[p] : p \in b}
  <1>1. ASSUME NEW p \in b PROVE IsFiniteSet(U(p))
    <2>1. IsFiniteSet({p})
      BY FS_Singleton
    <2>2. n[p] \in Int /\ IsFiniteSet(1..n[p])
      BY FS_Interval
    <2> QED BY <2>1, <2>2, FS_Product
  <1>2. IsFiniteSet(S)
    <2>1. F \in Surjection(b, S)
      BY DEF Surjection
    <2> HIDE DEF F, S
    <2> QED BY <2>1, FS_Surjection
  <1>3. \A s \in S : IsFiniteSet(s)
    BY <1>1
  <1>4. IsFiniteSet(UNION S)
    BY <1>2, <1>3, FS_UNION
  <1>5. Units(b, n) = UNION S
    BY DEF Units
  <1> QED BY <1>4, <1>5, FS_CardinalityType DEF Total

\* What is known of a position, and no more, is what the sums need.
LEMMA RisksTyped ==
  \A p \in Positions : p.risk \in Nat \ {0} /\ p.side \in {1, -1} /\ p.entry \in Int
  <1> SUFFICES ASSUME NEW p \in Positions
               PROVE  p.risk \in Nat \ {0} /\ p.side \in {1, -1} /\ p.entry \in Int
    OBVIOUS
  <1>1. p.side \in Sides /\ p.entry \in Prices /\ p.risk \in Sizes
    BY DEF Positions
  <1>2. p.risk \in Nat \ {0}
    BY <1>1, BookAssumption
  <1>3. p.entry \in Int
    BY <1>1, BookAssumption DEF Prices
  <1> QED BY <1>1, <1>2, <1>3 DEF Sides

\* The risk of a part is at most that of the whole.
LEMMA RiskOfPart ==
  ASSUME NEW c, IsFiniteSet(c), c \subseteq Positions, NEW b \in SUBSET c
  PROVE  Risk(b) \in Nat /\ Risk(c) \in Nat /\ Risk(b) <= Risk(c)
  <1> DEFINE n == [p \in c |-> p.risk]
             m == [p \in b |-> p.risk]
  <1>1. n \in [c -> Int] /\ m \in [b -> Int]
    BY RisksTyped
  <1>2. Units(b, m) \subseteq Units(c, n)
    BY DEF Units
  <1>3. IsFiniteSet(b)
    BY FS_Subset
  <1> HIDE DEF n, m
  <1>4. Total(b, m) \in Nat /\ Total(c, n) \in Nat /\ Total(b, m) <= Total(c, n)
    BY <1>1, <1>2, <1>3, UnitsFinite, FS_Subset DEF Total
  <1> QED BY <1>4 DEF Risk, n, m

\* A position adds at most its own risk.
LEMMA RiskOfEntry ==
  ASSUME NEW b, IsFiniteSet(b), b \subseteq Positions, NEW p \in Positions
  PROVE  Risk(b) \in Nat /\ Risk(b \cup {p}) \in Nat /\ Risk(b \cup {p}) <= Risk(b) + p.risk
  <1> DEFINE c == b \cup {p}
             n == [q \in c |-> q.risk]
             m == [q \in b |-> q.risk]
             own == {p} \X (1..p.risk)
  <1>1. p.risk \in Nat
    BY BookAssumption DEF Positions
  <1>2. IsFiniteSet(own) /\ Cardinality(own) = p.risk
    <2>1. IsFiniteSet({p}) /\ Cardinality({p}) = 1
      BY FS_Singleton
    <2>2. IsFiniteSet(1..p.risk) /\ Cardinality(1..p.risk) = p.risk
      BY <1>1, FS_Interval
    <2>3. IsFiniteSet(own) /\ Cardinality(own) = Cardinality({p}) * Cardinality(1..p.risk)
      BY <2>1, <2>2, FS_Product
    <2> HIDE DEF own
    <2> QED BY <2>1, <2>2, <2>3, <1>1
  <1>3. Units(c, n) = Units(b, m) \cup own
    BY DEF Units
  <1>4. m \in [b -> Int]
    BY RisksTyped
  <1>5. IsFiniteSet(Units(b, m)) /\ Total(b, m) \in Nat
    <2> HIDE DEF m
    <2> QED BY <1>4, UnitsFinite
  <1> HIDE DEF c, n, m, own
  <1>6. /\ IsFiniteSet(Units(c, n))
        /\ Cardinality(Units(c, n)) =
             Cardinality(Units(b, m)) + p.risk - Cardinality(Units(b, m) \cap own)
    BY <1>2, <1>3, <1>5, FS_Union
  <1>7. Cardinality(Units(b, m) \cap own) \in Nat /\ Cardinality(Units(c, n)) \in Nat
    BY <1>5, <1>6, FS_Subset, FS_CardinalityType
  <1>8. Total(c, n) \in Nat /\ Total(c, n) <= Total(b, m) + p.risk
    BY <1>1, <1>5, <1>6, <1>7 DEF Total
  <1> QED BY <1>5, <1>8 DEF Risk, c, n, m

\* Part of the invariant of the budget: the entry decided and not yet sent has its place in it.
Budgeted ==
  /\ WithinBudget
  /\ pc = "send" => Risk(book) + offer.risk <= Cap

\* A decision counts the risk of all that is open, or takes it for the whole of the cap; it
\* still fits when it is sent, for the book has only shrunk.
LEMMA BudgetKept ==
  ASSUME IInv, Budgeted, [Next]_vars
  PROVE  Budgeted'
  <1> USE DEF IInv
  <1>0. Counted' /\ Cap \in Nat
    BY CountKept, BookAssumption
  <1>1. CASE Decide
    <2>1. book' = book /\ book \subseteq seen /\ pc = "entries"
      BY <1>1 DEF Decide, SeenCovers, broker
    <2>2. offer'.risk \in Nat \ {0} /\ SeenRisk + offer'.risk <= Cap
      BY <1>1, DecideEffect, BookAssumption DEF Offers
    <2>3. legible
      BY <1>0, <2>2 DEF SeenRisk
    <2>4. Risk(book) \in Nat /\ Risk(seen) \in Nat /\ Risk(book) <= Risk(seen)
      BY <2>1, RiskOfPart DEF Counted, TypeOK
    <2>5. Risk(book') + offer'.risk <= Cap
      BY <1>0, <2>1, <2>2, <2>3, <2>4 DEF SeenRisk
    <2> QED BY <2>1, <2>5 DEF Budgeted, WithinBudget
  <1>2. CASE Enter
    <2>1. PICK p \in Positions : p.risk = offer.risk /\ book' = book \cup {p}
      BY <1>2, EnterEffect
    <2>2. pc = "send" /\ pc' = "snapshot"
      BY <1>2 DEF Enter, EndTurn
    <2>3. Risk(book) \in Nat /\ Risk(book') \in Nat /\ Risk(book') <= Risk(book) + offer.risk
      BY <2>1, RiskOfEntry DEF Counted, TypeOK
    <2>4. offer.risk \in Nat
      BY <2>1, RisksTyped
    <2>5. Risk(book') <= Cap
      BY <1>0, <2>2, <2>3, <2>4 DEF Budgeted
    <2> QED BY <1>0, <2>2, <2>5 DEF Budgeted, WithinBudget, Counted
  <1>3. CASE ~Enter /\ ~Decide
    <2>1. book' \in SUBSET book
      BY <1>3, OnlyEntriesAdd
    <2>2. Risk(book') \in Nat /\ Risk(book) \in Nat /\ Risk(book') <= Risk(book)
      BY <2>1, RiskOfPart DEF Counted, TypeOK
    <2>3. pc' = "send" => pc = "send" /\ offer' = offer
      BY <1>3, PassEffect DEF Next, Turn, Move, Close, Advance, Snapshot, ReadClock, Abstain,
         Abort, EndTurn, vars, turn
    <2>4. WithinBudget'
      BY <1>0, <2>2 DEF Budgeted, WithinBudget, Counted
    <2>5. ASSUME pc' = "send" PROVE Risk(book') + offer'.risk <= Cap
      <3>1. offer.risk \in Nat /\ offer' = offer /\ pc = "send"
        BY <2>3, <2>5, BookAssumption DEF TypeOK, Offers
      <3> QED BY <1>0, <2>2, <3>1 DEF Budgeted
    <2> QED BY <2>4, <2>5 DEF Budgeted
  <1> QED BY <1>1, <1>2, <1>3

-----------------------------------------------------------------------------
\* Part of the invariant of peaks: the file holds an aggregate, never a loss.
PeakOK == peak \in Nat

\* The aggregate of a basket is a number of sixths of a step.
LEMMA AggregateType ==
  ASSUME NEW b, IsFiniteSet(b), b \subseteq Positions, b # {}, price \in Prices
  PROVE  Aggregate(b) \in Int
  <1> DEFINE won  == [p \in b |-> p.risk * Gain(p)]
             lost == [p \in b |-> -(p.risk * Gain(p))]
             m    == [p \in b |-> p.risk]
  <1>1. \A p \in b : p.risk \in Nat \ {0} /\ Gain(p) \in Int
    <2>1. price \in Int
      BY BookAssumption DEF Prices
    <2> QED BY <2>1, RisksTyped DEF Gain
  <1>2. won \in [b -> Int] /\ lost \in [b -> Int] /\ m \in [b -> Int]
    BY <1>1
  <1>3. \E p \in b : <<p, 1>> \in Units(b, m)
    BY <1>1 DEF Units
  <1> HIDE DEF won, lost, m
  <1>4. IsFiniteSet(Units(b, m)) /\ Total(b, m) \in Nat
    BY <1>2, UnitsFinite
  <1>5. Total(b, m) # 0
    BY <1>3, <1>4, FS_EmptySet DEF Total
  <1>6. Total(b, won) \in Nat /\ Total(b, lost) \in Nat
    BY <1>2, UnitsFinite
  <1>7. Risk(b) \in Nat \ {0}
    BY <1>4, <1>5 DEF Risk, m
  <1>8. Aggregate(b) = (6 * (Total(b, won) - Total(b, lost))) \div Risk(b)
    BY DEF Aggregate, won, lost
  <1>9. \A x \in Int, y \in Nat \ {0} : x \div y \in Int
    OBVIOUS
  <1>10. 6 * (Total(b, won) - Total(b, lost)) \in Int
    BY <1>6
  <1> QED BY <1>7, <1>8, <1>9, <1>10

\* A peak is replaced by one as high, unless the basket is gone or a mishap lost it.
LEMMA PeakStep ==
  ASSUME IInv, PeakOK, [Next]_vars
  PROVE  /\ peak' \in Nat
         /\ peak' < peak => ~IsBasket(book \ untracked) \/ mishaps' > mishaps
  <1>1. CASE Pass
    <2> DEFINE b == book \ untracked
    <2>1. PICK c \in Readings, before \in {peak, 0}, saves \in BOOLEAN :
              \E done \in SUBSET Due(Demanded(c, before)) : PassOf(c, before, saves, done)
      BY <1>1 DEF Pass
    <2>2. PICK done \in SUBSET Due(Demanded(c, before)) : PassOf(c, before, saves, done)
      BY <2>1
    <2>3. peak' = CASE saves /\ IsBasket(b)  -> Top(b, before)
                    [] saves /\ ~IsBasket(b) -> 0
                    [] OTHER                 -> peak
      BY <2>2 DEF PassOf
    <2>4. before # peak => Mishap
      BY <2>2 DEF PassOf
    <2>5. Mishap => mishaps' > mishaps
      BY BookAssumption DEF Mishap, IInv, TypeOK
    <2>6. b \subseteq Positions /\ IsFiniteSet(b) /\ price \in Prices
      BY FS_Subset DEF IInv, TypeOK, Counted
    <2> HIDE DEF b
    <2>7. ASSUME saves, IsBasket(b)
          PROVE  peak' \in Nat /\ peak' >= before
      <3>1. b # {}
        BY <2>7, FS_EmptySet DEF IsBasket
      <3>2. Aggregate(b) \in Int
        BY <2>6, <3>1, AggregateType
      <3>3. peak' = Top(b, before)
        BY <2>3, <2>7
      <3> QED BY <3>2, <3>3 DEF Top, Larger, PeakOK
    <2>8. CASE saves /\ IsBasket(b)
      BY <2>4, <2>5, <2>7, <2>8 DEF PeakOK
    <2>9. CASE saves /\ ~IsBasket(b)
      BY <2>3, <2>9 DEF b, PeakOK
    <2>10. CASE ~saves
      BY <2>3, <2>10 DEF PeakOK
    <2> QED BY <2>8, <2>9, <2>10
  <1>2. CASE ~Pass
    <2>1. peak' = peak
      BY <1>2 DEF Next, Turn, Move, Close, Advance, Snapshot, ReadClock, Decide, Enter,
         Abstain, Abort, vars, files
    <2> QED BY <2>1 DEF PeakOK
  <1> QED BY <1>1, <1>2

-----------------------------------------------------------------------------
\* The book starts empty, in the week.
LEMMA InitIsSound == Init => IInv
  <1> SUFFICES ASSUME Init PROVE IInv
    OBVIOUS
  <1>1. TypeOK
    BY BookAssumption DEF Init, TypeOK, Phases, After
  <1>2. Counted
    BY FS_EmptySet, BookAssumption DEF Init, Counted
  <1>3. SeenCovers /\ OfferFits /\ Sweeps
    BY DEF Init, SeenCovers, OfferFits, Sweeps
  <1> QED BY <1>1, <1>2, <1>3 DEF IInv

\* The books of a symbol are sound in every state (IInv): typed, covered by what the turn
\* read and counted, and an entry that _autoriser_empilement let through on positions read
\* before the pass of manage_once, at the price of the decision, still fits when it is sent.
THEOREM BookInvariance == Spec => []IInv
  <1>1. IInv /\ [Next]_vars => IInv'
    BY TypesKept, SeenKept, FitKept, CountKept, SweepsKept DEF IInv
  <1> QED BY InitIsSound, <1>1, PTL DEF Spec

\* The positions open through the weekly close are explained: after a clean pass of the
\* window (decide_weekend_flat) they were entered by a turn that did not know of it, and
\* without a mishap there are none.
THEOREM CrossingsAreExplained == Spec => []CrossingExplained
  <1>1. IInv => CrossingExplained
    BY DEF IInv, Sweeps, CrossingExplained
  <1> QED BY <1>1, BookInvariance, PTL

\* A symbol never has more than MAX_PAR_SYMBOLE positions.
THEOREM NeverTooMany == Spec => [](Cardinality(book) <= MaxPerSymbol)
  <1>1. IInv => Cardinality(book) <= MaxPerSymbol
    BY DEF IInv, Counted
  <1> QED BY <1>1, BookInvariance, PTL

\* Nor do they risk more than MAX_RISQUE_PANIER_PCT together: an entry is decided on every
\* position that is open, and one whose risk cannot be read counts as the whole of the cap.
THEOREM BudgetHolds == Spec => []WithinBudget
  <1>1. Init => Budgeted
    <2> SUFFICES ASSUME Init PROVE Budgeted
      OBVIOUS
    <2>1. book = {} /\ Units({}, [p \in {} |-> p.risk]) = {}
      BY DEF Init, Units
    <2>2. Risk(book) = 0 /\ Cardinality(book) = 0
      BY <2>1, FS_EmptySet DEF Risk, Total
    <2> QED BY <2>2, BookAssumption DEF Init, Budgeted, WithinBudget
  <1>2. IInv /\ Budgeted /\ [Next]_vars => Budgeted'
    BY BudgetKept
  <1>3. Budgeted => WithinBudget
    BY DEF Budgeted
  <1> QED BY <1>1, <1>2, <1>3, BookInvariance, PTL DEF Spec

\* The peak decide_basket_exit measures against never falls while its basket lives, unless
\* something is lost on the way: the arithmetic of the aggregates holds for any risks.
THEOREM PeaksAreKept == Spec => PeakKept
  <1>1. Init => PeakOK
    BY DEF Init, PeakOK
  <1>2. IInv /\ PeakOK /\ [Next]_vars => PeakOK'
    BY PeakStep DEF PeakOK
  <1>3. IInv /\ PeakOK /\ [Next]_vars =>
          [/\ peak' \in Nat
           /\ peak' < peak => ~IsBasket(book \ untracked) \/ mishaps' > mishaps]_vars
    BY PeakStep
  <1> QED BY <1>1, <1>2, <1>3, BookInvariance, PTL DEF Spec, PeakKept

=============================================================================
