------------------------------ MODULE LossGuard ------------------------------
(***************************************************************************)
(* The loss circuit breaker of titanium/execution/live_loss_guard.py, as   *)
(* the live loop uses it: it is evaluated on the edge journal after the    *)
(* closing pass, and again before each send; a BLOCK latches a file that   *)
(* only the operator takes away.                                           *)
(*                                                                         *)
(* What the pass makes of a closure (ClosureJournal has the detail) is     *)
(* here one of four: an exact line of the journal, a line whose accounts   *)
(* were incomplete, a rejected one beside it, or a line broken off by a    *)
(* crash in the middle of the append, which swallows the next one.         *)
(***************************************************************************)
EXTENDS Integers, Sequences, FiniteSets, Functions

CONSTANTS
    Tickets,       \* the positions the loop may open
    Outcomes,      \* results in R
    DailyLimit,    \* DAILY_LOSS_LIMIT_R
    RollingLimit,  \* ROLLING_7D_LOSS_LIMIT_R
    Window,        \* the rolling window, in days
    MaxLines,      \* bound on the journal's length, for repairs and torn lines
    MaxMishaps     \* bound on failed writes, damaged latches and crashes

ASSUME GuardAssumption ==
    /\ Outcomes \subseteq Int
    /\ {RollingLimit, Window, MaxLines, MaxMishaps} \subseteq Nat
    /\ DailyLimit \in Nat \ {0}

VARIABLES
    life,      \* of each position: none, open, closed, or accounted (journaled or rejected)
    since,     \* days since it closed
    pnl,       \* its result in R
    journal,   \* results/trades.ndjson, the account's lines
    rejected,  \* closures in journal_rejets.ndjson
    latch,     \* the quarantine file of the account
    pc,        \* where the turn is
    todo,      \* closures the running pass has still to account for
    blocked,   \* history: a BLOCK has been latched since the last acknowledgement
    mishaps    \* mishaps so far

books == <<life, since, pnl, journal, rejected>>
turn  == <<pc, todo>>
vars  == <<books, latch, turn, blocked, mishaps>>

Old   == Window + 1
Ages  == 0..Old
\* A line is exact or not, or cannot be read: torn, without the newline that ends it, or
\* unreadable, such as the line that was appended to a torn one.
Kinds == {"exact", "inexact", "torn", "unreadable"}
Line  == [ticket : Tickets \cup {"past"}, age : Ages, r : Int, kind : Kinds]
Past  == [ticket |-> "past", age |-> Old, r |-> 0, kind |-> "exact"]

Mishap == mishaps < MaxMishaps /\ mishaps' = mishaps + 1
Smooth == UNCHANGED mishaps

\* The account has a line of an earlier time, or none yet.
Init ==
    /\ life = [t \in Tickets |-> "none"]
    /\ since = [t \in Tickets |-> 0]
    /\ pnl = [t \in Tickets |-> 0]
    /\ journal \in {<<>>, <<Past>>}
    /\ rejected = {}
    /\ latch = "absent"
    /\ pc = "idle"
    /\ todo = {}
    /\ blocked = FALSE
    /\ mishaps = 0

(***************************************************************************)
(* evaluate_live_loss_guard.                                               *)
(***************************************************************************)
Readable(j) == \A i \in DOMAIN j : j[i].kind \in {"exact", "inexact"}

Recent(j) == {i \in DOMAIN j : j[i].age <= Window}

\* Mutant: the last line of a ticket counts, whatever its date.
CountedLast(j) ==
    {i \in Recent(j) : \A k \in Recent(j) : j[k].ticket = j[i].ticket => k <= i}

\* Of the lines of a ticket the one that closed last counts, at equal dates the last one.
Counted(j) ==
    {i \in Recent(j) : \A k \in Recent(j) :
        j[k].ticket = j[i].ticket =>
            \/ j[k].age > j[i].age
            \/ j[k].age = j[i].age /\ k <= i}

\* The R won, or with sign -1 lost, on the lines S of j, one by one.
Units(j, S, sign) == UNION {{i} \X (1..sign * j[i].r) : i \in S}

Net(j, S) == Cardinality(Units(j, S, 1)) - Cardinality(Units(j, S, -1))

\* Mutant: a line without exact accounts is refused before its date is looked at.
EvaluatePoisoned(j) ==
    LET rolling == Counted(j)
        daily   == {i \in rolling : j[i].age = 0}
    IN  IF j = <<>> \/ \E i \in DOMAIN j : j[i].kind # "exact" THEN "WAIT"
        ELSE IF Net(j, daily) <= -DailyLimit \/ Net(j, rolling) <= -RollingLimit THEN "BLOCK"
        ELSE "ALLOW"

\* Mutant: a loss of exactly the limit is allowed.
EvaluateBelow(j) ==
    LET rolling == Counted(j)
        daily   == {i \in rolling : j[i].age = 0}
    IN  IF j = <<>> \/ ~Readable(j) \/ \E i \in Recent(j) : j[i].kind # "exact" THEN "WAIT"
        ELSE IF Net(j, daily) < -DailyLimit \/ Net(j, rolling) < -RollingLimit THEN "BLOCK"
        ELSE "ALLOW"

\* No history waits; so does a line that cannot be read, whatever its age, for nothing says
\* whose it is or when it closed, and a recent line that proves nothing. The day's net or the
\* window's net at its limit blocks.
Evaluate(j) ==
    LET rolling == Counted(j)
        daily   == {i \in rolling : j[i].age = 0}
    IN  IF j = <<>> \/ ~Readable(j) \/ \E i \in Recent(j) : j[i].kind # "exact" THEN "WAIT"
        ELSE IF Net(j, daily) <= -DailyLimit \/ Net(j, rolling) <= -RollingLimit THEN "BLOCK"
        ELSE "ALLOW"

(***************************************************************************)
(* persist_live_loss_quarantine: a latch in place decides; a new BLOCK     *)
(* latches, and waits when that cannot be written.                         *)
(***************************************************************************)

\* Mutant: the verdict is looked at before the latch.
GuardVerdictFirst(verdict) ==
    LET found == Evaluate(journal) IN
    \/ /\ found # "BLOCK" /\ verdict = found
       /\ Smooth /\ UNCHANGED <<latch, blocked>>
    \/ /\ found = "BLOCK" /\ verdict = "BLOCK"
       /\ latch' = "valid" /\ blocked' = TRUE /\ Smooth

Guard(verdict) ==
    LET found == Evaluate(journal) IN
    \/ /\ latch = "valid" /\ verdict = "BLOCK"
       /\ Smooth /\ UNCHANGED <<latch, blocked>>
    \/ /\ latch = "invalid" /\ verdict = "WAIT"
       /\ Smooth /\ UNCHANGED <<latch, blocked>>
    \/ /\ latch = "absent" /\ found # "BLOCK" /\ verdict = found
       /\ Smooth /\ UNCHANGED <<latch, blocked>>
    \/ /\ latch = "absent" /\ found = "BLOCK" /\ verdict = "BLOCK"
       /\ latch' = "valid" /\ blocked' = TRUE /\ Smooth
    \/ /\ latch = "absent" /\ found = "BLOCK" /\ verdict = "WAIT"
       /\ Mishap /\ UNCHANGED <<latch, blocked>>

(***************************************************************************)
(* The turn.                                                               *)
(***************************************************************************)
LineOf(t, kind) == [ticket |-> t, age |-> since[t], r |-> pnl[t], kind |-> kind]

\* What is appended to a journal whose last line has no newline becomes part of that line.
Appended(kind) ==
    IF journal # <<>> /\ journal[Len(journal)].kind = "torn" THEN "unreadable" ELSE kind

\* The closing pass takes its snapshot.
BeginPass ==
    /\ pc = "idle"
    /\ pc' = "pass"
    /\ todo' = {t \in Tickets : life[t] = "closed"}
    /\ UNCHANGED <<books, latch, blocked, mishaps>>

\* It accounts for a closure, in the journal or beside it.
Account(t) ==
    /\ pc = "pass"
    /\ t \in todo
    /\ life' = [life EXCEPT ![t] = "accounted"]
    /\ todo' = todo \ {t}
    /\ \/ \E kind \in {"exact", "inexact"} :
             journal' = Append(journal, LineOf(t, Appended(kind))) /\ UNCHANGED rejected
       \/ rejected' = rejected \cup {t} /\ UNCHANGED journal
    /\ UNCHANGED <<since, pnl, latch, pc, blocked, mishaps>>

\* The process dies in the middle of the append: the closure is still to be accounted for, and
\* the file ends with half its line.
Tear(t) ==
    /\ pc = "pass"
    /\ t \in todo
    /\ Len(journal) < MaxLines
    /\ Mishap
    /\ journal' = Append(journal, LineOf(t, "torn"))
    /\ pc' = "idle"
    /\ todo' = {}
    /\ UNCHANGED <<life, since, pnl, rejected, latch, blocked>>

\* It cannot: the pass has a gap and the turn ends.
Gap ==
    /\ pc = "pass"
    /\ todo # {}
    /\ Mishap
    /\ pc' = "idle"
    /\ todo' = {}
    /\ UNCHANGED <<books, latch, blocked>>

\* The first guard; without ALLOW the turn only observes.
FirstGuard ==
    /\ pc = "pass"
    /\ todo = {}
    /\ \E verdict \in {"ALLOW", "WAIT", "BLOCK"} :
          Guard(verdict) /\ pc' = IF verdict = "ALLOW" THEN "entries" ELSE "observe"
    /\ UNCHANGED <<books, todo>>

\* The guard again, before a send; without ALLOW the turn ends.
FinalGuard ==
    /\ pc = "entries"
    /\ \E verdict \in {"ALLOW", "WAIT", "BLOCK"} :
          Guard(verdict) /\ pc' = IF verdict = "ALLOW" THEN "send" ELSE "idle"
    /\ UNCHANGED <<books, todo>>

Enter(t) ==
    /\ pc = "send"
    /\ life[t] = "none"
    /\ life' = [life EXCEPT ![t] = "open"]
    /\ pc' = "entries"
    /\ UNCHANGED <<since, pnl, journal, rejected, latch, todo, blocked, mishaps>>

\* execute_recorded refuses.
NoEntry ==
    /\ pc = "send"
    /\ pc' = "entries"
    /\ UNCHANGED <<books, latch, todo, blocked, mishaps>>

EndTurn ==
    /\ pc \in {"entries", "observe"}
    /\ pc' = "idle"
    /\ UNCHANGED <<books, latch, todo, blocked, mishaps>>

Crash ==
    /\ pc # "idle"
    /\ Mishap
    /\ pc' = "idle"
    /\ todo' = {}
    /\ UNCHANGED <<books, latch, blocked>>

(***************************************************************************)
(* The broker, the calendar and the operator.                              *)
(***************************************************************************)
Close(t) ==
    /\ life[t] = "open"
    /\ life' = [life EXCEPT ![t] = "closed"]
    /\ \E r \in Outcomes : pnl' = [pnl EXCEPT ![t] = r]
    /\ UNCHANGED <<since, journal, rejected, latch, turn, blocked, mishaps>>

Older(n) == IF n < Old THEN n + 1 ELSE n

NextDay ==
    /\ since' = [t \in Tickets |-> IF life[t] \in {"closed", "accounted"} THEN Older(since[t])
                                   ELSE since[t]]
    /\ journal' = [i \in DOMAIN journal |-> [journal[i] EXCEPT !.age = Older(@)]]
    /\ UNCHANGED <<life, pnl, rejected, latch, turn, blocked, mishaps>>

\* The operator acknowledges: the file is removed.
Acknowledge ==
    /\ latch # "absent"
    /\ latch' = "absent"
    /\ blocked' = FALSE
    /\ UNCHANGED <<books, turn, mishaps>>

\* The file is damaged: another account's, truncated, edited.
Damage ==
    /\ latch = "valid"
    /\ Mishap
    /\ latch' = "invalid"
    /\ UNCHANGED <<books, turn, blocked>>

\* The lines of j in every order.
Orders(j) == {[i \in DOMAIN j |-> j[order[i]]] : order \in Surjection(DOMAIN j, DOMAIN j)}

\* The journal is repaired or replayed while the loop is stopped: what cannot be read is
\* put right, or its lines come in another order, or a line is written again as it should
\* have been.
Repair ==
    /\ pc = "idle"
    /\ \/ /\ ~Readable(journal)
          /\ journal' = [i \in DOMAIN journal |->
                            IF journal[i].kind \in {"torn", "unreadable"}
                            THEN [journal[i] EXCEPT !.kind = "exact"] ELSE journal[i]]
       \/ Readable(journal) /\ Len(journal) <= MaxLines /\ journal' \in Orders(journal)
       \/ /\ Readable(journal)
          /\ Len(journal) < MaxLines
          /\ \E i \in DOMAIN journal, r \in Outcomes, age \in Ages :
                /\ journal[i].ticket # "past" /\ age <= journal[i].age
                /\ journal' = Append(journal, [journal[i] EXCEPT !.r = r, !.age = age,
                                                                 !.kind = "exact"])
    /\ UNCHANGED <<life, since, pnl, rejected, latch, turn, blocked, mishaps>>

Turn ==
    \/ BeginPass
    \/ \E t \in Tickets : Account(t) \/ Enter(t)
    \/ FirstGuard
    \/ FinalGuard
    \/ NoEntry
    \/ EndTurn

Next ==
    \/ Turn
    \/ Gap
    \/ Crash
    \/ \E t \in Tickets : Tear(t) \/ Close(t)
    \/ NextDay
    \/ Acknowledge
    \/ Damage
    \/ Repair

Spec == Init /\ [][Next]_vars

\* The loop keeps turning and the days go by.
FairSpec == Spec /\ WF_vars(Turn) /\ WF_vars(NextDay)

(***************************************************************************)
(* Properties.                                                             *)
(***************************************************************************)

\* Every variable has its type.
TypeOK ==
    /\ life \in [Tickets -> {"none", "open", "closed", "accounted"}]
    /\ since \in [Tickets -> Ages]
    /\ pnl \in [Tickets -> Int]
    /\ journal \in Seq(Line)
    /\ rejected \subseteq Tickets
    /\ latch \in {"absent", "valid", "invalid"}
    /\ pc \in {"idle", "pass", "entries", "send", "observe"}
    /\ todo \subseteq Tickets
    /\ blocked \in BOOLEAN
    /\ mishaps \in 0..MaxMishaps

Entry == \E t \in Tickets : life[t] = "none" /\ life'[t] = "open"

\* Lines of one ticket with one closing date: there the order of the file decides.
Ties(j) == \E i, k \in DOMAIN j : i # k /\ j[i].ticket = j[k].ticket /\ j[i].age = j[k].age

\* A journal whose lines were put in another order gives the same verdict.
OrderDoesNotMatter ==
    ~Ties(journal) => LET verdict == Evaluate(journal)
                      IN  \A j \in Orders(journal) : Evaluate(j) = verdict

\* A BLOCK that was not acknowledged has its latch, and the turn is past no guard.
BlockIsLatched == blocked => latch # "absent" /\ pc # "send"

\* The guard's books are sound: typed, their verdict does not depend on their order, and a
\* BLOCK has its latch.
BooksSound == TypeOK /\ OrderDoesNotMatter /\ BlockIsLatched

\* No entry is sent on a day whose journaled closures, each ticket counted once, have
\* reached the daily limit, whatever midnight falls between the guard and the send.
DailyLimitHolds ==
    [][Entry => Net(journal, {i \in Counted(journal) : journal[i].age = 0}) > -DailyLimit]_vars

\* Once the guard has latched a BLOCK no entry is sent until the operator acknowledges it,
\* though the losses leave the window, the process restarts or the file is damaged.
BlockSticks == [][Entry => ~blocked]_vars

\* A doubt never closes the account for good, only damage does: without a latch, once nothing
\* is open and no line is beyond reading the guard allows entries again, lines without exact
\* accounts included. A line that cannot be read keeps the account closed until it is put
\* right, however old it is.
GuardReopens ==
    <>[](latch = "absent" /\ journal # <<>> /\ Readable(journal)) => []<>(pc = "entries")

=============================================================================
