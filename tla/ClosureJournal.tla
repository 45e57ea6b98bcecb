--------------------------- MODULE ClosureJournal ---------------------------
(***************************************************************************)
(* From an entry to its line in the edge journal: the tracked state of     *)
(* positions.json, the closing bookkeeping of                              *)
(* position_manager.manage_once and the history_recovery it ends with.     *)
(*                                                                         *)
(* Each turn of the live loop runs one pass: it takes a snapshot of the    *)
(* open positions, judges every tracked position that is not in it by the  *)
(* broker's deal history, appends to the journals, saves positions.json,   *)
(* recovers what it never saw, and only a pass without a gap opens the     *)
(* turn to entries.  The process dies at any step, reads and writes fail,  *)
(* history shows late, exits execute in parts, and a snapshot may miss a   *)
(* live position.                                                          *)
(***************************************************************************)
EXTENDS Naturals, FiniteSets

CONSTANTS
    Positions,   \* position tickets
    Window,      \* MAX_SORTIE_INTROUVABLE_SECONDES, in clock units
    MaxMishaps   \* bound on crashes, failed reads and writes, and bad snapshots

ASSUME ClosureAssumption == Window \in Nat \ {0} /\ MaxMishaps \in Nat

VARIABLES
    (* the broker *)
    life,        \* of each position
    history,     \* the exit deals its history shows
    (* files *)
    file,        \* positions.json
    trades,      \* lines per ticket in trades.ndjson
    excursions,  \* tickets in excursions.ndjson
    resolved,    \* tickets whose decision is resolved in decision_registry.ndjson
    rejects,     \* kinds of lines per ticket in journal_rejets.ndjson
    (* memory of a pass *)
    pc,          \* where the turn is
    mem,         \* etat
    seen,        \* vivants
    todo,        \* tickets still to judge
    cur,         \* the ticket whose line was just written
    gap,         \* the pass reports JOURNAL_GAP
    (* history *)
    observed,    \* positions whose entry context was saved
    copied,      \* those whose context is in a copy of a positions.json that did not load
    unread,      \* those whose context was in one that did not load and was not copied
    mishaps      \* mishaps so far

broker == <<life, history>>
files  == <<file, trades, excursions, resolved, rejects>>
pass   == <<pc, mem, seen, todo, cur, gap>>
copies == <<copied, unread>>
vars   == <<broker, files, pass, observed, copies, mishaps>>

(***************************************************************************)
(* What is tracked of a position: a context that can be measured, a bare   *)
(* one that every attempt to journal refuses for good (adopted without its *)
(* entry context, no risk, implausible R), and how long its exit has been  *)
(* missing (0: it is not).                                                 *)
(***************************************************************************)
Track    == [context : {"none", "full", "bare"}, missing : 0..Window + 1]
NoTrack  == [context |-> "none", missing |-> 0]
Fresh(c) == [context |-> c, missing |-> 0]
Tracked(t) == t.context # "none"
Untracked  == [p \in Positions |-> NoTrack]

Exits  == {"none", "part", "all"}
Kinds  == {"missingFull", "missingBare", "refused", "coverage", "resolved"}
Steps  == {"idle", "purge", "purgeDetail", "recover", "recoverDetail", "entries"}
None   == "none"
Opens  == {p \in Positions : life[p] = "open"}

Init ==
    /\ life = [p \in Positions |-> "none"]
    /\ history = [p \in Positions |-> "none"]
    /\ file = Untracked
    /\ trades = [p \in Positions |-> 0]
    /\ excursions = {}
    /\ resolved = {}
    /\ rejects = [p \in Positions |-> {}]
    /\ pc = "idle"
    /\ mem = Untracked
    /\ seen = {}
    /\ todo = {}
    /\ cur = None
    /\ gap = FALSE
    /\ observed = {}
    /\ copied = {}
    /\ unread = {}
    /\ mishaps = 0

Mishap == mishaps < MaxMishaps /\ mishaps' = mishaps + 1
Smooth == UNCHANGED mishaps

\* load_state finds a file it cannot read: it copies it if it can, and starts from nothing.
Unreadable ==
    LET Full == {p \in Positions : file[p].context = "full"} IN
    /\ Mishap
    /\ \/ copied' = copied \cup Full /\ UNCHANGED unread
       \/ unread' = unread \cup Full /\ UNCHANGED copied

(***************************************************************************)
(* Entries: the order is accepted, then _attacher_contexte saves what a    *)
(* closure will need.  Its failures are swallowed.                         *)
(***************************************************************************)
Enter(p) ==
    /\ pc = "entries"
    /\ life[p] = "none"
    /\ life' = [life EXCEPT ![p] = "open"]
    /\ \/ /\ \E c \in {"full", "bare"} :
                /\ \/ Smooth /\ UNCHANGED copies /\ file' = [file EXCEPT ![p] = Fresh(c)]
                   \/ Unreadable /\ file' = [Untracked EXCEPT ![p] = Fresh(c)]
                /\ observed' = IF c = "full" THEN observed \cup {p} ELSE observed
       \/ Mishap /\ UNCHANGED <<file, observed, copies>>
    /\ UNCHANGED <<history, trades, excursions, resolved, rejects, pass>>

EndTurn ==
    /\ pc = "entries"
    /\ pc' = "idle"
    /\ UNCHANGED <<broker, files, mem, seen, todo, cur, gap, observed, mishaps, copies>>

(***************************************************************************)
(* The pass.                                                               *)
(***************************************************************************)

\* positions_get, load_state, and the walk over live positions: untracked ones are adopted
\* bare (unless they have no stop), reappeared ones are no longer missing.
BeginPass ==
    /\ pc = "idle"
    /\ \E live \in SUBSET Opens, state \in {file, Untracked} :
        /\ \/ live = Opens /\ state = file /\ Smooth /\ UNCHANGED copies
           \/ live # Opens /\ state = file /\ Mishap /\ UNCHANGED copies
           \/ live = Opens /\ state = Untracked /\ Unreadable
        /\ \E adopted \in SUBSET {p \in live : ~Tracked(state[p])} :
              mem' = [p \in Positions |->
                        IF p \in adopted THEN Fresh("bare")
                        ELSE IF p \in live THEN Fresh(state[p].context)
                        ELSE state[p]]
        /\ seen' = live
        /\ todo' = {p \in Positions \ live : Tracked(state[p])}
    /\ pc' = "purge"
    /\ gap' = FALSE
    /\ UNCHANGED <<broker, files, cur, observed>>

Judged(p) ==
    /\ pc = "purge"
    /\ p \in todo
    /\ todo' = todo \ {p}
    /\ UNCHANGED <<broker, file, seen, cur, observed, copies>>

Pop(p)  == mem' = [mem EXCEPT ![p] = NoTrack]
Keep(p) == UNCHANGED mem /\ gap' = TRUE

\* _quarantiner_rejet: one line per ticket, whatever it says.
Quarantine(p, kind) ==
    rejects' = [rejects EXCEPT ![p] = IF @ = {} THEN {kind} ELSE @]

Escalated(p) == mem[p].missing > Window

\* No exit deal in history (or history is unreadable): the position stays tracked and the
\* pass has a gap.  It stays too when the quarantine of an old gap cannot be written.
KeepMissing(p) ==
    /\ Judged(p)
    /\ \/ history[p] = "none" /\ ~Escalated(p) /\ Smooth
       \/ Mishap
    /\ mem' = [mem EXCEPT ![p].missing = IF @ = 0 THEN 1 ELSE @]
    /\ gap' = TRUE
    /\ UNCHANGED <<pc, trades, excursions, resolved, rejects>>

\* Mutant of QuarantineMissing: given up even when the quarantine cannot be written.
GiveUpMissing(p) ==
    /\ Judged(p)
    /\ Escalated(p)
    /\ history[p] = "none"
    /\ \/ Smooth /\ Quarantine(p, IF mem[p].context = "full" THEN "missingFull" ELSE "missingBare")
       \/ Mishap /\ UNCHANGED rejects
    /\ Pop(p)
    /\ UNCHANGED <<pc, gap, trades, excursions, resolved>>

\* Mutant of QuarantineMissing: the line does not carry the tracked state.
QuarantineWithoutState(p) ==
    /\ Judged(p)
    /\ Escalated(p)
    /\ (history[p] = "none" /\ Smooth) \/ Mishap
    /\ Quarantine(p, "missingBare")
    /\ Pop(p)
    /\ UNCHANGED <<pc, gap, trades, excursions, resolved>>

\* After the window, the gap is quarantined with the tracked state and given up.
QuarantineMissing(p) ==
    /\ Judged(p)
    /\ Escalated(p)
    /\ (history[p] = "none" /\ Smooth) \/ Mishap
    /\ Quarantine(p, IF mem[p].context = "full" THEN "missingFull" ELSE "missingBare")
    /\ Pop(p)
    /\ UNCHANGED <<pc, gap, trades, excursions, resolved>>

\* Mutant of RejectClosure: a refusal for good is retried like a failure.
RetryRefusal(p) ==
    /\ Judged(p)
    /\ history[p] # "none"
    /\ mem[p].context = "bare"
    /\ Smooth
    /\ Keep(p)
    /\ UNCHANGED <<pc, rejects, trades, excursions, resolved>>

\* A closure that can never be measured is quarantined; a ticket that already has a line
\* is dropped even if that fails.
RejectClosure(p) ==
    /\ Judged(p)
    /\ history[p] # "none"
    /\ mem[p].context = "bare"
    /\ \/ Smooth /\ Quarantine(p, "refused") /\ Pop(p) /\ UNCHANGED gap
       \/ Mishap /\ UNCHANGED rejects /\ IF trades[p] > 0 THEN Pop(p) /\ UNCHANGED gap ELSE Keep(p)
    /\ UNCHANGED <<pc, trades, excursions, resolved>>

\* The ticket has its line already (DEJA_JOURNALISE).
SkipJournaled(p) ==
    /\ Judged(p)
    /\ history[p] # "none"
    /\ mem[p].context = "full"
    /\ trades[p] > 0
    /\ Pop(p)
    /\ Smooth
    /\ UNCHANGED <<pc, gap, trades, excursions, resolved, rejects>>

\* Mutant of Record: the journal is not searched for the ticket before the append.
RecordAgain(p, step) ==
    /\ Smooth
    /\ trades' = [trades EXCEPT ![p] = @ + 1]
    /\ pc' = step
    /\ cur' = p
    /\ UNCHANGED <<broker, file, excursions, resolved, rejects, mem, seen, todo, gap,
                   observed, copies>>

\* journaliser_cloture appends the line to trades.ndjson; the detail is still to come.
Record(p, step) ==
    /\ trades[p] = 0
    /\ Smooth
    /\ trades' = [trades EXCEPT ![p] = @ + 1]
    /\ pc' = step
    /\ cur' = p
    /\ UNCHANGED <<broker, file, excursions, resolved, rejects, mem, seen, todo, gap,
                   observed, copies>>

RecordClosure(p) ==
    /\ pc = "purge"
    /\ p \in todo
    /\ history[p] # "none"
    /\ mem[p].context = "full"
    /\ Record(p, "purgeDetail")

\* The journal cannot be read or written: the position stays tracked for the next pass.
FailClosure(p) ==
    /\ Judged(p)
    /\ history[p] # "none"
    /\ mem[p].context = "full"
    /\ Mishap
    /\ Keep(p)
    /\ UNCHANGED <<pc, trades, excursions, resolved, rejects>>

\* The rest of journaliser_cloture: the excursion, then the decision's event, which may
\* fail without a word.
Detail ==
    /\ excursions' = excursions \cup {cur}
    /\ \/ Smooth /\ resolved' = resolved \cup {cur}
       \/ Mishap /\ UNCHANGED resolved

NoDetail == Mishap /\ UNCHANGED <<excursions, resolved>>

\* Even when the excursion cannot be written, the line is found and the position dropped.
DetailClosure ==
    /\ pc = "purgeDetail"
    /\ Detail \/ NoDetail
    /\ Pop(cur)
    /\ todo' = todo \ {cur}
    /\ pc' = "purge"
    /\ cur' = None
    /\ UNCHANGED <<broker, file, trades, rejects, seen, gap, observed, copies>>

\* save_state, then recover_unobserved_closures reads the history of the last days: what
\* has an exit and is not in the snapshot counts as closed.
EndPurge ==
    /\ pc = "purge"
    /\ todo = {}
    /\ \/ Smooth /\ file' = mem
       \/ Mishap /\ UNCHANGED file
    /\ todo' = {p \in Positions \ seen : history[p] # "none"}
    /\ pc' = "recover"
    /\ UNCHANGED <<broker, trades, excursions, resolved, rejects, mem, seen, cur, gap,
                   observed, copies>>

(***************************************************************************)
(* history_recovery.                                                       *)
(***************************************************************************)

\* A quarantined gap whose accounts are complete by now.
Candidate(p) ==
    /\ p \in todo
    /\ rejects[p] \cap {"missingFull", "missingBare"} # {}
    /\ "resolved" \notin rejects[p]
    /\ history[p] = "all"

Resolve(p) ==
    \/ Smooth /\ rejects' = [rejects EXCEPT ![p] = @ \cup {"resolved"}]
    \/ Mishap /\ UNCHANGED rejects

\* Its line exists: only the resolution is missing.
ResolveJournaled(p) ==
    /\ pc = "recover"
    /\ Candidate(p)
    /\ trades[p] > 0
    /\ Resolve(p)
    /\ todo' = todo \ {p}
    /\ UNCHANGED <<broker, file, trades, excursions, resolved, pc, mem, seen, cur, gap,
                   observed, copies>>

\* Its saved context is journaled now.
ResolveRecord(p) ==
    /\ pc = "recover"
    /\ Candidate(p)
    /\ "missingFull" \in rejects[p]
    /\ Record(p, "recoverDetail")

ResolveDetail ==
    /\ pc = "recoverDetail"
    /\ \/ Detail /\ rejects' = [rejects EXCEPT ![cur] = @ \cup {"resolved"}]
       \/ Detail /\ UNCHANGED rejects
       \/ NoDetail /\ UNCHANGED rejects
    /\ todo' = todo \ {cur}
    /\ pc' = "recover"
    /\ cur' = None
    /\ UNCHANGED <<broker, file, trades, mem, seen, gap, observed, copies>>

Resolvable(p) == Candidate(p) /\ (trades[p] > 0 \/ "missingFull" \in rejects[p])

\* Mutant of Unknown: a position still tracked is not protected.
UnknownUnprotected(known) == todo \ known

\* Closures outside the known tickets that no tracked state protects.
Unknown(known) == {p \in todo \ known : ~Tracked(mem[p])}

Journaled == {p \in Positions : trades[p] > 0}
Rejected  == {p \in Positions : rejects[p] # {}}

\* They are kept as coverage, out of edge.
Cover(S) == rejects' = [p \in Positions |->
                          IF p \in S THEN rejects[p] \cup {"coverage"} ELSE rejects[p]]

\* The pass ends; only one without a gap lets the turn enter.  Recovery may stop early, and
\* a journal that cannot be read counts as empty.
EndPass ==
    /\ pc = "recover"
    /\ \/ /\ \A p \in todo : ~Resolvable(p)
          /\ Smooth
          /\ Cover(Unknown(Journaled \cup Rejected))
       \/ /\ Mishap
          /\ \/ \E S \in SUBSET Unknown(Journaled \cup Rejected) : Cover(S)
             \/ Cover(Unknown(Rejected))
             \/ Cover(Unknown(Journaled))
    /\ pc' = IF gap THEN "idle" ELSE "entries"
    /\ mem' = Untracked
    /\ seen' = {}
    /\ todo' = {}
    /\ gap' = FALSE
    /\ UNCHANGED <<broker, file, trades, excursions, resolved, cur, observed, copies>>

\* The process dies and is started again.
Crash ==
    /\ pc # "idle"
    /\ Mishap
    /\ pc' = "idle"
    /\ mem' = Untracked
    /\ seen' = {}
    /\ todo' = {}
    /\ cur' = None
    /\ gap' = FALSE
    /\ UNCHANGED <<broker, files, observed, copies>>

(***************************************************************************)
(* The broker, and time.                                                   *)
(***************************************************************************)
ExitPartly(p) ==
    /\ life[p] = "open"
    /\ history[p] = "none"
    /\ history' = [history EXCEPT ![p] = "part"]
    /\ UNCHANGED <<life, files, pass, observed, mishaps, copies>>

Close(p) ==
    /\ life[p] = "open"
    /\ life' = [life EXCEPT ![p] = "closed"]
    /\ UNCHANGED <<history, files, pass, observed, mishaps, copies>>

\* The exit deals of a closed position show, at once or in parts.
Show(p) ==
    /\ life[p] = "closed"
    /\ \E h \in {"part", "all"} \ {history[p]} :
          history[p] # "all" /\ history' = [history EXCEPT ![p] = h]
    /\ UNCHANGED <<life, files, pass, observed, mishaps, copies>>

Aged(t) == [t EXCEPT !.missing = IF @ \in 1..Window THEN @ + 1 ELSE @]

Tick ==
    /\ file' = [p \in Positions |-> Aged(file[p])]
    /\ mem' = [p \in Positions |-> Aged(mem[p])]
    /\ UNCHANGED <<broker, trades, excursions, resolved, rejects, pc, seen, todo, cur, gap,
                   observed, mishaps, copies>>

PassStep ==
    \/ BeginPass
    \/ \E p \in Positions :
          \/ KeepMissing(p) \/ QuarantineMissing(p)
          \/ RejectClosure(p) \/ SkipJournaled(p)
          \/ RecordClosure(p) \/ FailClosure(p)
          \/ ResolveJournaled(p) \/ ResolveRecord(p)
    \/ DetailClosure
    \/ EndPurge
    \/ ResolveDetail
    \/ EndPass
    \/ EndTurn

BrokerStep(p) == ExitPartly(p) \/ Close(p) \/ Show(p)

Next ==
    \/ PassStep
    \/ \E p \in Positions : Enter(p) \/ BrokerStep(p)
    \/ Crash
    \/ Tick

Spec == Init /\ [][Next]_vars

\* The loop keeps turning; the history of a closed position shows in full in the end.
Fairness ==
    /\ WF_vars(PassStep)
    /\ \A p \in Positions : WF_vars(Show(p))

FairSpec == Spec /\ Fairness

(***************************************************************************)
(* Properties.                                                             *)
(***************************************************************************)

\* Every variable has its type.
TypeOK ==
    /\ life \in [Positions -> {"none", "open", "closed"}]
    /\ history \in [Positions -> Exits]
    /\ file \in [Positions -> Track]
    /\ trades \in [Positions -> Nat]
    /\ excursions \subseteq Positions
    /\ resolved \subseteq Positions
    /\ rejects \in [Positions -> SUBSET Kinds]
    /\ pc \in Steps
    /\ mem \in [Positions -> Track]
    /\ seen \subseteq Positions
    /\ todo \subseteq Positions
    /\ cur \in Positions \cup {None}
    /\ gap \in BOOLEAN
    /\ observed \subseteq Positions
    /\ copied \cup unread \subseteq observed
    /\ mishaps \in 0..MaxMishaps

\* A closure is written to the edge journal at most once, though passes repeat after
\* crashes, failed saves and quarantines, and two functions write it.
OneLinePerTrade == \A p \in Positions : trades[p] <= 1

\* A context saved at entry is never dropped before it has its line or its quarantine,
\* which carries it: until then positions.json holds it, whatever fails, or a copy of it if
\* it could not be loaded.  Only a file that can be neither loaded nor copied loses it.
ContextNeverLost ==
    \A p \in observed \ unread :
        \/ file[p].context = "full" \/ p \in copied
        \/ trades[p] > 0 \/ "missingFull" \in rejects[p]

\* A position that was not entered has left no trace.
Unborn ==
    \A p \in Positions : life[p] = "none" =>
        /\ history[p] = "none" /\ p \notin todo /\ p \notin observed
        /\ ~Tracked(file[p]) /\ ~Tracked(mem[p])
        /\ trades[p] = 0 /\ rejects[p] = {}

\* A context that can be measured was saved at an entry.
FullIsObserved ==
    \A p \in Positions : "full" \in {file[p].context, mem[p].context} => p \in observed

\* Between the line and its detail, the line is there.
InProgress ==
    pc \in {"purgeDetail", "recoverDetail"} => cur \in Positions /\ trades[cur] > 0

\* A pass drops a saved context from memory only for its line or its quarantine.
PassKeeps ==
    pc \in {"purge", "purgeDetail", "recover", "recoverDetail"} =>
        \A p \in observed \ unread :
            \/ mem[p].context = "full" \/ p \in copied
            \/ trades[p] > 0 \/ "missingFull" \in rejects[p]

\* The one line that a ticket gets beside the journal carries its saved context.
Unspoilt ==
    \A p \in observed \ (copied \cup unread) :
        rejects[p] = {} \/ trades[p] > 0 \/ "missingFull" \in rejects[p]

\* The journal is sound, and stays so: no closure is counted twice and no saved context is
\* lost, by what a pass holds in memory between its reads and its saves.
IInv ==
    /\ TypeOK
    /\ OneLinePerTrade
    /\ ContextNeverLost
    /\ Unborn
    /\ FullIsObserved
    /\ InProgress
    /\ PassKeeps
    /\ Unspoilt

\* No failure makes an observation without context out of a trade that can be measured: a
\* ticket gets a coverage line only when its context is not there or is journaled.
CoverageIsLastResort ==
    [][\A p \in observed \ (copied \cup unread) :
            "coverage" \in rejects'[p] \ rejects[p]
                => trades[p] > 0 \/ "missingFull" \in rejects[p]]_vars

\* The journal holds closed trades only: a position missing from one snapshot is not one.
JournaledIsClosed ==
    \A p \in Positions : trades[p] > 0 => life[p] = "closed"

\* Every closed position whose entry context was saved, and could be loaded, gets its line
\* in the edge journal.
EveryContextMeasured ==
    \A p \in Positions :
        p \in observed /\ life[p] = "closed" ~> trades[p] > 0 \/ p \in copied \cup unread

\* Every closed position is accounted for, in the edge journal or beside it.
EveryClosureAccounted ==
    \A p \in Positions : life[p] = "closed" ~> trades[p] > 0 \/ rejects[p] # {}

\* No closure is left behind: it is accounted for, and measured if its context was kept,
\* however many passes fail, crash or come before its deals show.
ClosuresEnd == EveryContextMeasured /\ EveryClosureAccounted

\* No closure blocks entries for ever: passes without a gap keep coming.
EntriesResume == []<>(pc = "entries")

=============================================================================
