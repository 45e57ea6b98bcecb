---------------------------- MODULE PendingContexts ----------------------------
(***************************************************************************)
(* The entry context of a limit order, from its placing to its position    *)
(* (titanium/execution/pending_context.py), in the limit mode of           *)
(* tools/live_demo.py: it waits in pending_limits.json under the order's   *)
(* ticket, and each turn reconcile_pending_contexts hands it to a position *)
(* of its symbol and side, to a fill it finds in history, or drops it once *)
(* the order's expiry is past, telling the end in limit_lifecycle.ndjson.  *)
(*                                                                         *)
(* The broker goes on between any two calls: the turn reads positions,     *)
(* then orders, then history, and manage_once reads positions again.       *)
(* Orders are numbered as they are placed; the position an order becomes   *)
(* has its number.  positions.json is the map tracked; what becomes of a   *)
(* tracked position is the subject of ClosureJournal.                      *)
(***************************************************************************)
EXTENDS Integers

CONSTANTS
    MaxOrders,  \* bound on the orders placed
    Slot,       \* the symbol and side of each
    MaxMishaps  \* bound on crashes, failed reads and failed writes

ASSUME PendingAssumption == MaxOrders \in Nat /\ MaxMishaps \in Nat

Orders == 1..MaxOrders

VARIABLES
    (* the broker *)
    order,      \* of each order
    position,   \* of the position it became
    shown,      \* orders whose end, and the deals of it, history shows
    overdue,    \* orders whose expiry is more than a minute past
    (* files *)
    pending,    \* orders in pending_limits.json
    tracked,    \* positions.json: the order whose context a position has, Bare, or Nothing
    told,       \* events of each order in limit_lifecycle.ndjson
    (* memory of a turn *)
    pc,         \* where it is
    seen,       \* the positions it read
    live,       \* the orders it read as live
    keep,       \* pending, as the pass has it
    state,      \* tracked, as the pass has it
    lost,       \* positions whose entry positions.json has and load_state did not give
    changed,    \* whether the pass gave a context to a position (changed_state)
    todo,       \* orders still to settle, or the one just placed
    (* history *)
    saved,      \* orders whose context was saved
    unread,     \* those whose context was in a file that did not load and was replaced
    forgotten,  \* positions whose entry did not load in some pass
    journaled,  \* the context with which a position's closure was journaled
    mishaps     \* mishaps so far

broker  == <<order, position, shown, overdue>>
files   == <<pending, tracked, told>>
turn    == <<pc, seen, live, keep, state, lost, changed, todo>>
history == <<saved, unread, forgotten, journaled>>
vars    == <<broker, files, turn, history, mishaps>>

Nothing == 0
Bare    == -1
Contexts == Orders \cup {Nothing, Bare}

Ends == {"filled", "canceled", "expired", "unknown"}

Mishap == mishaps < MaxMishaps /\ mishaps' = mishaps + 1
Smooth == UNCHANGED mishaps

Init ==
    /\ order = [o \in Orders |-> "none"]
    /\ position = [o \in Orders |-> "none"]
    /\ shown = {}
    /\ overdue = {}
    /\ pending = {}
    /\ tracked = [o \in Orders |-> Nothing]
    /\ told = [o \in Orders |-> {}]
    /\ pc = "idle"
    /\ seen = {}
    /\ live = {}
    /\ keep = {}
    /\ state = [o \in Orders |-> Nothing]
    /\ lost = {}
    /\ changed = FALSE
    /\ todo = {}
    /\ saved = {}
    /\ unread = {}
    /\ forgotten = {}
    /\ journaled = [o \in Orders |-> Nothing]
    /\ mishaps = 0

(***************************************************************************)
(* The broker.                                                             *)
(***************************************************************************)
Fill(o) ==
    /\ order[o] = "live"
    /\ order' = [order EXCEPT ![o] = "filled"]
    /\ position' = [position EXCEPT ![o] = "open"]
    /\ UNCHANGED <<shown, overdue, files, turn, history, mishaps>>

Drop(o, how) ==
    /\ order[o] = "live"
    /\ order' = [order EXCEPT ![o] = how]
    /\ UNCHANGED <<position, shown, overdue, files, turn, history, mishaps>>

Close(o) ==
    /\ position[o] = "open"
    /\ position' = [position EXCEPT ![o] = "closed"]
    /\ UNCHANGED <<order, shown, overdue, files, turn, history, mishaps>>

Over(o) == order[o] \notin {"none", "live"}

Show(o) ==
    /\ Over(o) /\ o \notin shown
    /\ shown' = shown \cup {o}
    /\ UNCHANGED <<order, position, overdue, files, turn, history, mishaps>>

Lapse(o) ==
    /\ Over(o) /\ o \notin overdue
    /\ overdue' = overdue \cup {o}
    /\ UNCHANGED <<order, position, shown, files, turn, history, mishaps>>

(***************************************************************************)
(* The turn, up to the pass.                                               *)
(***************************************************************************)
Forget ==
    /\ seen' = {} /\ live' = {} /\ keep' = {} /\ lost' = {} /\ changed' = FALSE /\ todo' = {}
    /\ state' = [o \in Orders |-> Nothing]

ReadPositions ==
    /\ pc = "idle"
    /\ pc' = "orders"
    /\ seen' = {o \in Orders : position[o] = "open"}
    /\ UNCHANGED <<broker, files, live, keep, state, lost, changed, todo, history, mishaps>>

\* load_state of a positions.json without the entries of these positions: all of them when
\* the file does not parse, those that do not when it does.
Without(entries) == [p \in Orders |-> IF p \in entries THEN Nothing ELSE tracked[p]]

Entries == {p \in Orders : tracked[p] # Nothing}

\* orders_get, for the cap and for the pass; nothing pending, or a pending file that does
\* not load, ends the pass at once.  A positions.json that does not load, whole or in part,
\* does not: the pass goes on without what is missing.
ReadOrders ==
    /\ pc = "orders"
    /\ live' = {o \in Orders : order[o] = "live"}
    /\ \/ /\ pending # {} /\ Smooth
          /\ keep' = pending /\ state' = tracked /\ pc' = "adopt"
          /\ UNCHANGED <<lost, forgotten>>
       \/ /\ pending # {} /\ Mishap
          /\ lost' \in SUBSET Entries \ {{}}
          /\ forgotten' = forgotten \cup lost'
          /\ keep' = pending /\ state' = Without(lost') /\ pc' = "adopt"
       \/ /\ pending = {} /\ Smooth
          /\ UNCHANGED <<keep, state, lost, forgotten>> /\ pc' = "manage"
       \/ /\ Mishap
          /\ UNCHANGED <<keep, state, lost, forgotten>> /\ pc' = "manage"
    /\ UNCHANGED <<broker, files, seen, changed, todo, saved, unread, journaled>>

(***************************************************************************)
(* reconcile_pending_contexts.                                             *)
(***************************************************************************)
Matches(p) == {o \in keep : Slot[o] = Slot[p]}

\* append_limit_event: once per order and event; it can fail.
Tell(o, event) == Smooth /\ told' = [told EXCEPT ![o] = @ \cup {event}]
TellNot        == Mishap /\ UNCHANGED told

\* A position that is not tracked takes the oldest context of its symbol and side, even
\* when the event cannot be written.
Adopt(p) ==
    /\ pc = "adopt"
    /\ p \in seen /\ state[p] = Nothing
    /\ \E o \in Matches(p) :
          /\ \A other \in Matches(p) : o <= other
          /\ Tell(o, "filled") \/ TellNot
          /\ state' = [state EXCEPT ![p] = o]
          /\ keep' = keep \ {o}
    /\ changed' = TRUE
    /\ UNCHANGED <<broker, pending, tracked, pc, seen, live, lost, todo, history>>

\* The orders that are neither adopted nor live; none when the second orders_get failed.
EndAdopt ==
    /\ pc = "adopt"
    /\ \A p \in seen : state[p] = Nothing => Matches(p) = {}
    /\ \/ Smooth /\ todo' = keep \ live
       \/ Mishap /\ todo' = {}
    /\ pc' = "settle"
    /\ UNCHANGED <<broker, files, seen, live, keep, state, lost, changed, history>>

Settled(o) ==
    /\ pc = "settle"
    /\ o \in todo
    /\ todo' = todo \ {o}
    /\ UNCHANGED <<broker, pending, tracked, pc, seen, live, lost, history>>

\* Mutant: a failed event loses the context.
RecoverRegardless(o) ==
    /\ Settled(o)
    /\ order[o] = "filled" /\ o \in shown
    /\ \/ /\ Tell(o, "filled") /\ changed' = TRUE
          /\ state' = [state EXCEPT ![o] = IF @ = Nothing THEN o ELSE @]
       \/ TellNot /\ UNCHANGED <<state, changed>>
    /\ keep' = keep \ {o}

\* History proves the fill (_filled_order_snapshot): what is tracked of the position is
\* completed, or the context becomes its state; without the event all of it waits.
Recover(o) ==
    /\ Settled(o)
    /\ order[o] = "filled" /\ o \in shown
    /\ \/ /\ Tell(o, "filled") /\ changed' = TRUE
          /\ state' = [state EXCEPT ![o] = IF @ = Nothing THEN o ELSE @]
          /\ keep' = keep \ {o}
       \/ TellNot /\ UNCHANGED <<state, changed, keep>>

\* Mutant: an end that history does not show is taken for an expiry.
IssueAssumed(o) == IF o \in shown /\ order[o] = "canceled" THEN "canceled" ELSE "expired"

\* _order_issue.
Issue(o) ==
    IF o \in shown /\ order[o] \in {"canceled", "expired"} THEN order[o] ELSE "unknown"

\* Mutant: only an end that is known is dropped.
PurgeKnown(o) ==
    /\ Settled(o)
    /\ ~(order[o] = "filled" /\ o \in shown)
    /\ o \in overdue /\ Issue(o) # "unknown"
    /\ Tell(o, Issue(o)) /\ keep' = keep \ {o}
    /\ UNCHANGED <<state, changed>>

\* No proof of a fill, and the expiry is past: the end is told and the context dropped;
\* history that cannot be read tells an unknown end.
Purge(o) ==
    /\ Settled(o)
    /\ o \in overdue
    /\ \/ /\ ~(order[o] = "filled" /\ o \in shown)
          /\ \/ Tell(o, Issue(o)) /\ keep' = keep \ {o}
             \/ TellNot /\ UNCHANGED keep
       \/ /\ Mishap
          /\ told' = [told EXCEPT ![o] = @ \cup {"unknown"}]
          /\ keep' = keep \ {o}
    /\ UNCHANGED <<state, changed>>

\* Neither: it waits for the next turn.
Wait(o) ==
    /\ Settled(o)
    /\ o \notin overdue
    /\ (~(order[o] = "filled" /\ o \in shown) /\ Smooth) \/ Mishap
    /\ UNCHANGED <<told, keep, state, changed>>

\* save_state, when a position got a context: the file then has what the pass has, without
\* the entries it did not load, which remain in a copy.  A failure ends the turn.
SaveState ==
    /\ pc = "settle" /\ todo = {}
    /\ \/ /\ changed /\ Smooth
          /\ tracked' = state
          /\ unread' = unread \cup ({tracked[p] : p \in lost} \cap Orders)
          /\ pc' = "write"
       \/ ~changed /\ Smooth /\ UNCHANGED <<tracked, unread>> /\ pc' = "write"
       \/ changed /\ Mishap /\ UNCHANGED <<tracked, unread>> /\ pc' = "end"
    /\ UNCHANGED <<broker, pending, told, seen, live, keep, state, lost, changed, todo>>
    /\ UNCHANGED <<saved, forgotten, journaled>>

WritePending ==
    /\ pc = "write"
    /\ \/ Smooth /\ pending' = keep /\ pc' = "manage"
       \/ Mishap /\ UNCHANGED pending /\ pc' = "end"
    /\ UNCHANGED <<broker, tracked, told, seen, live, keep, state, lost, changed, todo>>
    /\ UNCHANGED history

(***************************************************************************)
(* manage_once, in one step: it reads the positions and positions.json     *)
(* again, adopts bare what is not in it, and journals the closures whose   *)
(* deals it finds; one it does not find is a gap, and a turn with a gap    *)
(* enters nothing.  A closed position whose entry does not load is neither *)
(* journaled nor a gap, and the file is saved without it.                  *)
(***************************************************************************)
Closed == {p \in Entries : position[p] = "closed"}

ManageWithout(entries) ==
    /\ pc = "manage"
    /\ \E found \in SUBSET (Closed \ entries) :
          /\ tracked' = [p \in Orders |->
                IF p \in found THEN Nothing
                ELSE IF position[p] = "open" /\ Without(entries)[p] = Nothing THEN Bare
                ELSE Without(entries)[p]]
          /\ journaled' = [p \in Orders |->
                IF p \in found /\ journaled[p] = Nothing THEN tracked[p] ELSE journaled[p]]
          /\ pc' = IF found = Closed \ entries THEN "entries" ELSE "end"
    /\ unread' = unread \cup ({tracked[p] : p \in entries} \cap Orders)
    /\ UNCHANGED <<broker, pending, told, seen, live, keep, state, lost, changed, todo>>
    /\ UNCHANGED <<saved, forgotten>>

Manage ==
    \/ Smooth /\ ManageWithout({})
    \/ Mishap /\ \E entries \in SUBSET Entries \ {{}} : ManageWithout(entries)

(***************************************************************************)
(* Entries.                                                                *)
(***************************************************************************)
\* One limit waits at most (MAX_LIMITES_EN_ATTENTE), by the orders read in this turn.
Place(o) ==
    /\ pc = "entries"
    /\ live = {}
    /\ order[o] = "none" /\ \A u \in Orders : u < o => order[u] # "none"
    /\ order' = [order EXCEPT ![o] = "live"]
    /\ todo' = {o}
    /\ pc' = "save"
    /\ UNCHANGED <<position, shown, overdue, files, seen, live, keep, state, lost, changed>>
    /\ UNCHANGED <<history, mishaps>>

\* _memoriser_contexte_limit, then the event; each can fail without a word, and a file
\* that does not load is replaced.
SavePending ==
    /\ pc = "save"
    /\ \E o \in todo :
          \/ /\ pending' = pending \cup {o} /\ saved' = saved \cup {o}
             /\ Tell(o, "placed") \/ TellNot
             /\ UNCHANGED unread
          \/ /\ pending' = {o} /\ saved' = saved \cup {o} /\ unread' = unread \cup pending
             /\ Mishap /\ told' = [told EXCEPT ![o] = @ \cup {"placed"}]
          \/ /\ UNCHANGED <<pending, saved, unread>>
             /\ Mishap /\ told' = [told EXCEPT ![o] = @ \cup {"placed"}]
    /\ pc' = "end"
    /\ UNCHANGED <<broker, tracked, seen, live, keep, state, lost, changed, todo>>
    /\ UNCHANGED <<forgotten, journaled>>

EndTurn ==
    /\ pc \in {"entries", "end"}
    /\ pc' = "idle"
    /\ Forget
    /\ UNCHANGED <<broker, files, history, mishaps>>

Crash ==
    /\ pc # "idle"
    /\ Mishap
    /\ pc' = "idle"
    /\ Forget
    /\ UNCHANGED <<broker, files, history>>

Pass ==
    \/ ReadPositions \/ ReadOrders \/ EndAdopt \/ SaveState \/ WritePending \/ Manage
    \/ SavePending \/ EndTurn
    \/ \E o \in Orders : Adopt(o) \/ Recover(o) \/ Purge(o) \/ Wait(o)

Broker ==
    \E o \in Orders : Fill(o) \/ Drop(o, "canceled") \/ Drop(o, "expired") \/ Close(o) \/ Show(o)

Next == Pass \/ Broker \/ Crash \/ \E o \in Orders : Place(o) \/ Lapse(o)

Spec == Init /\ [][Next]_vars

\* Turns follow each other, and time passes.
FairSpec == Spec /\ WF_vars(Pass) /\ \A o \in Orders : WF_vars(Lapse(o))

(***************************************************************************)
(* Properties.                                                             *)
(***************************************************************************)
TypeOK ==
    /\ order \in [Orders -> {"none", "live", "filled", "canceled", "expired"}]
    /\ position \in [Orders -> {"none", "open", "closed"}]
    /\ shown \in SUBSET Orders /\ overdue \in SUBSET Orders
    /\ pending \in SUBSET Orders /\ saved \in SUBSET Orders /\ unread \in SUBSET Orders
    /\ seen \in SUBSET Orders /\ live \in SUBSET Orders
    /\ keep \in SUBSET Orders /\ todo \in SUBSET Orders
    /\ lost \in SUBSET Orders /\ forgotten \in SUBSET Orders /\ changed \in BOOLEAN
    /\ tracked \in [Orders -> Contexts]
    /\ state \in [Orders -> Contexts]
    /\ journaled \in [Orders -> Contexts]
    /\ told \in [Orders -> SUBSET (Ends \cup {"placed"})]
    /\ pc \in {"idle", "orders", "adopt", "settle", "write", "manage", "entries", "save", "end"}
    /\ mishaps \in 0..MaxMishaps

\* At most one limit order waits at the broker, the last one placed; a turn that read no
\* live order may place the next.
OneWaits ==
    /\ \A u, v \in Orders : u < v /\ order[v] # "none" => Over(u)
    /\ pc \in {"adopt", "settle", "write", "manage", "entries"} /\ live = {} =>
         \A u \in Orders : order[u] # "live"

\* A position is an order's that filled, and its closure is journaled after it closed.
Fills ==
    \A p \in Orders :
        /\ position[p] # "none" <=> order[p] = "filled"
        /\ journaled[p] # Nothing => position[p] = "closed"
        /\ p \in seen => position[p] # "none"

\* By the time another order is placed, an open position is tracked, unless its entry was
\* once lost by a load.
TrackedBeforeNext ==
    /\ \A p, v \in Orders :
         p < v /\ order[v] # "none" /\ position[p] = "open" =>
           tracked[p] # Nothing \/ p \in forgotten
    /\ pc = "entries" /\ live = {} =>
         \A p \in Orders : position[p] = "open" => tracked[p] # Nothing
    /\ pc \in {"orders", "adopt", "settle"} => \A p \in seen :
         /\ journaled[p] = Nothing
         /\ tracked[p] = Nothing =>
              p \in forgotten \/ \A v \in Orders : p < v => order[v] = "none"

\* A context is saved for an order that was placed.
KnownOrders ==
    /\ pending \subseteq saved
    /\ \A o \in saved : order[o] # "none"
    /\ pc = "save" => \A o \in todo : order[o] # "none"

\* An order the pass settles was not live when the turn read the live ones.
NotLive ==
    /\ pc \in {"adopt", "settle"} => \A o \in Orders : order[o] = "live" => o \in live
    /\ pc = "settle" => todo \subseteq keep \ live

\* The end of an order has been told.
Ended(o) == told[o] \cap Ends # {}

\* A context is given to a position once, or the end of its order is told.
GivenOnce ==
    \A p, o \in Orders : tracked[p] = o => journaled[p] = Nothing \/ Ended(o)

\* What the pass holds in memory is what the files hold, less the entries that did not load
\* and what it has told or handed on; it saves what it handed on.
PassAgrees ==
    /\ lost \subseteq forgotten
    /\ pc \in {"adopt", "settle", "write"} =>
         /\ keep \subseteq pending
         /\ \A o \in pending \ keep : (\E p \in Orders : state[p] = o) \/ Ended(o)
         /\ \A p, o \in Orders :
              state[p] = o => journaled[p] = Nothing \/ Ended(o)
    /\ pc \in {"adopt", "settle"} =>
         /\ \A p \in Orders \ lost : tracked[p] # Nothing => state[p] = tracked[p]
         /\ ~changed => \A o \in pending \ keep : Ended(o)
    /\ pc = "write" =>
         \A o \in pending \ keep : (\E p \in Orders : tracked[p] = o) \/ Ended(o)

\* Somewhere a context can still be measured from.
Held(o) == \E p \in Orders : o \in {tracked[p], journaled[p]}

\* A saved context leaves pending_limits.json only for a position, or with the end of its
\* order told, whatever fails and wherever the process dies; a file that did not load and
\* was replaced is the one exception: pending_limits.json when the next order is saved, and
\* positions.json, of which load_state keeps a copy.
ContextAccounted ==
    \A o \in saved \ (pending \cup unread) : Held(o) \/ Ended(o)

\* A fill that can be told of an order: the pass pairs a position and a context by symbol
\* and side, so that it may be the fill of a later order; of an earlier one only when a
\* load had lost that position's entry.
FillToTell(o) ==
    \E p \in Orders :
        /\ Slot[p] = Slot[o]
        /\ position[p] # "none"
        /\ o <= p \/ p \in forgotten

\* What the lifecycle journal tells of the end of an order: a cancellation or an expiry is
\* the broker's, an unknown end is the end of an order that is over, and a fill is one of its
\* symbol and side, its own or of a later order.
TellsTruth ==
    \A o \in Orders :
        /\ \A end \in {"canceled", "expired"} : end \in told[o] => order[o] = end
        /\ "unknown" \in told[o] => Over(o)
        /\ "filled" \in told[o] => FillToTell(o)

\* The inductive invariant behind the two.
IInv ==
    /\ TypeOK
    /\ OneWaits
    /\ Fills
    /\ TrackedBeforeNext
    /\ KnownOrders
    /\ NotLive
    /\ GivenOnce
    /\ PassAgrees
    /\ ContextAccounted
    /\ TellsTruth

\* An order told filled did fill.
FilledDidFill == \A o \in Orders : "filled" \in told[o] => order[o] = "filled"

\* A position of a limit order whose context was saved is tracked with that context.
OwnContext == \A p \in saved : tracked[p] \in {Nothing, p}

\* The context of an order that is over does not wait for ever.
PendingDrains == \A o \in Orders : (o \in pending /\ Over(o)) ~> o \notin pending

=============================================================================
