# Titanium V14 in TLA+

Titanium V14 is a trading bot for a MetaTrader 5 DEMO account. Its safety rests on a
few small state machines written around files and an unreliable broker: an entry is
sent at most once, a closed trade is journaled exactly once, losses close the account to
entries, a stop never widens, an entry waits while a publication is near or
unknown, and a backtest never fills more than it was asked for. These
modules specify those state machines from the code, check them with TLC and prove the
most important results with TLAPS.

Paths below are relative to the repository. `execution/` is `titanium/execution/` and
`execution_sim/` is `titanium/execution_sim/`.

## 1. The system

One process, `tools/live_demo.py`, turns every ten seconds (`INTERVALLE`). A turn, `tour()`,

1. reads positions and orders, hands the contexts of limit orders to the positions they became
   (`reconcile_pending_contexts`), and manages open positions (`manage_once`): snapshot, adoption,
   exits and stops, then the bookkeeping of positions that have closed, then history recovery,
2. reconciles the entry ledger with the broker (`reconcile_recorded`),
3. evaluates the loss guard on the journal,
4. scans and ranks signals, and for each candidate evaluates the loss guard again and sends
   an entry through `execute_recorded`.

An entry is possible only if 1 reports no gap, 2 answers OK and 3 answers ALLOW. Turns are
sequential; concurrency comes from the broker, from the operator, from a second loop or
manager on the same files, from a process that dies anywhere and is started again, and from the
thread that reads the macro calendar.

| Part | State it keeps | Operations | What makes it correct |
|---|---|---|---|
| Entry ledger, `execution/execution_ledger.py` with `mt5_executor.py`, `limit_orders.py` | SQLite: intents, order tickets, deals; in memory a cursor and the keys already sent | `execute_recorded`, `reconcile_recorded`, `resolve_no_broker_order` | one send per intent; an uncertain send blocks every entry; a closed verdict is true and final; every filled order is collected; entries resume |
| Closure journaling, `execution/position_manager.py`, `history_recovery.py`, `edge.py` | `positions.json`, `trades.ndjson`, `excursions.ndjson`, `journal_rejets.ndjson`, the decision registry | purge of `manage_once`, `journaliser_cloture`, `_quarantiner_rejet`, `recover_unobserved_closures` | one line per trade; no context lost; every closure measured or accounted for; no gap for ever |
| Loss guard, `execution/live_loss_guard.py` | a latch file per account | `evaluate_live_loss_guard`, `persist_live_loss_quarantine`, both reads in the turn | no entry past a limit; a block sticks; the guard reopens |
| Protective stops and exits, `execution/position_manager.py` | R, phase and peak of each position; its stop at the broker | adoption, `decide_new_sl`, `decide_adaptive_exit`, requests and answers | a stop never widens; R is frozen; memory ratchets; an exit or trail is asked for until obtained |
| Event-driven simulation, `execution_sim/runner.py`, `oms.py`, `matching.py` | orders, scheduled submissions, the portfolio | schedule, submit, match, decide | no overfill, one working order, no fill in the past |
| Sequential simulation, `execution_sim/sequencing.py`, `fills.py`, `engine.py` | orders, the fill budget | `executer_sequentiel` with three profiles | budget, ladder, activation time |
| Pending contexts, `execution/pending_context.py` | `pending_limits.json`, keyed by order; the lifecycle journal | save, reconcile, tell | no saved context disappears in silence; an end is told only of what ended; nothing waits for ever |
| Micro baskets and weekly flat, `execution/micro_basket.py`, `weekend_flat.py`, with the entry rules of `tools/live_demo.py` | peaks of baskets; positions read at the start of a turn; the server's clock | exits of baskets and before the weekly close; entries on a symbol that has positions | caps hold on stale reads; nothing crosses the week unexplained; a basket yields |
| Macro calendar, `titanium/macro/` | the cache; the service's thread, its event and the demand to stop | start, stop, read, publish, fail, back off; the verdict on a symbol | no entry at a publication that was shown; one reader; a stop that is heard, in time for a read that keeps its budget |
| Stand-alone manager, `execution/manage_loop.py` | the same files as the loop | a second `manage_once` | planned |
| Risk gate, sizing, correlation, confluence gate, selection | none or configuration | pure decisions | abstracted to "accepted or refused" |
| Edge book, cohorts, decision registry | append-only, hash-chained files | append, read, statistics | planned |
| Market analysis, emotion, advisers, orchestrator, web, tools, research agents, deployment | — | numerical work, views, services | not modelled: no shared protocol state, or outside input |

`PROJECT.json` lists the parts one by one with their status.

### What is hard to test

Crashes between two writes (an intent and its verdict, a journal line and `positions.json`);
answers that are lost, late or wrong by omission (`order_send` returning nothing, a snapshot
without a live position, a history that shows a deal late); writes and reads that fail; two
writers on one file; state decided on in one pass and overtaken by the broker before the
request; a verdict computed at the start of a turn and used minutes later; orders that go on
filling while they are being cancelled; a thread told to stop before it can hear; a producer that is
dead and still answers. The `hazards` of `PROJECT.json` give each its line
and the properties that would notice.

## 2. The modules

| Module | Models |
|---|---|
| `EntryIntents` | abstract specification: what the ledger promises |
| `ExecutionLedger` | the ledger, the executors, loops and broker; implements `EntryIntents` |
| `ExecutionLedgerProofs` | its theorems |
| `ClosureJournal`, `ClosureJournalProofs` | from entry to the line in the edge journal, and theorems |
| `LossGuard`, `LossGuardProofs` | the journal's verdict and its latch, and theorems |
| `ProtectiveStops`, `ProtectiveStopsProofs` | stop and adaptive exit of a position, and theorems |
| `PendingContexts`, `PendingContextsProofs` | the context of a limit order, from its placing to its position, and theorems |
| `ManagedBook`, `ManagedBookProofs` | the positions of one symbol between exits and entries, through a week, and theorems |
| `MacroFeed`, `MacroFeedProofs` | the macro service, its cache and the gate's verdict, and theorems |
| `OrderManager` | transitions of one simulated order, shared by the next two |
| `EventExecution` | cancel/replace, pegged, vwap and pov |
| `SequentialExecution` | orders sent one after another under a fill budget |
| `SimulatedExecutionProofs` | theorems of both simulations |
| `MC...` | sets, symmetry and instances for TLC |

Definitions commented *Mutant* are not part of a specification: each is a plausible
mistake in the definition beside it, and a property that did not notice it would say nothing.

### ExecutionLedger

`state`, `ticket`, `age`, `rows` and `deals` are the SQLite file; `pc`, `cur`, `result`,
`batch`, `cursor` and `sentKeys` are each loop's memory, lost by `Crash`; `requests`, `orders`,
`filled`, `expired` are the broker's. `Reserve` is the transaction that inserts the intent
(one commit, before anything is sent). `Refuse`, `Transmit`, `Reply` and `Return` are an executor
up to its refusals, its `order_send` and the answer, which may be lost while the request is on
its way (`Arrive` decides later, up to `MaxDelay`). `Persist` writes the verdict of `Classify`, or
fails. `BeginReconcile`, `InspectRow`, `ReconcileFails` and `EndReconcile` are one bounded,
rotating batch. `BeginReview` and `EndReview` are the two transactions of the operator's
`resolve_no_broker_order`, between which everything else may happen.

Taken from the code's environment: an account that another program does not trade, the
broker's refusal codes mean refusal, an order carries its tag as soon as it exists, and no send
takes effect later than `MaxDelay`, which is less than the age the review asks for
(`LedgerAssumption`). That last one is the bet `min_age_s` makes; without it a review can close an
intent whose order arrives afterwards. A reconciliation reads the ticket a row has when it is
inspected, where the code has the one of the start of the batch.

### ClosureJournal

One pass: `BeginPass` takes the snapshot and adopts; each tracked ticket that is not in it is
judged (`KeepMissing`, `QuarantineMissing`, `RejectClosure`, `SkipJournaled`, `RecordClosure`
followed by `DetailClosure`, `FailClosure`); `EndPurge` saves `positions.json` or fails to; `Resolve...` and
`Cover` are history recovery; `EndPass` and `EndTurn` end it. A trade line and its excursion
are two steps, with crash or failure between them. `positions.json` that does not load is copied and
replaced by an empty state, or only replaced when the copy fails (`Unreadable`).

Abstracted: R, costs and sanity bounds to a context that can be measured (`full`) or never can
(`bare`); instants to the time an exit has been missing, up to `Window`. The look-back of the
history reads (7 and 30 days) never expires, tickets of order and position coincide, and appends
do not tear (`LossGuard` has the torn line, on the reader's side).

### LossGuard

`Evaluate` is the verdict on a journal: ticket by ticket the latest line counts, lines without exact
accounts make it WAIT only while they are recent, a line that cannot be read makes it WAIT whatever its age
(live_loss_guard.py:302-306, 319-320), and the sums of a day and of the window are compared with the limits. `Tear` is a crash in
the middle of an append, after which the next line is glued to the broken one (edge.py:153); only `Repair` puts it right. `Guard` adds the latch: valid, absent or invalid, and WAIT if it cannot be
written. `FirstGuard` and `FinalGuard` are its two evaluations in a turn. Days stand for instants, and
the start of a cohort is in the `past` line; a naive date makes a line inexact, dates in the future are left out. An empty
journal WAITs, as in the code. Repairs of the journal happen while the loop is stopped.

### ProtectiveStops

One position, in favourable ticks from its entry, so that long and short are the same. The
broker moves the price and closes at stop or target (`Quote`). A pass loads what is
remembered, adopts the position if nothing is, updates the peak, and either asks for an exit or
for a better stop (`Decide`), never both. The answer may be a refusal, a partial execution or
come too late. `Save`, `SaveFails`, `Crash` and `BeginUnreadable` are the end of a pass and its mishaps.
The percentages of `ManageParams` are in the definitions, and levels are compared in hundredths of
a tick before rounding, as the code compares before it rounds. Exits wanted for weekend, fear
or basket are one nondeterministic demand; a partial exit counts as not done, since the position goes on.

### PendingContexts

`pending`, `tracked` and `told` are `pending_limits.json`, the context each position has in `positions.json`, and the lifecycle journal.
A turn reads positions, then orders and `positions.json` (`ReadPositions`, `ReadOrders`), and reconciles: `Adopt` gives a position that is not tracked the oldest context of its
symbol and side; `Recover` finds a fill in history; `Purge` tells an end once the expiry has passed; `Wait` leaves it. `SaveState`, which happens only when a position got a context, and `WritePending`
are the two files, one after the other. `Manage` is `manage_once` in one step, after a second read of the positions. The broker acts between any two of these.
`positions.json` may not load, whole or entry by entry (`load_state`, position_manager.py:652-681), for the reconciliation or for `manage_once`: the pass goes on without the entries
(`Without`), an open position whose entry is missing counts as not tracked, a closed one is neither journaled nor a gap, and what is saved overwrites the file. `lost` is what the
reconciliation did not get; the history `forgotten` remembers it for the properties.
The code writes the lifecycle event before the files, so a crash may repeat it under the same key: events are sets.
The position an order becomes has its number, which is the ticket rule of the broker; a partial fill is no proof for `_filled_order_snapshot` and is not modelled.

`TellsTruth` says as much of the lifecycle journal as the code provides: "canceled" and "expired" are what the broker did, an unknown end is told of an order that ended, and "filled" is
told because a position of that symbol and side opened, its own or that of a later order, or because an older position's entry did not load. That the order itself filled is not true (`LimitFilled.cfg`, §5).

### ManagedBook

One symbol outside crypto, through the phases of a week: `week`, `friday` (the window is open and the market trades), `closed` (the last tick is still fresh),
`asleep`, `monday` (it trades again, and the window has not ended). `Snapshot` is the read at the start of a turn, with the risk of each position or without;
`Pass` is `manage_once`: it reads the clock and the peak, asks for the exits of the weekly window and of a basket that gives its advantage back, of which the broker
carries out some, and saves, fails to, or dies in between. `ReadClock`, `Decide` and `Enter` are the entry stage: its own read of the clock; `_autoriser_empilement` at the price of the moment
and the cap on the risk of the symbol, both on the positions of `Snapshot` (live_demo.py:2256-2268, 2319-2333); and the send, after the other gates and the loss guard, which fills at the price it
then finds (live_demo.py:2412-2434). Between the two the price moves and positions close. The cap is compared with the risk the entry was sized to, and `risk` is that one; what a fill away from
the price of the decision adds to it is not modelled. `number` tells positions apart that are otherwise alike. A clock is right, late by a phase, or unreadable; anything but right and complete is a mishap.
A turn is much shorter than the two hours between the start of the window and the close, so that at least one pass happens in it (`Advance`).

### MacroFeed

The producer (`Announce`, `Break`, `Mend`) is outside. `thread` is where each thread of the service is; `bell` is its `asyncio.Event`, `rung` between
`call_soon_threadsafe` and the callback (`Ring`). `Start`, `Stop` and `Join` are the calls of `MacroService`, with its lock as one step each; `Arm`, `EndRead`, `Wake`, `End` are the
loop of the thread, `Collapse` any exception of it. A read takes any time: the `timeout` of `requests.get` (sources.py:259-261) bounds the connection and each wait for data, not their sum, and a file
has none. The producer answers at its beginning or at some later instant of it (`Answer`); the read returns that answer, or fails if the source was down at any instant since it began, though it may
be back by now (`EndRead`). `begun` is when it began and `failedAt` the cache's `last_attempt_at`. `Verdict` and `Passes` are
`evaluate_macro_risk` and the macro moderator of the gate. `since` is a history variable: since when the producer has shown a publication.
The flow is on (`policy.enabled`). `stop` with its own delay and with one the caller gave (0) are both modelled; only the first promises the end, and of reads that keep `timeout_s`.

### OrderManager, EventExecution, SequentialExecution

An order is a status, a quantity and what is filled; a snapshot fills any part of it that its type
allows. `EventExecution` has the loop of the runner: on each snapshot submit what is due, match
what is open, then let the policy decide. What it decides, when, and what the risk engine
refuses is nondeterministic, so every configuration of the policies is included, and delays are
up to `MaxDelay` snapshots. `SequentialExecution` has the plan, the budget, the three profiles and the
rounding of activation times; a snapshot lasts two ticks, so that an order may be due within
one. The plan is chosen order by order, from all those of its family. `executed` is the list the code returns, `stage` where
its loops are. The two modules share `OrderManager`, with the quantity of the intent and the number of snapshots, and no other name, so that one module
can prove theorems about both.

Not modelled: `replace`, `cancel_all` and OCO groups of `oms.py`; the multi-leg, twap, iceberg and hedge
loop at the end of `executer_sur_snapshots`; `reduce_only`. The id of an order that was dropped or refused may
be used again in the model, which only makes more behaviours possible.

## 3. The runs

Every run that passes has its properties listed in `PROJECT.json`. A property that is the conjunction of
others (`IInv`, `BooksSound`, `LadderHolds`, `OnlyTightens`, `ClosuresEnd`) is checked as one.

| Run | Instance | What it asks |
|---|---|---|
| `LedgerTwoLoops` | 2 loops, 2 intents, one mishap, symmetry | the inductive invariant; does the ledger send once and block while in doubt, with two loops on one file |
| `LedgerOneLoop` | 1 loop, 2 intents, limit mode, batch of 1, one mishap, fair | rows under review keep blocking, the refinement of `EntryIntents`, and liveness: fills collected, entries resume |
| `ClosureSafety` | 2 positions, 3 mishaps, symmetry | one line per trade, contexts kept, coverage only as a last resort |
| `ClosureLive` | 1 position, 4 mishaps, fair | every saved context measured, every closure accounted for, gaps end |
| `GuardHolds` | 2 positions, 3 lines, window of a day, one mishap, fair | order of lines, torn ones included, daily limit, latch, reopening |
| `EventExecution` | 5 orders, 6 snapshots, quantity 4, delay up to 2, symmetry | the inductive invariant (one working order that never overfills), slices, no idle policy, no fill in the past |
| `SequentialExecution` | plans of 3 orders, 4 snapshots, quantity 3 | budget, ladder, activation index |
| `ProtectiveStops` | 9 prices, risk 8, 2 spreads, 2 mishaps, with and without trailing, fair | the inductive invariant (R is frozen), stop and memory only tighten; exits and trails obtained |
| `StopsBreakeven` | no mishap, no trailing, fair | *violated*: a refused breakeven is never asked for again |
| `PendingContexts` | 2 orders of one symbol and side, one mishap, a file that does not load included, fair | contexts accounted for, ends told only of what ended, nothing waits for ever |
| `ManagedBook` | 3 prices, up to 3 positions, risks 1 and 2 under a cap of 3, 1 mishap, fair | the inductive invariant (what was decided still fits when it is sent), caps, the weekly close, peaks, baskets that yield |
| `MacroFeed` | 2 publications, 3 symbols, 2 threads, 4 instants, reads of any length, fair | the inductive invariant, no blind entry, recovery, stop |

**Why these bounds.** Two loops and two intents are what it takes for a loop to enter, review or
settle under another; with a batch of one and two rows the rotation must work to reach the second.
Three mishaps in a pass cover a failed line, a failed save and a bad snapshot of the same closure. Three
journal lines give one ticket a correction and the other a result. Five orders are a first order and
four generations of replacement; six snapshots let a delayed replacement itself be replaced and
filled late. The prices of `ProtectiveStops` fall on every side of the thresholds of 0.8 R and 1.2 R, of the floor, the
stop and the clearance. Two orders of `PendingContexts` are the one that waits and the next that could take
its context. In `ManagedBook` three positions of risk 1, or one of 1 and one of 2, fill the cap; a same-side entry is decided two steps away from the first and
fills anywhere, so three prices have it fill beside or on it; two steps take a basket past its arming and back through its floor, and the thresholds are those of `BasketParams` in the units of the module.
`MacroFeed` lets a publication come into its freeze and leave it, and a read, a stop and a backoff overlap; two
threads are a service stopped and started again. The producer's clock is right there (`Drift`, `Skew`); the
proofs have it ahead. Offsets of `SequentialExecution` fall within, at and after the last snapshot.

`MaxMishaps` bounds how often the environment misbehaves, `MaxLines` how often the journal is repaired or reordered and a line torn, `MaxTime` the clock and the announcements of `MacroFeed`; ages
and delays saturate where the code's comparisons no longer change. Deadlock is checked wherever
the system runs for ever; it is not in the two simulations, which return, nor in `ProtectiveStops`,
where a closed position is the end, nor in `MacroFeed`, whose clock ends.

**Fairness.** The loop catches what a turn raises and runs the next one, so its steps are weakly fair. The broker
answers what it has received and history shows in the end. The days go by (`LossGuard`). Nothing is
owed of crashes, failures, operators, prices or policies. The macro thread is scheduled: time waits for a wake-up that is due or an event that
is set, since those take microseconds where time counts in seconds. A read returns, though nothing says when. The market opens again after a weekly close, and the expiry of a limit order
passes (`ManagedBook`, `PendingContexts`). `ProtectiveStops` also assumes strong fairness of
a granted exit and a granted stop: a request made again and again is not refused for ever,
which is what "asked for until obtained" means. `StopsBreakeven` fails in spite of it. Liveness
is stated of what eventually stays true where an environment could otherwise undo it for ever.

## 4. What is proved

For every value of the constants allowed by the named assumptions of each module. Every safety
property of the passing runs, invariant or action property, is stated by a theorem.

The sums that the properties are about (the fills of a list of orders, the losses of a day, the risk of
a book) are defined as the cardinality of a set of lots or units, one element for each. They are then
finite sets, and adding a fill, closing a position or reading a journal in another order is an
argument about disjoint unions and bijections, where a recursive sum would ask for an induction over data.

**ExecutionLedger** (`Invariance`). The safety properties are not inductive alone: that a
closed intent has no order depends on what a result in a loop's hands proves. `IInv` adds
that an executing loop owns an uncertain intent (`OwnsItsIntent`), that whatever the broker has
comes from the one attempt (`AttemptsAccount`), that a result which will close or acknowledge its intent is
evidence of it (`ResultsAreProof`), and that a review comes after the last effect of a send
(`SendsAreTimely`, where `MaxDelay < ReviewAge` is used). From it: `NeverSentTwice`, `ClosedIntentsAreEmpty`,
`ExecutionKeepsItsIntent`, `EntriesWaitForDoubt`, `VerdictsAreFinal`, and `LedgerKeepsPromise`: every step of the
ledger maps to a step of `EntryIntents` or to a stutter, under `phase <- Phase(state)` and
`tried <- {i : attempts[i] > 0}`. There is one lemma per part of the invariant a step can disturb.

`DoubtBlocksForGood` is `UnknownOrderBlocks` for one loop (`OneLoop`). The hypothesis is needed: a second loop can
put an intent in doubt while the first still holds its result, and the first loop's last UPDATE then overwrites the doubt (§5).
`DoubtStays` is what holds for any number of loops: an intent in doubt that has an order leaves doubt only
by that UPDATE of the loop that sent it. With one loop the sender has no reconciliation in between (`ExecutingIsFresh`).

**ClosureJournal** (`ClosureInvariance`). That no saved context is lost across a save needs to know what the pass holds in
memory between its reads and its saves (`PassKeeps`), and that no other reject line is in the way of the quarantine that carries it
(`Unspoilt`), since a ticket gets one line. `FullIsObserved` and `Unborn` say where contexts come from, `InProgress` that a detail
has its line. From it no ticket has two lines, `ContextsAreKept` and `CoverageComesLast`, for any number of positions,
any window, and any number of crashes, failed reads and writes, and bad snapshots.

**LossGuard**. `BooksAreSound` has two halves. That a BLOCK which was not acknowledged has its latch, valid or damaged, and that
no turn is past the final guard with it, is inductive (`LatchInvariance`, from it `BlocksHold`), with the verdict uninterpreted. That the
verdict does not depend on the order of the lines (`VerdictIgnoresOrder`) goes through the bijection between the two
orders: each ticket keeps its latest line, so days and window have the same units. `DailyLimitIsKept` relates the loss of the day to the moment of the
entry: between the final guard and the entry nothing adds a loss of today, and midnight only forgets some (`WithinLimit`). It
assumes a limit that is not zero, as `DAILY_LOSS_LIMIT_R` is 2 (live_loss_guard.py:21).

**EventExecution** (`EventInvariance`). `BookOK`: what the portfolio holds plus what the current order
can still fill is at most the intent (`FitsIntent`); while its cancel is pending the order still fills, and the
replacement takes the remainder of that moment. `OneChain`: only that order works, and what
is scheduled replaces it. `SlicesFit`: the lots of all slices together with what is left of the plan are within the intent. `NothingForgotten`: while no
submission has been refused, what is filled and what the chain still asks for are the whole intent, and something works or is scheduled for it. From these `ReplacingNeverOverfills`, `OneOrderAtWork`, `SlicesStayWithinIntent`,
`ReplacingNeverIdles`; `NothingFillsInThePast` adds `Dated`: in each step
of the loop, how the decision of every order stands to the snapshot of that step.

**SequentialExecution** (`SequentialInvariance`). A rung asks for what the budget has left, which is what the rungs before
it left only because the budget knows every fill but those of the order at work (`BudgetKnows`) and no rung before it
can fill again (`RungsAreOver`); both need that what is matched is the last order and works (`MatchesInTime`, which
also says that matching starts no earlier than `StartIndex`). From it `LaddersHold`, `BudgetsBoundFills` and `NothingIsEarly`, for any plan.
`BudgetsBoundFills` supposes that the engine does not run the family `adaptive`, to which it gives no
budget: `SequentialOverfill.cfg` shows what happens then (§5).

**ProtectiveStops** (`StopsInvariance`). `FrozenR` needs to know that an empty memory means an untouched
stop (`Untouched`), and the ratchet that a pass is never behind its file (`NeverBehind`); `Improves`
holds of a target because nobody else moves the stop. From it `RIsFrozen`, `StopNeverWidens` and
`FileIsRatchet`, for any prices, risk, spreads and number of mishaps. `ProtectionOnlyTightens` puts the last two together.

**PendingContexts** (`PendingInvariance`). That a context is never dropped in silence needs to know what a pass that has not
saved yet owes the files (`PassAgrees`: what it holds is what the files hold, less the entries that did not load and what it has told or handed on), and that a context handed over once is journaled
or its end told (`GivenOnce`). That an end is told only of an order that ended needs `NotLive`: an order that is settled was not among the live ones of this turn. That a context told "filled"
met a fill of its own or of a later order needs the cap of one waiting limit (`OneWaits`) and `TrackedBeforeNext`: by the time the next order is placed an older position is tracked, unless a load
lost its entry. From it `NoContextIsDropped` and `LifecycleIsTrue`, for any number of orders, slots and mishaps, failed loads included.

**ManagedBook** (`BookInvariance`). A turn decides on what it read first; that is safe because nothing but its own last step adds
a position: up to the decision what it read covers what is open (`SeenCovers`), and from the decision to the send what it decided still fits what is open (`OfferFits`: one more may open, and the price of
the decision, not that of the fill, is better than each). So the number it read bounds the number open (`Counted`) and the risk it read the risk (`Budgeted`, kept by `BudgetKept`). `Sweeps` carries a clean pass of the
window through to the close. From it `CrossingsAreExplained`, `NeverTooMany`, `BudgetHolds` (the risk of the symbol stays under
its cap) and `PeaksAreKept` (the peak of a basket falls only when the basket ends or by a mishap), for any prices, sizes and caps.

**MacroFeed** (`FeedInvariance`). `NothingInvented`: the calendar in the cache, the read under way and the producer's own are all
complete for their time stamp, even when the answer is that of an early instant of a slow read. `Serves` bounds the sleep of a serving thread by its last failure, `RecoveryBounded` dates that failure:
only a read begun before the source came back can still fail. `StopUnderway` says that since a stop the thread is where it was or further, in no read begun later, and `OneReader` makes
the thread that is joined the one that reads. From it `NoEntryIsBlind`, `SourceIsReadAgain` and `StopIsInTime`, for any
publications, symbols, delays, drift and lengths of reads, and any number of restarts. `StopIsInTime` is what `JoinDelay > Budget` gives: past the delay the only thread alive is in a read, or leaving one, that was under way
when the stop was asked and has outlasted the budget.

Only model-checked: liveness (`FillsAreCollected`, `EntriesResume`, `ClosuresEnd`, `GuardReopens`, `ExitFollows`, `TrailFollows`,
`PendingDrains`, `BasketYields`, `StopIsHeard`), since the proof system reasons neither about fairness and `ENABLED` nor by induction
over a well-founded measure with the installed provers. `SequentialIInv` is not a property of the run; its
parts were checked by TLC on the instance of `SequentialExecution.cfg` before they were proved.

## 5. What the runs found

Properties that the repository states of itself and that do not hold. `StopsBreakeven` is a run of the project; each of the others has
its configuration beside the modules, and `tlc -config <name>.cfg <module>` shows the counterexample.

* `StopsBreakeven.cfg` (`MCProtectiveStops`): the phase becomes `breakeven` before the guards and the broker have agreed to
  the move; with trailing off nothing moves the stop later. The adaptive exit still protects the position.
* `LedgerLimitMode.cfg` (`MCExecutionLedger`): nothing in the ledger closes an acknowledged limit order that expired, so
  each reconciliation answers WAIT for its deal (execution_ledger.py:315), against live_demo.py:193, "Remettre "LIMITE" restaure
  exactement le régime passif". The mode is off today (`MODE_ENTREE`).
* `ClosureSnapshot.cfg` (`MCClosureJournal`): absence from a snapshot and one OUT deal are taken for a closure; a
  partial exit leaves the same two traces, so that a live position is journaled as closed. position_manager.py:1651 says
  "L'absence de position dans un snapshot n'est pas une preuve de clôture".
* `SequentialOverfill.cfg` (`MCSequentialExecution`): the engine runs AdaptivePolicy without a fill budget (engine.py:67) and fills its intent several
  times, against fills.py:3, "une intention ne peut pas etre remplie au-dela de la quantite demandee".
* `MacroUnknownSymbol.cfg` (`MCMacroFeed`): risk.py:55-62 says an unknown symbol must keep ALL publications ("le contraire [...] serait
  [...] un faux calme"). `currencies_of` (contracts.py:293) cuts any name of six letters in groups of three: NATGAS.fs is {NAT, GAS},
  a set that is not empty and that no publication concerns. USOIL.fs and COFFEE.fs are others.
* `StopOverrun.cfg` (`MCMacroFeed`): service.py:21-25 says the delay of `stop` covers the longest read that is allowed, since the source's own time-out bounds the wait. That time-out bounds the
  connection and each wait for data (sources.py:259-261), not the read, and the file source has none: a read that overruns `timeout_s` can outlive the join, without any failure.
* `LimitFilled.cfg` (`MCPendingContexts`): the lifecycle journal says "filled" of an order that was cancelled. Its context waits for its expiry, the next order of its symbol and side fills, and the
  position takes the oldest context (pending_context.py:400-438), against pending_context.py:1. With a `positions.json` that does not load it can be told of an order that is still live.
* `BookSlips.cfg` (`MCManagedBook`): live_demo.py:292 says a second entry needs a price better than the best still open. The comparison is with the tick of the decision (live_demo.py:2256-2268); the order goes out
  after the other gates and fills at `res.price` (2412-2434), so that two positions of one side can open at one price.
* `LimitContext.cfg` (`MCPendingContexts`): a limit that fills between the positions read by the turn and those read by `manage_once` is adopted
  bare; its context then finds no position, against pending_context.py:1.
* `BookAsleep.cfg` (`MCManagedBook`): position_manager.py:1476 says a sleeping market takes no order and that insisting would have one refused
  each turn until it opens. The weekly exit is guarded (`marche_cote`); the exit of a basket is not.

Behaviours met while modelling, which the models contain but no run singles out:

* With two loops, the final UPDATE of `execute_recorded` (execution_ledger.py:160) does not look at the
  state it replaces; it can write ACKNOWLEDGED over a review another loop's reconciliation has just
  imposed on a shared position, until the row is inspected again.
* An excursion that cannot be appended after its trade line is never retried: the ticket counts
  as journaled (position_manager.py:1035 and 1716).
* A journal that cannot be read counts as empty in history_recovery.py:28, so closures in it get coverage lines.
* When `positions.json` neither loads nor copies, the pass overwrites it (position_manager.py:623 and 654).
* A BLOCK whose latch cannot be written is WAIT for that turn only (live_loss_guard.py:203): the losses leave
  the window and entries resume without an acknowledgement.
* A closure refused for good is in `journal_rejets.ndjson` and not in what the guard sums (position_manager.py:1731).
* A position whose adoption was lost is adopted again with R measured from its moved stop
  (position_manager.py:1438), and not at all when that stop is exactly on its entry.
* A crash after the lifecycle event and before `pending_limits.json` is written gives an order two ends in the journal; a crash between
  `positions.json` and `pending_limits.json` (pending_context.py:587) lets one context go to two positions; a context whose purge
  is late goes to the next order of its symbol and side.
* A position left alone when its basket was closed in part loses the exit of the basket, and a peak goes on
  when positions join or leave (position_manager.py:1413).
* An unreadable clock lets the entries pass the weekly window (live_demo.py:1979, 2127): the exits of the next turn close them again.
* `MacroService.start` returns True, not the False of its docstring, when a thread is in place, even one that a stop has
  condemned and is still in its read (service.py:119): nothing starts another when it ends.
* By default the longest backoff (3600 s) is longer than the freshness limit (900 s): after a failure that lasted, the calendar can be STALE
  for most of an hour after the source is back.

## 6. Plan

Done first, because the account depends on it: entries, closures, guard, stops; then the execution
simulation, whose results decide which policies are used; then the contexts of limit orders, the book of a symbol and the macro
calendar. Next, in this order:

1. A second manager (`manage_loop.py`) on the files of `ClosureJournal` and `ProtectiveStops`, and `PendingContexts` composed with
   `ClosureJournal`: a position adopted bare before its context arrives is refused at its closure.
2. `ManagedBook` with stops that move, so that a position at breakeven gives its risk back to the budget.
3. The multi-leg and hedge loop of the runner, OCO groups of `oms.py`.
4. Refinements: an abstract specification of a closed trade (measured, quarantined or covered, once and for good) for `ClosureJournal`,
   and one of an intent that is filled, for both simulations.
5. Limits of the risk gate with reserved exposure; the hash chain of the decision registry; the append and read of `EdgeBook`
   with torn lines.

### Not modelled

Most of the repository has no protocol state: indicators and pattern detection on price arrays (`titanium/analysis`, `features`),
language-model advisers, dashboards, audits and measurements in `tools`, the desktop shell and the vendored research agents. Their results enter
the models as nondeterministic choices. What the models leave out of the parts they cover:

* the repair of states adopted earlier (which saves, like an adoption, what the reconciliation loaded) and the lifecycle summary (pending_context.py:86-208), and the prices of limits;
* in `ManagedBook`, moves of stops, what a fill away from the decided price adds to the risk, limit orders among the exposures, and baskets with a risk that is not known;
* parsing of macro calendars; a policy that turns the flow off, for which every verdict is CLEAR by design;
* in `ClosureJournal`, the line a crash tears and the next one glued to it (edge.py:153), which `LossGuard` has on the side of the reader;
* hazards that need file contents: `positions.json` that neither loads nor
  copies is overwritten, by design (position_manager.py:623); a closure refused for good is invisible to the loss guard
  (position_manager.py:1731); an amended deal makes the reconciliation fail until the ledger is repaired (execution_ledger.py:178).

## 7. Running it

`tlc -config <run>.cfg <module>` with the module `PROJECT.json` names for the run, and `tlapm` on the eight `...Proofs`
modules. The longest runs (`LedgerTwoLoops`, `GuardHolds`, `MacroFeed`, `PendingContexts`, `ManagedBook`) take two to three minutes with two
workers, most take less than one.
